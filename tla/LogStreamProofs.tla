---------------------------- MODULE LogStreamProofs ----------------------------
(***************************************************************************)
(* The buffer keeps its quota and the last flush leaves nothing behind,    *)
(* proved for any number of lines and any quota.                           *)
(***************************************************************************)
EXTENDS LogStream, TLAPS

\* Lines are read after they were written.
Ordered == \A s \in Streams : scanned[s] <= fetched[s] /\ fetched[s] <= written[s]

\* Who calls AppendLogStream.
LEMMA Roles ==
  /\ Stdout \in Streams /\ Stderr \in Streams /\ Worker \in Appenders
  /\ Streams \subseteq Appenders /\ Worker \notin Streams /\ Stdout # Stderr
  /\ Appenders = {Stdout, Stderr, Worker}
BY LogAssumption DEF Streams, Appenders

LEMMA LinesTyped ==
  ASSUME NEW n \in 0..Lines, NEW m \in 0..Lines, n <= m
  PROVE  LinesFrom(n, m) \in Seq(1..Lines)
<1>1. m - n \in Nat /\ Lines \in Nat
  BY LogAssumption
<1>2. \A i \in 1..m - n : n + i \in 1..Lines
  BY <1>1
<1> QED BY <1>1, <1>2 DEF LinesFrom

Typed == TypeOK /\ Ordered

LEMMA TypedInit == Init => Typed
<1> SUFFICES ASSUME Init PROVE Typed
  OBVIOUS
<1>1. 0 \in 0..Lines /\ Lines \in Nat
  BY LogAssumption
<1> USE Roles DEF Init, ReaderPC, WorkerPC, Appending
<1>2. /\ written \in [Streams -> 0..Lines] /\ fetched = written /\ scanned = written
      /\ \A s \in Streams : written[s] = 0
  BY <1>1
<1>3. streamsBuf \in Seq(Entries) /\ sent \in Seq(Entries)
  OBVIOUS
<1>4. hand \in [Appenders -> Seq(1..Lines)]
  OBVIOUS
<1>5. pc \in [Appenders -> ReaderPC \cup WorkerPC]
  OBVIOUS
<1>6. Ordered
  BY <1>2 DEF Ordered
<1>7. skipped \in [Streams -> SUBSET (1..Lines)] /\ fetched \in [Streams -> 0..Lines]
      /\ scanned \in [Streams -> 0..Lines]
  BY <1>2
<1>8. /\ exited \in BOOLEAN /\ timeQuote \in BOOLEAN /\ gaveUp \in BOOLEAN
      /\ counter \in Nat /\ loop \in {"select", "flush", "stopped"}
  OBVIOUS
<1> QED BY <1>2, <1>3, <1>4, <1>5, <1>6, <1>7, <1>8 DEF Typed, TypeOK

\* A call of AppendLogStream leaves what was read alone.
LEMMA AppendTyped ==
  ASSUME Typed, NEW a \in Appenders, AppendLogStream(a) \/ NotifyTimeout(a)
  PROVE  Typed'
<1> USE DEF Typed, Goto, ReaderPC, WorkerPC, Appending
<1>0. Ordered'
  BY DEF Ordered, AppendLogStream, NotifyTimeout, CheckQuota, SendBuf, incrementCounter,
     Append_, pipeVars
<1>1. CASE CheckQuota(a)
  BY <1>0, <1>1 DEF CheckQuota, TypeOK, pipeVars, bufVars
<1>2. CASE NotifyTimeout(a)
  BY <1>0, <1>2 DEF NotifyTimeout, TypeOK, pipeVars, bufVars
<1>3. CASE SendBuf(a)
  <2>1. sent' \in Seq(Entries) /\ streamsBuf' \in Seq(Entries)
    BY <1>3 DEF SendBuf, doSendSteamBuf, TypeOK
  <2> QED BY <1>0, <2>1, <1>3 DEF SendBuf, TypeOK, pipeVars
<1>4. CASE incrementCounter(a)
  BY <1>0, <1>4 DEF incrementCounter, TypeOK, pipeVars
<1>5. CASE Append_(a)
  <2>1. streamsBuf' \in Seq(Entries)
    <3>1. <<a, hand[a]>> \in Entries
      BY DEF TypeOK, Entries
    <3> QED BY <3>1, <1>5 DEF Append_, TypeOK
  <2>2. hand' \in [Appenders -> Seq(1..Lines)]
    BY <1>5 DEF Append_, TypeOK
  <2>3. pc' \in [Appenders -> ReaderPC \cup WorkerPC]
    BY <1>5 DEF Append_, TypeOK
  <2> QED BY <1>0, <2>1, <2>2, <2>3, <1>5 DEF Append_, TypeOK, pipeVars
<1> QED BY <1>1, <1>2, <1>3, <1>4, <1>5 DEF AppendLogStream

LEMMA ReaderTyped ==
  ASSUME Typed, NEW s \in Streams, copyStd(s) \/ Write(s)
  PROVE  Typed'
<1>0. s \in Appenders /\ Lines \in Nat
  BY LogAssumption, Roles
<1>1. /\ written \in [Streams -> 0..Lines] /\ fetched \in [Streams -> 0..Lines]
      /\ scanned \in [Streams -> 0..Lines]
      /\ \A t \in Streams : scanned[t] <= fetched[t] /\ fetched[t] <= written[t]
  BY DEF Typed, TypeOK, Ordered
<1>2. /\ skipped \in [Streams -> SUBSET (1..Lines)]
      /\ hand \in [Appenders -> Seq(1..Lines)]
      /\ pc \in [Appenders -> ReaderPC \cup WorkerPC]
  BY DEF Typed, TypeOK
<1>3. \A p \in {"check", "readAll", "processed"} :
        Goto(s, p) => pc' \in [Appenders -> ReaderPC \cup WorkerPC]
  BY <1>0, <1>2 DEF Goto, ReaderPC, Appending
<1> DEFINE Rest == <<exited, bufVars, gaveUp, loop>>
<1>4. SUFFICES /\ written' \in [Streams -> 0..Lines]
               /\ fetched' \in [Streams -> 0..Lines]
               /\ scanned' \in [Streams -> 0..Lines] /\ Ordered'
               /\ skipped' \in [Streams -> SUBSET (1..Lines)]
               /\ hand' \in [Appenders -> Seq(1..Lines)]
               /\ pc' \in [Appenders -> ReaderPC \cup WorkerPC]
               /\ UNCHANGED Rest
  BY DEF Typed, TypeOK, bufVars
<1>5. CASE Fetch(s)
  <2>1. PICK n \in fetched[s] + 1 .. written[s] : fetched' = [fetched EXCEPT ![s] = n]
    BY <1>5 DEF Fetch
  <2>2. n \in 0..Lines /\ n >= fetched[s] /\ n <= written[s]
    BY <2>1, <1>0, <1>1
  <2>3. fetched' \in [Streams -> 0..Lines]
    BY <2>1, <2>2, <1>1
  <2>4. UNCHANGED <<written, scanned, skipped, hand, pc, Rest>>
    BY <1>5 DEF Fetch
  <2>5. Ordered'
    BY <1>1, <2>1, <2>2, <2>4 DEF Ordered
  <2> QED BY <1>1, <1>2, <2>3, <2>4, <2>5
<1>6. CASE Scan(s)
  <2>1. scanned[s] + 1 \in 1..Lines /\ scanned[s] + 1 <= fetched[s]
    BY <1>0, <1>1, <1>6 DEF Scan
  <2>2. scanned' = [scanned EXCEPT ![s] = scanned[s] + 1]
    BY <1>6 DEF Scan
  <2>3. scanned' \in [Streams -> 0..Lines] /\ scanned'[s] = scanned[s] + 1
    BY <1>1, <2>1, <2>2
  <2>4. hand' = [hand EXCEPT ![s] = <<scanned'[s]>>] /\ Goto(s, "check")
        /\ UNCHANGED <<written, fetched, skipped, Rest>>
    BY <1>6 DEF Scan
  <2>5. hand' \in [Appenders -> Seq(1..Lines)]
    BY <1>0, <1>2, <2>1, <2>3, <2>4
  <2>6. Ordered'
    BY <1>1, <2>1, <2>2, <2>4 DEF Ordered
  <2> QED BY <1>1, <1>2, <1>3, <2>3, <2>4, <2>5, <2>6
<1>7. CASE ScanTooLong(s)
  <2>1. skipped' = [skipped EXCEPT ![s] = scanned[s] + 1 .. fetched[s]]
        /\ scanned' = [scanned EXCEPT ![s] = fetched[s]]
        /\ Goto(s, "readAll") /\ UNCHANGED <<written, fetched, hand, Rest>>
    BY <1>7 DEF ScanTooLong
  <2>2. scanned[s] + 1 .. fetched[s] \in SUBSET (1..Lines)
    BY <1>0, <1>1
  <2>3. skipped' \in [Streams -> SUBSET (1..Lines)]
    BY <1>2, <2>1, <2>2
  <2>4. scanned' \in [Streams -> 0..Lines]
    BY <1>1, <2>1
  <2>5. Ordered'
    BY <1>1, <2>1 DEF Ordered
  <2> QED BY <1>1, <1>2, <1>3, <2>1, <2>3, <2>4, <2>5
<1>8. CASE ReadAll(s)
  <2>1. hand' = [hand EXCEPT ![s] = LinesFrom(fetched[s], written[s])]
        /\ fetched' = [fetched EXCEPT ![s] = written[s]]
        /\ scanned' = [scanned EXCEPT ![s] = written[s]]
        /\ Goto(s, "check") /\ UNCHANGED <<written, skipped, Rest>>
    BY <1>8 DEF ReadAll
  <2>2. LinesFrom(fetched[s], written[s]) \in Seq(1..Lines)
    BY <1>1, LinesTyped
  <2>3. hand' \in [Appenders -> Seq(1..Lines)]
    BY <1>0, <1>2, <2>1, <2>2
  <2>4. fetched' \in [Streams -> 0..Lines] /\ scanned' \in [Streams -> 0..Lines]
    BY <1>1, <2>1
  <2>5. Ordered'
    BY <1>1, <2>1 DEF Ordered
  <2> QED BY <1>1, <1>2, <1>3, <2>1, <2>3, <2>4, <2>5
<1>9. CASE ReadAllFails(s) \/ ScanEnds(s)
  <2>1. Goto(s, "processed")
        /\ UNCHANGED <<written, fetched, scanned, skipped, hand, Rest>>
    BY <1>9 DEF ReadAllFails, ScanEnds, pipeVars
  <2>2. Ordered'
    BY <1>1, <2>1 DEF Ordered
  <2> QED BY <1>1, <1>2, <1>3, <2>1, <2>2
<1>10. CASE Write(s)
  <2>1. written[s] + 1 \in 0..Lines
    BY <1>0, <1>1, <1>10 DEF Write
  <2>2. written' = [written EXCEPT ![s] = written[s] + 1]
        /\ UNCHANGED <<fetched, scanned, skipped, hand, pc, Rest>>
    BY <1>10 DEF Write
  <2>3. written' \in [Streams -> 0..Lines]
    BY <1>1, <2>1, <2>2
  <2>4. Ordered'
    BY <1>1, <2>2 DEF Ordered
  <2> QED BY <1>1, <1>2, <2>2, <2>3, <2>4
<1> QED BY <1>5, <1>6, <1>7, <1>8, <1>9, <1>10 DEF copyStd

LEMMA LoopTyped ==
  ASSUME Typed,
         Tick \/ TimeIntervalTick \/ SlowLogsTick \/ LoopCancelled \/ LoopEnds
  PROVE  Typed'
<1> USE Roles DEF Typed, TypeOK, Ordered, Goto, ReaderPC, WorkerPC, Appending
<1>1. CASE Tick
  <2>1. pc' \in [Appenders -> ReaderPC \cup WorkerPC]
    BY <1>1 DEF Tick
  <2>2. timeQuote' \in BOOLEAN /\ counter' \in Nat
    BY <1>1 DEF Tick
  <2>3. Ordered'
    BY <1>1 DEF Tick, pipeVars
  <2>4. UNCHANGED <<pipeVars, streamsBuf, sent, hand, gaveUp, loop>>
    BY <1>1 DEF Tick
  <2> QED BY <2>1, <2>2, <2>3, <2>4 DEF pipeVars
<1>2. CASE TimeIntervalTick
  BY <1>2 DEF TimeIntervalTick, pipeVars
<1>3. CASE SlowLogsTick \/ LoopEnds
  <2>1. doSendSteamBuf /\ UNCHANGED <<pipeVars, counter, timeQuote, hand, gaveUp, pc>>
        /\ loop' \in {loop, "stopped"}
    BY <1>3 DEF SlowLogsTick, LoopEnds
  <2>2. sent' = sent \o streamsBuf /\ streamsBuf' = << >>
    BY <2>1 DEF doSendSteamBuf
  <2>3. sent' \in Seq(Entries) /\ streamsBuf' \in Seq(Entries)
    BY <2>2
  <2> QED BY <2>1, <2>3 DEF pipeVars
<1>4. CASE LoopCancelled
  BY <1>4 DEF LoopCancelled, pipeVars, bufVars
<1> QED BY <1>1, <1>2, <1>3, <1>4

LEMMA RuncmdTyped ==
  ASSUME Typed,
         \/ StartFails \/ Start \/ RunCmd \/ ProcessExits
         \/ \E s \in Streams : GiveUp(s)
  PROVE  Typed'
<1> USE Roles DEF Typed, TypeOK, Ordered, Goto, ReaderPC, WorkerPC, Appending
<1>1. CASE StartFails
  <2>1. hand' \in [Appenders -> Seq(1..Lines)]
    BY <1>1, LogAssumption DEF StartFails
  <2> QED BY <1>1, <2>1 DEF StartFails, pipeVars, bufVars
<1>2. CASE Start
  BY <1>2 DEF Start, pipeVars, bufVars
<1>3. CASE RunCmd
  <2>1. \A s \in Streams : AfterWait(s) \in {"awaitStderr", "stopLogs"}
    BY DEF AfterWait
  <2>2. \E p \in {"awaitStdout", "awaitStderr", "stopLogs", "returned"} :
          pc' = [pc EXCEPT ![Worker] = p]
    BY <1>3, <2>1 DEF RunCmd, WaitReturns, StopLoop, ReaderDone
  <2>3. pc' \in [Appenders -> ReaderPC \cup WorkerPC]
    BY <2>2
  <2>4. UNCHANGED <<pipeVars, bufVars, hand, gaveUp>> /\ loop' \in {loop, "flush"}
    BY <1>3 DEF RunCmd, WaitReturns, StopLoop, ReaderDone
  <2> QED BY <2>3, <2>4 DEF pipeVars, bufVars
<1>4. CASE ProcessExits
  BY <1>4 DEF ProcessExits, bufVars
<1>5. CASE \E s \in Streams : GiveUp(s)
  BY <1>5 DEF GiveUp, AfterWait, pipeVars, bufVars
<1> QED BY <1>1, <1>2, <1>3, <1>4, <1>5

LEMMA TypedStep == Typed /\ [Next]_vars => Typed'
<1> SUFFICES ASSUME Typed, [Next]_vars PROVE Typed'
  OBVIOUS
<1>1. CASE UNCHANGED vars
  BY <1>1 DEF vars, pipeVars, bufVars, Typed, TypeOK, Ordered
<1> QED
  BY <1>1, AppendTyped, ReaderTyped, LoopTyped, RuncmdTyped DEF Next, Ended

\* Every variable stays in its range; a reader never reads what was not written.
THEOREM TypeCorrect == Spec => []TypeOK
<1>1. Typed => TypeOK
  BY DEF Typed
<1> QED BY <1>1, TypedInit, TypedStep, PTL DEF Spec

--------------------------------------------------------------------------------
(* The quota *)

\* The worker appends only while the readers have not started.
Alone == pc[Worker] \in Appending \cup {"start"} => \A s \in Streams : pc[s] = "off"

\* Who has passed the check of the quota and not appended yet.
Passed(a) == IF pc[a] \in {"count", "append"} THEN 1 ELSE 0
AllPassed == Passed(Stdout) + Passed(Stderr) + Passed(Worker)

\* Each of them has a place of its own beyond the quota.
Reserved == 2 * Len(streamsBuf) + 2 * AllPassed <= elements + 4

LEMMA AloneStep == Typed /\ Alone /\ [Next]_vars => Alone'
<1> SUFFICES ASSUME Typed, Alone, [Next]_vars PROVE Alone'
  OBVIOUS
<1> USE Roles DEF Alone, Appending, Goto, Typed, TypeOK
<1>1. CASE UNCHANGED vars
  BY <1>1 DEF vars
<1>2. ASSUME NEW a \in Appenders, AppendLogStream(a) \/ NotifyTimeout(a) PROVE Alone'
  BY <1>2 DEF AppendLogStream, NotifyTimeout, CheckQuota, SendBuf, incrementCounter,
     Append_
<1>3. ASSUME NEW s \in Streams, copyStd(s) PROVE Alone'
  BY <1>3 DEF copyStd, Fetch, Scan, ScanTooLong, ReadAll, ReadAllFails, ScanEnds
<1>4. ASSUME NEW s \in Streams, GiveUp(s) \/ Write(s) PROVE Alone'
  BY <1>4 DEF GiveUp, Write, AfterWait, Awaits
<1>5. CASE Tick
  <2>1. CASE UNCHANGED pc
    BY <2>1
  <2>2. CASE \E a \in Appenders : pc[a] = "notify" /\ Goto(a, "send")
    BY <2>2
  <2> QED BY <1>5, <2>1, <2>2 DEF Tick
<1>6. CASE TimeIntervalTick \/ SlowLogsTick \/ LoopCancelled \/ LoopEnds \/ ProcessExits
  BY <1>6 DEF TimeIntervalTick, SlowLogsTick, LoopCancelled, LoopEnds, ProcessExits
<1>7. CASE StartFails \/ Start \/ RunCmd
  BY <1>7 DEF StartFails, Start, RunCmd, WaitReturns, StopLoop, ReaderDone, AfterWait,
     Awaits
<1> QED BY <1>1, <1>2, <1>3, <1>4, <1>5, <1>6, <1>7 DEF Next, Ended

\* A step that appends nothing and lets nobody past the check keeps the places.
LEMMA NobodyPasses ==
  ASSUME Typed, Reserved, Len(streamsBuf') \in Nat, Len(streamsBuf') <= Len(streamsBuf),
         \A a \in Appenders :
           pc'[a] \in {"count", "append"} => pc[a] \in {"count", "append"}
  PROVE  Reserved'
<1>1. Len(streamsBuf) \in Nat /\ elements \in Nat
  BY LogAssumption DEF Typed, TypeOK
<1>2. Passed(Stdout)' <= Passed(Stdout) /\ Passed(Stderr)' <= Passed(Stderr)
        /\ Passed(Worker)' <= Passed(Worker)
  BY Roles DEF Passed
<1>3. /\ Passed(Stdout) \in 0..1 /\ Passed(Stderr) \in 0..1 /\ Passed(Worker) \in 0..1
      /\ Passed(Stdout)' \in 0..1 /\ Passed(Stderr)' \in 0..1
      /\ Passed(Worker)' \in 0..1
  BY DEF Passed
<1> QED BY <1>1, <1>2, <1>3 DEF Reserved, AllPassed

\* Of the three at most two are past the check at a time.
LEMMA TwoPass ==
  ASSUME Alone'
  PROVE  AllPassed \in 0..3 /\ AllPassed' \in 0..2
<1>1. AllPassed \in 0..3
  BY DEF AllPassed, Passed
<1>2. CASE Passed(Worker)' = 0
  BY <1>1, <1>2 DEF AllPassed, Passed
<1>3. CASE Passed(Worker)' # 0
  <2>1. pc'[Stdout] = "off" /\ pc'[Stderr] = "off"
    BY <1>3, Roles DEF Alone, Appending, Passed
  <2> QED BY <1>1, <2>1 DEF AllPassed, Passed
<1> QED BY <1>2, <1>3

LEMMA ReservedByCall ==
  ASSUME Typed, Alone', Reserved, NEW a \in Appenders,
         AppendLogStream(a) \/ NotifyTimeout(a)
  PROVE  Reserved'
<1>0. /\ Len(streamsBuf) \in Nat /\ elements \in Nat
      /\ AllPassed \in 0..3 /\ AllPassed' \in 0..2
  BY TwoPass, LogAssumption DEF Typed, TypeOK
<1>1. CASE CheckQuota(a)
  <2>1. CASE quotaHit
    <3>1. streamsBuf' = streamsBuf
            /\ \A b \in Appenders : pc'[b] \in {"count", "append"} => pc'[b] = pc[b]
      BY <1>1, <2>1 DEF CheckQuota, Goto, bufVars, Typed, TypeOK
    <3> QED BY <1>0, <3>1, NobodyPasses
  <2>2. CASE ~quotaHit
    <3>1. 2 * Len(streamsBuf) <= elements
      BY <1>0, <2>2 DEF quotaHit
    <3> QED BY <1>0, <1>1, <3>1 DEF CheckQuota, bufVars, Reserved
  <2> QED BY <2>1, <2>2
<1>2. CASE NotifyTimeout(a)
  BY <1>0, <1>2, NobodyPasses DEF NotifyTimeout, Goto, bufVars, Typed, TypeOK
<1>3. CASE SendBuf(a)
  <2>1. Len(streamsBuf') = 0
    BY <1>3 DEF SendBuf, doSendSteamBuf
  <2>2. \A n \in 0..2 : 2 * 0 + 2 * n <= elements + 4
    BY <1>0
  <2> QED BY <1>0, <2>1, <2>2 DEF Reserved
<1>4. CASE incrementCounter(a)
  BY <1>0, <1>4, NobodyPasses DEF incrementCounter, Goto, Typed, TypeOK
<1>5. CASE Append_(a)
  <2>1. Len(streamsBuf') = Len(streamsBuf) + 1
    BY <1>5 DEF Append_, Typed, TypeOK
  <2>2. Passed(a) = 1 /\ Passed(a)' = 0
    BY <1>5 DEF Append_, Goto, Passed, Typed, TypeOK
  <2>3. \A b \in Appenders \ {a} : Passed(b)' = Passed(b)
    BY <1>5 DEF Append_, Goto, Passed, Typed, TypeOK
  <2>4. AllPassed' = AllPassed - 1
    <3>1. \A b \in Appenders : Passed(b) \in 0..1 /\ Passed(b)' \in 0..1
      BY DEF Passed
    <3> QED BY <2>2, <2>3, <3>1, Roles DEF AllPassed
  <2> QED BY <1>0, <2>1, <2>4 DEF Reserved
<1> QED BY <1>1, <1>2, <1>3, <1>4, <1>5 DEF AppendLogStream

LEMMA ReservedStep ==
  Typed /\ Alone' /\ Reserved /\ [Next]_vars => Reserved'
<1> SUFFICES ASSUME Typed, Alone', Reserved, [Next]_vars PROVE Reserved'
  OBVIOUS
<1>0. Len(streamsBuf) \in Nat
  BY DEF Typed, TypeOK
<1>1. ASSUME NEW a \in Appenders, AppendLogStream(a) \/ NotifyTimeout(a) PROVE Reserved'
  BY <1>1, ReservedByCall
<1>2. ASSUME Len(streamsBuf') \in Nat, Len(streamsBuf') <= Len(streamsBuf),
             \A a \in Appenders :
               pc'[a] \in {"count", "append"} => pc[a] \in {"count", "append"}
      PROVE  Reserved'
  BY <1>2, NobodyPasses
<1> USE <1>0, <1>2, Roles DEF Goto, Typed, TypeOK
<1>3. CASE UNCHANGED vars
  BY <1>3 DEF vars, bufVars
<1>4. ASSUME NEW s \in Streams, copyStd(s) PROVE Reserved'
  <2>1. /\ pc' \in {pc, [pc EXCEPT ![s] = "check"], [pc EXCEPT ![s] = "readAll"],
                    [pc EXCEPT ![s] = "processed"]}
        /\ streamsBuf' = streamsBuf
    BY <1>4 DEF copyStd, Fetch, Scan, ScanTooLong, ReadAll, ReadAllFails, ScanEnds,
       bufVars
  <2> QED BY <2>1
<1>5. ASSUME NEW s \in Streams, GiveUp(s) \/ Write(s) PROVE Reserved'
  <2>1. AfterWait(s) \in {"awaitStderr", "stopLogs"}
    BY DEF AfterWait
  <2>2. pc' \in {pc, [pc EXCEPT ![Worker] = AfterWait(s)]} /\ streamsBuf' = streamsBuf
    BY <1>5 DEF GiveUp, Write, bufVars
  <2> QED BY <2>1, <2>2
<1>6. CASE Tick
  <2>1. pc' = pc \/ \E a \in Appenders : pc' = [pc EXCEPT ![a] = "send"]
    BY <1>6 DEF Tick
  <2>2. streamsBuf' = streamsBuf
    BY <1>6 DEF Tick
  <2> QED BY <2>1, <2>2
<1>7. CASE SlowLogsTick \/ LoopEnds
  <2>1. Len(streamsBuf') = 0 /\ UNCHANGED pc
    BY <1>7 DEF SlowLogsTick, LoopEnds, doSendSteamBuf
  <2> QED BY <2>1
<1>8. CASE TimeIntervalTick \/ LoopCancelled \/ ProcessExits
  BY <1>8 DEF TimeIntervalTick, LoopCancelled, ProcessExits, bufVars
<1>9. CASE StartFails \/ Start
  BY <1>9 DEF StartFails, Start, bufVars
<1>10. CASE RunCmd
  <2>1. \A s \in Streams : AfterWait(s) \in {"awaitStderr", "stopLogs"}
    BY DEF AfterWait
  <2>2. \E p \in {"awaitStdout", "awaitStderr", "stopLogs", "returned"} :
          pc' = [pc EXCEPT ![Worker] = p]
    BY <1>10, <2>1 DEF RunCmd, WaitReturns, StopLoop, ReaderDone
  <2>3. streamsBuf' = streamsBuf
    BY <1>10 DEF RunCmd, WaitReturns, StopLoop, ReaderDone, bufVars
  <2> QED BY <2>2, <2>3
<1> QED BY <1>1, <1>3, <1>4, <1>5, <1>6, <1>7, <1>8, <1>9, <1>10 DEF Next, Ended

\* For any quota, the buffer exceeds it by one entry of each reader at most, although
\* the quota is checked without the lock.
THEOREM BufferWithinQuota == Spec => []BufferBounded
<1>1. Init => Alone /\ Reserved
  <2> SUFFICES ASSUME Init PROVE Alone /\ Reserved
    OBVIOUS
  <2>1. Len(streamsBuf) = 0 /\ AllPassed = 0 /\ elements \in Nat
    BY Roles, LogAssumption DEF Init, AllPassed, Passed
  <2> QED BY <2>1, Roles DEF Init, Alone, Reserved
<1>2. Typed /\ Reserved => BufferBounded
  <2> SUFFICES ASSUME Typed, Reserved PROVE BufferBounded
    OBVIOUS
  <2>1. Len(streamsBuf) \in Nat /\ elements \in Nat /\ AllPassed \in 0..3
    BY LogAssumption DEF AllPassed, Passed, Typed, TypeOK
  <2> QED BY <2>1 DEF Reserved, BufferBounded
<1> QED
  BY <1>1, <1>2, TypedInit, TypedStep, AloneStep, ReservedStep, PTL DEF Spec

--------------------------------------------------------------------------------
(* The last flush *)

Done(s) == pc[s] \in {"off", "processed"}

\* The worker comes to the loop's end only past both readers, and the loop's last
\* flush comes after that.
Quiet ==
  /\ loop # "select" => pc[Worker] = "returned"
  /\ ~gaveUp =>
       /\ pc[Worker] = "awaitStderr" => Done(Stdout)
       /\ pc[Worker] \in {"stopLogs", "returned"} => Done(Stdout) /\ Done(Stderr)
       /\ loop = "stopped" => streamsBuf = << >>

LEMMA QuietStep == Typed /\ Alone /\ Quiet /\ [Next]_vars => Quiet'
<1> SUFFICES ASSUME Typed, Alone, Quiet, [Next]_vars PROVE Quiet'
  OBVIOUS
<1> USE Roles DEF Quiet, Done, Goto, Typed, TypeOK
<1>1. CASE UNCHANGED vars
  BY <1>1 DEF vars, bufVars
<1>2. ASSUME NEW a \in Appenders, AppendLogStream(a) \/ NotifyTimeout(a) PROVE Quiet'
  <2>1. pc[a] \in Appending /\ UNCHANGED <<loop, gaveUp>>
    BY <1>2 DEF AppendLogStream, NotifyTimeout, CheckQuota, SendBuf, incrementCounter,
       Append_, Appending
  <2>2. pc' = [pc EXCEPT ![a] = pc'[a]]
    BY <1>2 DEF AppendLogStream, NotifyTimeout, CheckQuota, SendBuf, incrementCounter,
       Append_
  <2>3. CASE a = Worker
    <3>1. pc'[Stdout] = "off" /\ pc'[Stderr] = "off"
      BY <2>1, <2>2, <2>3 DEF Alone
    <3>2. loop = "select"
      BY <2>1, <2>3 DEF Appending
    <3> QED BY <2>1, <3>1, <3>2
  <2>4. CASE a # Worker
    BY <2>1, <2>2, <2>4 DEF Appending
  <2> QED BY <2>3, <2>4
<1>3. ASSUME NEW s \in Streams, copyStd(s) PROVE Quiet'
  <2>1. /\ pc[s] \in {"scan", "readAll"} /\ pc' = [pc EXCEPT ![s] = pc'[s]]
        /\ UNCHANGED <<loop, gaveUp, streamsBuf>>
    BY <1>3 DEF copyStd, Fetch, Scan, ScanTooLong, ReadAll, ReadAllFails, ScanEnds,
       bufVars
  <2> QED BY <2>1 DEF Streams
<1>4. ASSUME NEW s \in Streams, GiveUp(s) PROVE Quiet'
  BY <1>4 DEF GiveUp, Awaits, AfterWait, bufVars
<1>5. ASSUME NEW s \in Streams, Write(s) PROVE Quiet'
  BY <1>5 DEF Write, bufVars
<1>6. CASE Tick
  <2>1. CASE UNCHANGED pc
    BY <1>6, <2>1 DEF Tick
  <2>2. CASE \E a \in Appenders : pc[a] = "notify" /\ Goto(a, "send")
    <3>1. PICK a \in Appenders : pc[a] = "notify" /\ pc' = [pc EXCEPT ![a] = "send"]
      BY <2>2
    <3>2. loop' = "select" /\ gaveUp' = gaveUp
      BY <1>6 DEF Tick
    <3> QED BY <3>1, <3>2
  <2> QED BY <1>6, <2>1, <2>2 DEF Tick
<1>7. CASE TimeIntervalTick \/ SlowLogsTick \/ LoopCancelled \/ LoopEnds \/ ProcessExits
  BY <1>7 DEF TimeIntervalTick, SlowLogsTick, LoopCancelled, LoopEnds, ProcessExits,
     doSendSteamBuf, bufVars
<1>8. CASE StartFails \/ Start
  BY <1>8 DEF StartFails, Start, bufVars
<1>9. CASE WaitReturns \/ StopLoop
  BY <1>9 DEF WaitReturns, StopLoop, bufVars
<1>10. ASSUME NEW s \in Streams, ReaderDone(s) PROVE Quiet'
  BY <1>10 DEF ReaderDone, Awaits, AfterWait, Streams, bufVars
<1> QED
  BY <1>1, <1>2, <1>3, <1>4, <1>5, <1>6, <1>7, <1>8, <1>9, <1>10 DEF Next, RunCmd, Ended

\* Once the loop has stopped the buffer is empty and nobody is about to append to it,
\* unless the worker gave a reader up.
THEOREM NothingLeftBehind == Spec => []FlushedAtEnd
<1>1. Init => Alone /\ Quiet
  BY Roles DEF Init, Alone, Quiet, Done
<1>2. Typed /\ Quiet => FlushedAtEnd
  BY Roles DEF Typed, Quiet, Done, FlushedAtEnd, Appending
<1> QED BY <1>1, <1>2, TypedInit, TypedStep, AloneStep, QuietStep, PTL DEF Spec
--------------------------------------------------------------------------------
(* The lines and their order *)

LEMMA ConcatAppend ==
  ASSUME NEW S, NEW b \in Seq(S), NEW c \in Seq(S), NEW e \in S
  PROVE  b \o Append(c, e) = Append(b \o c, e)
<1>1. b \o Append(c, e) \in Seq(S) /\ Append(b \o c, e) \in Seq(S)
  OBVIOUS
<1>2. /\ Len(b \o Append(c, e)) = Len(b) + Len(c) + 1
      /\ Len(Append(b \o c, e)) = Len(b) + Len(c) + 1
  OBVIOUS
<1>3. \A i \in 1..Len(b) + Len(c) + 1 : (b \o Append(c, e))[i] = Append(b \o c, e)[i]
  OBVIOUS
<1> QED BY <1>1, <1>2, <1>3

LEMMA ConcatEmpty ==
  ASSUME NEW S, NEW b \in Seq(S)
  PROVE  b \o << >> = b
<1>1. b \o << >> \in Seq(S) /\ Len(b \o << >>) = Len(b)
  OBVIOUS
<1>2. \A i \in 1..Len(b) : (b \o << >>)[i] = b[i]
  OBVIOUS
<1> QED BY <1>1, <1>2

Rising(h) == \A m, n \in DOMAIN h : m < n => h[m] < h[n]

\* What one more entry adds.
LEMMA OneMore ==
  ASSUME NEW b \in Seq(Entries), NEW e \in Entries, NEW s
  PROVE  /\ e[1] # s => /\ LinesOf(Append(b, e), s) = LinesOf(b, s)
                        /\ Ascending(Append(b, e), s) <=> Ascending(b, s)
         /\ e[1] = s => /\ LinesOf(Append(b, e), s) = LinesOf(b, s) \cup Range(e[2])
                        /\ Ascending(Append(b, e), s) <=>
                             /\ Ascending(b, s) /\ Rising(e[2])
                             /\ \A x \in LinesOf(b, s) : \A y \in Range(e[2]) : x < y
<1> DEFINE c == Append(b, e)
           k == Len(b) + 1
<1>1. /\ Len(b) \in Nat /\ Len(c) = k /\ c[k] = e
      /\ \A i \in 1..Len(b) : c[i] = b[i] /\ i < k
      /\ 1..k = (1..Len(b)) \cup {k} /\ k \notin 1..Len(b)
  OBVIOUS
<1> HIDE DEF c, k
<1>2. Carrying(b, s) \subseteq 1..Len(b)
      /\ \A i \in Carrying(b, s) : c[i] = b[i] /\ i < k /\ ~(k < i) /\ i # k
  BY <1>1 DEF Carrying
<1>3. CASE e[1] # s
  <2>1. Carrying(c, s) = Carrying(b, s)
    BY <1>1, <1>3 DEF Carrying
  <2>2. LinesOf(c, s) = LinesOf(b, s)
    BY <1>2, <2>1 DEF LinesOf
  <2>3. Ascending(c, s) <=> Ascending(b, s)
    BY <1>2, <2>1 DEF Ascending
  <2> QED BY <1>3, <2>2, <2>3 DEF c
<1>4. CASE e[1] = s
  <2>1. Carrying(c, s) = Carrying(b, s) \cup {k}
    BY <1>1, <1>4 DEF Carrying
  <2>2. LinesOf(c, s) = LinesOf(b, s) \cup Range(e[2])
    BY <1>1, <1>2, <2>1 DEF LinesOf
  <2> DEFINE Across == \A i \in Carrying(b, s) :
                         \A m \in DOMAIN b[i][2], n \in DOMAIN e[2] :
                            b[i][2][m] < e[2][n]
  <2>3. (\A x \in LinesOf(b, s) : \A y \in Range(e[2]) : x < y) <=> Across
    <3>1. \A x : x \in LinesOf(b, s) <=>
             \E i \in Carrying(b, s) : \E m \in DOMAIN b[i][2] : x = b[i][2][m]
      BY DEF LinesOf, Range
    <3>2. \A y : y \in Range(e[2]) <=> \E n \in DOMAIN e[2] : y = e[2][n]
      BY DEF Range
    <3>3. ASSUME \A x \in LinesOf(b, s) : \A y \in Range(e[2]) : x < y PROVE Across
      BY <3>1, <3>2, <3>3
    <3>4. ASSUME Across, NEW x \in LinesOf(b, s), NEW y \in Range(e[2]) PROVE x < y
      <4>1. PICK i \in Carrying(b, s) : \E m \in DOMAIN b[i][2] : x = b[i][2][m]
        BY <3>1
      <4>2. PICK n \in DOMAIN e[2] : y = e[2][n]
        BY <3>2
      <4> QED BY <3>4, <4>1, <4>2
    <3> HIDE DEF Across
    <3> QED BY <3>3, <3>4
  <2>4. ASSUME Ascending(b, s), Rising(e[2]), Across PROVE Ascending(c, s)
    <3> SUFFICES ASSUME NEW i \in Carrying(c, s), NEW j \in Carrying(c, s),
                        NEW m \in DOMAIN c[i][2], NEW n \in DOMAIN c[j][2],
                        i < j \/ (i = j /\ m < n)
                 PROVE  c[i][2][m] < c[j][2][n]
      BY DEF Ascending
    <3>1. CASE i \in Carrying(b, s) /\ j \in Carrying(b, s)
      BY <1>2, <2>4, <3>1 DEF Ascending
    <3>2. CASE i \in Carrying(b, s) /\ j = k
      BY <1>1, <1>2, <2>4, <3>2
    <3>3. CASE i = k /\ j \in Carrying(b, s)
      BY <1>2, <3>3
    <3>4. CASE i = k /\ j = k
      <4>1. ~(k < k)
        BY <1>1 DEF k
      <4> QED BY <1>1, <2>4, <3>4, <4>1 DEF Rising
    <3> QED BY <2>1, <3>1, <3>2, <3>3, <3>4
  <2>5. ASSUME Ascending(c, s) PROVE Ascending(b, s) /\ Rising(e[2]) /\ Across
    <3>1. Ascending(b, s)
      BY <1>2, <2>1, <2>5 DEF Ascending
    <3>2. Rising(e[2])
      BY <1>1, <2>1, <2>5 DEF Ascending, Rising
    <3>3. Across
      BY <1>1, <1>2, <2>1, <2>5 DEF Ascending
    <3> QED BY <3>1, <3>2, <3>3
  <2> HIDE DEF Across
  <2> QED BY <1>4, <2>2, <2>3, <2>4, <2>5 DEF c
<1> QED BY <1>3, <1>4

\* The hand is empty outside AppendLogStream; a reader that scans has skipped nothing,
\* and one that reads the rest has nothing left in its buffers.
InLine ==
  \A s \in Streams :
    /\ skipped[s] \subseteq 1..scanned[s]
    /\ pc[s] \notin Appending => hand[s] = << >>
    /\ pc[s] \in {"off", "scan"} => skipped[s] = {}
    /\ pc[s] = "readAll" => fetched[s] = scanned[s]

LEMMA InLineReader ==
  ASSUME Typed, InLine, NEW s \in Streams, copyStd(s)
  PROVE  InLine'
<1>1. /\ \A t \in Streams \ {s} : pc'[t] = pc[t] /\ hand'[t] = hand[t]
           /\ skipped'[t] = skipped[t] /\ scanned'[t] = scanned[t]
           /\ fetched'[t] = fetched[t]
  <2>1. s \in Appenders /\ Streams \subseteq Appenders
    BY Roles
  <2> QED BY <2>1 DEF copyStd, Fetch, Scan, ScanTooLong, ReadAll, ReadAllFails,
                      ScanEnds, Goto, pipeVars, Typed, TypeOK
<1>2. s \in Appenders /\ hand \in [Appenders -> Seq(1..Lines)] /\ Lines \in Nat
      /\ pc \in [Appenders -> ReaderPC \cup WorkerPC]
      /\ scanned \in [Streams -> 0..Lines] /\ fetched \in [Streams -> 0..Lines]
      /\ written \in [Streams -> 0..Lines] /\ skipped \in [Streams -> SUBSET (1..Lines)]
  BY Roles, LogAssumption DEF Typed, TypeOK
<1>3. scanned[s] <= fetched[s] /\ fetched[s] <= written[s]
  BY DEF Typed, Ordered
<1>4. /\ skipped[s] \subseteq 1..scanned[s]
      /\ pc[s] \notin Appending => hand[s] = << >>
      /\ pc[s] = "scan" => skipped[s] = {}
      /\ pc[s] = "readAll" => fetched[s] = scanned[s]
  BY DEF InLine
<1>5. SUFFICES /\ skipped'[s] \subseteq 1..scanned'[s]
               /\ pc'[s] \notin Appending => hand'[s] = << >>
               /\ pc'[s] \in {"off", "scan"} => skipped'[s] = {}
               /\ pc'[s] = "readAll" => fetched'[s] = scanned'[s]
  BY <1>1 DEF InLine
<1>6. CASE Fetch(s)
  <2>1. pc[s] = "scan" /\ UNCHANGED <<scanned, skipped, hand, pc>>
    BY <1>6 DEF Fetch
  <2> QED BY <1>4, <2>1
<1>7. CASE Scan(s)
  <2>1. /\ scanned' = [scanned EXCEPT ![s] = scanned[s] + 1] /\ pc[s] = "scan"
        /\ pc' = [pc EXCEPT ![s] = "check"] /\ skipped' = skipped
    BY <1>7 DEF Scan, Goto
  <2> QED BY <1>2, <1>4, <2>1 DEF Appending
<1>8. CASE ScanTooLong(s)
  <2>1. /\ skipped' = [skipped EXCEPT ![s] = scanned[s] + 1 .. fetched[s]]
        /\ scanned' = [scanned EXCEPT ![s] = fetched[s]] /\ pc[s] = "scan"
        /\ pc' = [pc EXCEPT ![s] = "readAll"] /\ UNCHANGED <<hand, fetched>>
    BY <1>8 DEF ScanTooLong, Goto
  <2>2. scanned[s] + 1 .. fetched[s] \subseteq 1..fetched[s]
    BY <1>2
  <2>3. hand[s] = << >>
    BY <1>4, <2>1 DEF Appending
  <2> QED BY <1>2, <2>1, <2>2, <2>3
<1>9. CASE ReadAll(s)
  <2>1. /\ scanned' = [scanned EXCEPT ![s] = written[s]]
        /\ pc' = [pc EXCEPT ![s] = "check"] /\ skipped' = skipped
    BY <1>9 DEF ReadAll, Goto
  <2>2. 1..scanned[s] \subseteq 1..written[s]
    BY <1>2, <1>3
  <2> QED BY <1>2, <1>4, <2>1, <2>2 DEF Appending
<1>10. CASE ReadAllFails(s) \/ ScanEnds(s)
  <2>1. /\ pc[s] \in {"scan", "readAll"} /\ pc' = [pc EXCEPT ![s] = "processed"]
        /\ UNCHANGED <<scanned, skipped, hand>>
    BY <1>10 DEF ReadAllFails, ScanEnds, Goto, pipeVars
  <2> QED BY <1>2, <1>4, <2>1 DEF Appending
<1> QED BY <1>6, <1>7, <1>8, <1>9, <1>10 DEF copyStd

LEMMA InLineCall ==
  ASSUME Typed, InLine, NEW a \in Appenders, AppendLogStream(a) \/ NotifyTimeout(a)
  PROVE  InLine'
<1>1. UNCHANGED <<skipped, scanned, fetched>> /\ pc[a] \in Appending
  BY DEF AppendLogStream, NotifyTimeout, CheckQuota, SendBuf, incrementCounter, Append_,
     pipeVars, Appending
<1>2. \A t \in Appenders \ {a} : pc'[t] = pc[t] /\ hand'[t] = hand[t]
  BY DEF AppendLogStream, NotifyTimeout, CheckQuota, SendBuf, incrementCounter, Append_,
     Goto, Typed, TypeOK
<1>3. CASE Append_(a)
  <2>1. hand'[a] = << >>
        /\ pc'[a] = (CASE a = Worker -> "returned" [] skipped[a] = {} -> "scan"
                       [] OTHER -> "processed")
    BY <1>3 DEF Append_, Goto, Typed, TypeOK
  <2> QED BY <1>1, <1>2, <2>1, Roles DEF InLine
<1>4. CASE ~Append_(a)
  <2>1. pc'[a] \in Appending
    BY <1>4 DEF AppendLogStream, NotifyTimeout, CheckQuota, SendBuf, incrementCounter,
       Goto, Typed, TypeOK, Appending
  <2> QED BY <1>1, <1>2, <2>1, Roles DEF InLine, Appending
<1> QED BY <1>3, <1>4

LEMMA InLineStep == Typed /\ Alone /\ InLine /\ [Next]_vars => InLine'
<1> SUFFICES ASSUME Typed, Alone, InLine, [Next]_vars PROVE InLine'
  OBVIOUS
<1>1. ASSUME UNCHANGED <<skipped, scanned, fetched>>,
             \A s \in Streams : hand'[s] = hand[s],
             \A s \in Streams : pc'[s] = pc[s] \/ (pc[s] = "notify" /\ pc'[s] = "send")
                                \/ (pc[s] = "off" /\ pc'[s] = "scan")
      PROVE  InLine'
  BY <1>1 DEF InLine, Appending
<1>2. CASE UNCHANGED vars
  BY <1>1, <1>2 DEF vars, pipeVars
<1>3. CASE Tick
  <2>1. UNCHANGED <<skipped, scanned, fetched, hand>>
    BY <1>3 DEF Tick, pipeVars
  <2>2. \/ pc' = pc
        \/ \E a \in Appenders : pc[a] = "notify" /\ pc' = [pc EXCEPT ![a] = "send"]
    BY <1>3 DEF Tick, Goto
  <2>3. \A s \in Streams : pc'[s] = pc[s] \/ (pc[s] = "notify" /\ pc'[s] = "send")
    BY <2>2, Roles DEF Typed, TypeOK
  <2> QED BY <1>1, <2>1, <2>3
<1>4. CASE TimeIntervalTick \/ SlowLogsTick \/ LoopCancelled \/ LoopEnds \/ ProcessExits
  <2>1. UNCHANGED <<skipped, scanned, fetched, hand, pc>>
    BY <1>4 DEF TimeIntervalTick, SlowLogsTick, LoopCancelled, LoopEnds, ProcessExits,
       pipeVars
  <2> QED BY <1>1, <2>1
<1>5. CASE StartFails \/ RunCmd \/ \E s \in Streams : GiveUp(s)
  <2>1. UNCHANGED <<skipped, scanned, fetched>>
    BY <1>5 DEF StartFails, RunCmd, WaitReturns, StopLoop, ReaderDone, GiveUp, pipeVars
  <2>2. \A s \in Streams : hand'[s] = hand[s] /\ pc'[s] = pc[s]
    BY <1>5, Roles DEF StartFails, RunCmd, WaitReturns, StopLoop, ReaderDone, GiveUp,
                       Goto, Typed, TypeOK
  <2> QED BY <1>1, <2>1, <2>2
<1>6. CASE Start
  <2>1. UNCHANGED <<skipped, scanned, fetched, hand>>
    BY <1>6 DEF Start, pipeVars
  <2>2. \A s \in Streams : pc[s] = "off" /\ pc'[s] = "scan"
    BY <1>6, Roles DEF Start, Alone
  <2> QED BY <1>1, <2>1, <2>2
<1>7. ASSUME NEW s \in Streams, Write(s) PROVE InLine'
  <2>1. UNCHANGED <<skipped, scanned, fetched, hand, pc>>
    BY <1>7 DEF Write
  <2> QED BY <1>1, <2>1
<1> QED BY <1>2, <1>3, <1>4, <1>5, <1>6, <1>7, InLineReader, InLineCall DEF Next, Ended

--------------------------------------------------------------------------------

Passing == sent \o streamsBuf

LEMMA PassingTyped ==
  ASSUME Typed
  PROVE  /\ Passing \in Seq(Entries)
         /\ \A s \in Streams : <<s, hand[s]>> \in Entries
                              /\ OnTheirWay(s) = Append(Passing, <<s, hand[s]>>)
                              /\ OnTheirWay(s) \in Seq(Entries)
<1>1. Passing \in Seq(Entries)
  BY DEF Typed, TypeOK, Passing
<1>2. \A s \in Streams : <<s, hand[s]>> \in Entries
  BY Roles DEF Typed, TypeOK, Entries
<1> QED BY <1>1, <1>2 DEF Passing, OnTheirWay

\* A flush moves the buffer and keeps the order.
LEMMA FlushKeeps ==
  ASSUME Typed, doSendSteamBuf
  PROVE  Passing' = Passing
<1>1. sent' = sent \o streamsBuf /\ streamsBuf' = << >>
  BY DEF doSendSteamBuf
<1>2. Passing \in Seq(Entries)
  BY PassingTyped
<1> QED BY <1>1, <1>2, ConcatEmpty DEF Passing

\* What a stream's lines in order are made of.
LEMMA OneStream ==
  ASSUME NEW s \in Streams, NEW b \in Seq(Entries), NEW h \in Seq(1..Lines)
  PROVE  /\ LinesOf(Append(b, <<s, h>>), s) = LinesOf(b, s) \cup Range(h)
         /\ Ascending(Append(b, <<s, h>>), s) <=>
              /\ Ascending(b, s) /\ Rising(h)
              /\ \A x \in LinesOf(b, s) : \A y \in Range(h) : x < y
<1>1. PICK e : e = <<s, h>>
  OBVIOUS
<1>2. e \in Entries /\ e[1] = s /\ e[2] = h
  BY <1>1, Roles DEF Entries
<1> QED BY <1>1, <1>2, OneMore

\* An empty hand adds nothing, and the same hand the same.
LEMMA SameStream ==
  ASSUME NEW s \in Streams, NEW b \in Seq(Entries), NEW c \in Seq(Entries),
         NEW h \in Seq(1..Lines),
         LinesOf(b, s) = LinesOf(c, s), Ascending(b, s) <=> Ascending(c, s)
  PROVE  /\ LinesOf(Append(b, <<s, << >> >>), s) = LinesOf(b, s)
         /\ Ascending(Append(b, <<s, << >> >>), s) <=> Ascending(b, s)
         /\ LinesOf(Append(b, <<s, h>>), s) = LinesOf(Append(c, <<s, h>>), s)
         /\ Ascending(Append(b, <<s, h>>), s) <=> Ascending(Append(c, <<s, h>>), s)
<1>1. << >> \in Seq(1..Lines) /\ Range(<< >>) = {} /\ Rising(<< >>)
  BY DEF Range, Rising
<1>2. LinesOf(Append(b, <<s, << >> >>), s) = LinesOf(b, s)
  <2>1. LinesOf(Append(b, <<s, << >> >>), s) = LinesOf(b, s) \cup Range(<< >>)
    BY <1>1, OneStream
  <2> QED BY <1>1, <2>1
<1>3. Ascending(Append(b, <<s, << >> >>), s) <=> Ascending(b, s)
  <2>1. PICK g \in Seq(1..Lines) : g = << >> /\ Range(g) = {} /\ Rising(g)
    BY <1>1
  <2>2. Ascending(Append(b, <<s, g>>), s) <=>
          /\ Ascending(b, s) /\ Rising(g)
          /\ \A x \in LinesOf(b, s) : \A y \in Range(g) : x < y
    BY OneStream
  <2> QED BY <2>1, <2>2
<1>4. LinesOf(Append(b, <<s, h>>), s) = LinesOf(Append(c, <<s, h>>), s)
  <2>1. LinesOf(Append(b, <<s, h>>), s) = LinesOf(b, s) \cup Range(h)
    BY OneStream
  <2>2. LinesOf(Append(c, <<s, h>>), s) = LinesOf(c, s) \cup Range(h)
    BY OneStream
  <2> QED BY <2>1, <2>2
<1>5. Ascending(Append(b, <<s, h>>), s) <=> Ascending(Append(c, <<s, h>>), s)
  <2> DEFINE Fits(L) == \A x \in L : \A y \in Range(h) : x < y
  <2>1. Ascending(Append(b, <<s, h>>), s) <=>
          Ascending(b, s) /\ Rising(h) /\ Fits(LinesOf(b, s))
    BY OneStream
  <2>2. Ascending(Append(c, <<s, h>>), s) <=>
          Ascending(c, s) /\ Rising(h) /\ Fits(LinesOf(c, s))
    BY OneStream
  <2> HIDE DEF Fits
  <2> QED BY <2>1, <2>2
<1> QED BY <1>2, <1>3, <1>4, <1>5

\* One stream in order.
InOrderOf(s) ==
  /\ LinesOf(OnTheirWay(s), s) = (1..scanned[s]) \ skipped[s]
  /\ Ascending(OnTheirWay(s), s)

\* It is a statement about the sequence after the step.
LEMMA InOrderThen ==
  ASSUME NEW s \in Streams, NEW b, b = OnTheirWay(s)',
         LinesOf(b, s) = (1..scanned'[s]) \ skipped'[s], Ascending(b, s)
  PROVE  InOrderOf(s)'
BY DEF InOrderOf, LinesOf, Ascending, Carrying

LEMMA OrderKept ==
  ASSUME NEW s \in Streams, InOrderOf(s), Passing' = Passing, hand'[s] = hand[s],
         scanned'[s] = scanned[s], skipped'[s] = skipped[s]
  PROVE  InOrderOf(s)'
<1>1. OnTheirWay(s)' = OnTheirWay(s)
  BY DEF OnTheirWay, Passing
<1>2. /\ LinesOf(OnTheirWay(s), s)' = LinesOf(OnTheirWay(s), s)
      /\ Ascending(OnTheirWay(s), s)' = Ascending(OnTheirWay(s), s)
  BY <1>1 DEF LinesOf, Ascending, Carrying
<1> QED BY <1>2 DEF InOrderOf
\* What a caller appends passes from its hand; the other hands stay.
LEMMA OrderAppend ==
  ASSUME Typed, NEW s \in Streams, InOrderOf(s), NEW a \in Appenders, Append_(a)
  PROVE  InOrderOf(s)'
<1>1. /\ Passing \in Seq(Entries) /\ hand[s] \in Seq(1..Lines)
      /\ hand[a] \in Seq(1..Lines) /\ <<a, hand[a]>> \in Entries
      /\ hand \in [Appenders -> Seq(1..Lines)]
  BY PassingTyped, Roles DEF Typed, TypeOK, Entries
<1>2. Passing' = Append(Passing, <<a, hand[a]>>)
  <2>1. streamsBuf' = Append(streamsBuf, <<a, hand[a]>>) /\ sent' = sent
    BY DEF Append_
  <2>2. streamsBuf \in Seq(Entries) /\ sent \in Seq(Entries)
    BY DEF Typed, TypeOK
  <2> QED BY <1>1, <2>1, <2>2, ConcatAppend DEF Passing
<1>3. Passing' \in Seq(Entries)
  BY <1>1, <1>2
<1>4. hand' = [hand EXCEPT ![a] = << >>] /\ scanned' = scanned /\ skipped' = skipped
  BY DEF Append_, pipeVars
<1>5. CASE a = s
  <2>1. hand'[s] = << >>
    BY <1>1, <1>4, <1>5
  <2>2. PICK p \in Seq(Entries) : p = Passing'
    BY <1>3
  <2>3. p = OnTheirWay(s)
    BY <1>2, <1>5, <2>2 DEF OnTheirWay, Passing
  <2>4. PICK b : b = OnTheirWay(s)'
    OBVIOUS
  <2>5. b = Append(p, <<s, << >> >>)
    BY <2>1, <2>2, <2>4 DEF OnTheirWay, Passing
  <2>6. LinesOf(b, s) = LinesOf(p, s) /\ (Ascending(b, s) <=> Ascending(p, s))
    BY <1>1, <2>5, SameStream
  <2>7. LinesOf(b, s) = (1..scanned'[s]) \ skipped'[s] /\ Ascending(b, s)
    BY <1>4, <2>3, <2>6 DEF InOrderOf
  <2> QED BY <2>4, <2>7, InOrderThen
<1>6. CASE a # s
  <2>1. hand'[s] = hand[s]
    BY <1>1, <1>4, <1>6, Roles
  <2>2. PICK p \in Seq(Entries), q \in Seq(Entries), h \in Seq(1..Lines) :
          p = Passing' /\ q = Passing /\ h = hand[s]
    BY <1>1, <1>3
  <2>3. LinesOf(p, s) = LinesOf(q, s) /\ (Ascending(p, s) <=> Ascending(q, s))
    <3>1. PICK e \in Entries : e = <<a, hand[a]>>
      BY <1>1
    <3>2. e[1] # s /\ p = Append(q, e)
      BY <1>2, <1>6, <2>2, <3>1
    <3> QED BY <3>2, OneMore
  <2>4. PICK b : b = OnTheirWay(s)'
    OBVIOUS
  <2>5. OnTheirWay(s) = Append(q, <<s, h>>) /\ b = Append(p, <<s, h>>)
    BY <2>1, <2>2, <2>4 DEF OnTheirWay, Passing
  <2>6. LinesOf(b, s) = LinesOf(OnTheirWay(s), s)
        /\ (Ascending(b, s) <=> Ascending(OnTheirWay(s), s))
    <3>1. PICK c : c = Append(q, <<s, h>>)
      OBVIOUS
    <3>2. LinesOf(b, s) = LinesOf(c, s)
      BY <2>3, <2>5, <3>1, SameStream
    <3>3. Ascending(b, s) <=> Ascending(c, s)
      BY <2>3, <2>5, <3>1, SameStream
    <3> QED BY <2>5, <3>1, <3>2, <3>3
  <2>7. LinesOf(b, s) = (1..scanned'[s]) \ skipped'[s] /\ Ascending(b, s)
    BY <1>4, <2>6 DEF InOrderOf
  <2> QED BY <2>4, <2>7, InOrderThen
<1> QED BY <1>5, <1>6
LEMMA LinesFromTo ==
  ASSUME NEW n \in Nat, NEW m \in Nat, n <= m
  PROVE  Rising(LinesFrom(n, m)) /\ Range(LinesFrom(n, m)) = n + 1 .. m
<1>1. /\ DOMAIN LinesFrom(n, m) = 1..m - n
      /\ \A i \in 1..m - n : LinesFrom(n, m)[i] = n + i
  BY DEF LinesFrom
<1>2. Rising(LinesFrom(n, m))
  BY <1>1 DEF Rising
<1>3. Range(LinesFrom(n, m)) \subseteq n + 1 .. m
  BY <1>1 DEF Range
<1>4. ASSUME NEW x \in n + 1 .. m PROVE x \in Range(LinesFrom(n, m))
  <2>1. x - n \in 1..m - n /\ n + (x - n) = x
    OBVIOUS
  <2> QED BY <1>1, <2>1 DEF Range
<1> QED BY <1>2, <1>3, <1>4

\* The reader takes lines that come after all it has taken before.
LEMMA OrderTaken ==
  ASSUME Typed, NEW s \in Streams, InOrderOf(s), Range(hand[s]) = {},
         Passing' = Passing,
         NEW h \in Seq(1..Lines), hand'[s] = h, Rising(h),
         NEW L \in SUBSET Int, Range(h) = L,
         \A x \in (1..scanned[s]) \ skipped[s] : \A y \in L : x < y,
         (1..scanned'[s]) \ skipped'[s] = ((1..scanned[s]) \ skipped[s]) \cup L
  PROVE  InOrderOf(s)'
<1>1. Passing \in Seq(Entries) /\ hand[s] \in Seq(1..Lines)
      /\ OnTheirWay(s) = Append(Passing, <<s, hand[s]>>)
  BY PassingTyped, Roles DEF Typed, TypeOK
<1>2. LinesOf(Passing, s) = (1..scanned[s]) \ skipped[s] /\ Ascending(Passing, s)
  BY <1>1, OneStream DEF InOrderOf
<1>3. PICK b : b = OnTheirWay(s)'
  OBVIOUS
<1>4. b = Append(Passing, <<s, h>>)
  BY <1>3 DEF OnTheirWay, Passing
<1>5. LinesOf(b, s) = LinesOf(Passing, s) \cup L /\ Ascending(b, s)
  BY <1>1, <1>2, <1>4, OneStream
<1>6. LinesOf(b, s) = (1..scanned'[s]) \ skipped'[s]
  BY <1>2, <1>5
<1> QED BY <1>3, <1>5, <1>6, InOrderThen

LEMMA OrderReader ==
  ASSUME Typed, InLine, NEW s \in Streams, InOrderOf(s), copyStd(s)
  PROVE  InOrderOf(s)'
<1>1. s \in Appenders /\ hand \in [Appenders -> Seq(1..Lines)] /\ Lines \in Nat
      /\ scanned \in [Streams -> 0..Lines] /\ fetched \in [Streams -> 0..Lines]
      /\ written \in [Streams -> 0..Lines] /\ skipped \in [Streams -> SUBSET (1..Lines)]
  BY Roles, LogAssumption DEF Typed, TypeOK
<1>2. scanned[s] <= fetched[s] /\ fetched[s] <= written[s]
  BY DEF Typed, Ordered
<1>3. /\ skipped[s] \subseteq 1..scanned[s]
      /\ pc[s] \notin Appending => hand[s] = << >>
      /\ pc[s] = "scan" => skipped[s] = {}
      /\ pc[s] = "readAll" => fetched[s] = scanned[s]
  BY DEF InLine
<1>4. Passing' = Passing
  BY DEF copyStd, Fetch, Scan, ScanTooLong, ReadAll, ReadAllFails, ScanEnds, bufVars,
    Passing
<1>5. pc[s] \in {"scan", "readAll"}
  BY DEF copyStd, Fetch, Scan, ScanTooLong, ReadAll, ReadAllFails, ScanEnds
<1>6. hand[s] = << >> /\ Range(hand[s]) = {}
  <2>1. hand[s] = << >>
    BY <1>3, <1>5 DEF Appending
  <2> QED BY <2>1 DEF Range
<1>7. CASE Fetch(s) \/ ReadAllFails(s) \/ ScanEnds(s)
  <2>1. UNCHANGED <<hand, scanned, skipped>>
    BY <1>7 DEF Fetch, ReadAllFails, ScanEnds, pipeVars
  <2> QED BY <1>4, <2>1, OrderKept
<1>8. CASE Scan(s)
  <2>1. /\ scanned' = [scanned EXCEPT ![s] = scanned[s] + 1] /\ pc[s] = "scan"
        /\ hand' = [hand EXCEPT ![s] = <<scanned'[s]>>] /\ skipped' = skipped
        /\ scanned[s] < fetched[s]
    BY <1>8 DEF Scan
  <2>2. PICK n : n = scanned[s]
    OBVIOUS
  <2>3. n \in Nat /\ n + 1 \in 1..Lines /\ scanned'[s] = n + 1
    BY <1>1, <2>1, <2>2
  <2>4. hand'[s] = <<n + 1>> /\ <<n + 1>> \in Seq(1..Lines)
    BY <1>1, <2>1, <2>3
  <2>5. PICK h \in Seq(1..Lines) : h = <<n + 1>>
    BY <2>4
  <2>8. Rising(h) /\ Range(h) = {n + 1}
    BY <2>5 DEF Rising, Range
  <2>6. {n + 1} \in SUBSET Int
    BY <2>3
  <2>7. (1..scanned'[s]) \ skipped'[s] = ((1..scanned[s]) \ skipped[s]) \cup {n + 1}
    BY <1>3, <2>1, <2>2, <2>3
  <2>9. \A x \in (1..scanned[s]) \ skipped[s] : \A y \in {n + 1} : x < y
    BY <2>2, <2>3
  <2> QED BY <1>4, <1>6, <2>4, <2>5, <2>6, <2>7, <2>8, <2>9, OrderTaken
<1>9. CASE ScanTooLong(s)
  <2>1. /\ skipped' = [skipped EXCEPT ![s] = scanned[s] + 1 .. fetched[s]]
        /\ scanned' = [scanned EXCEPT ![s] = fetched[s]]
        /\ pc[s] = "scan" /\ hand' = hand
    BY <1>9 DEF ScanTooLong
  <2>2. scanned'[s] = fetched[s] /\ skipped'[s] = scanned[s] + 1 .. fetched[s]
    BY <1>1, <2>1
  <2>3. (1..fetched[s]) \ (scanned[s] + 1 .. fetched[s]) = 1..scanned[s]
    BY <1>1, <1>2
  <2>4. (1..scanned'[s]) \ skipped'[s] = ((1..scanned[s]) \ skipped[s]) \cup {}
    BY <1>3, <2>1, <2>2, <2>3
  <2>5. << >> \in Seq(1..Lines) /\ Rising(<< >>) /\ Range(<< >>) = {}
    BY DEF Rising, Range
  <2> QED BY <1>4, <1>6, <2>1, <2>4, <2>5, OrderTaken
<1>10. CASE ReadAll(s)
  <2>1. /\ hand' = [hand EXCEPT ![s] = LinesFrom(fetched[s], written[s])]
        /\ scanned' = [scanned EXCEPT ![s] = written[s]] /\ skipped' = skipped
        /\ pc[s] = "readAll"
    BY <1>10 DEF ReadAll
  <2>2. PICK n, m : n = scanned[s] /\ m = written[s]
    OBVIOUS
  <2>3. n \in 0..Lines /\ m \in 0..Lines /\ n <= m /\ n \in Nat /\ m \in Nat
        /\ fetched[s] = n
    BY <1>1, <1>2, <1>3, <2>1, <2>2
  <2>4. hand'[s] = LinesFrom(n, m) /\ scanned'[s] = m
    BY <1>1, <2>1, <2>2, <2>3
  <2>5. LinesFrom(n, m) \in Seq(1..Lines)
    BY <2>3, LinesTyped
  <2>6. Rising(LinesFrom(n, m)) /\ Range(LinesFrom(n, m)) = n + 1 .. m
    BY <2>3, LinesFromTo
  <2>7. (1..m) \ skipped'[s] = ((1..n) \ skipped[s]) \cup (n + 1 .. m)
    BY <1>3, <2>1, <2>2, <2>3
  <2>8. \A x \in (1..n) \ skipped[s] : \A y \in n + 1 .. m : x < y
    BY <2>3
  <2>9. n + 1 .. m \in SUBSET Int
    BY <2>3
  <2> QED BY <1>4, <1>6, <2>2, <2>4, <2>5, <2>6, <2>7, <2>8, <2>9, OrderTaken
<1> QED BY <1>7, <1>8, <1>9, <1>10 DEF copyStd

LEMMA OrderStep == Typed /\ InLine /\ InOrder /\ [Next]_vars => InOrder'
<1> SUFFICES ASSUME Typed, InLine, InOrder, [Next]_vars, NEW s \in Streams
             PROVE  InOrderOf(s)'
  <2>1. InOrder' <=> \A t \in Streams : InOrderOf(t)'
    BY DEF InOrder, InOrderOf
  <2> QED BY <2>1
<1>1. InOrderOf(s) /\ s \in Appenders /\ hand \in [Appenders -> Seq(1..Lines)]
      /\ scanned \in [Streams -> 0..Lines] /\ skipped \in [Streams -> SUBSET (1..Lines)]
  BY Roles DEF InOrder, InOrderOf, Typed, TypeOK
<1>2. ASSUME UNCHANGED <<scanned, skipped>>, hand'[s] = hand[s],
             UNCHANGED <<sent, streamsBuf>> \/ doSendSteamBuf
      PROVE  InOrderOf(s)'
  <2>1. Passing' = Passing
    BY <1>2, FlushKeeps DEF Passing
  <2> QED BY <1>1, <1>2, <2>1, OrderKept
<1>3. CASE UNCHANGED vars
  BY <1>2, <1>3 DEF vars, pipeVars, bufVars
<1>4. ASSUME NEW a \in Appenders, AppendLogStream(a) \/ NotifyTimeout(a)
      PROVE  InOrderOf(s)'
  <2>1. CASE Append_(a)
    BY <1>1, <2>1, OrderAppend
  <2>2. CASE CheckQuota(a) \/ NotifyTimeout(a) \/ incrementCounter(a) \/ SendBuf(a)
    <3>1. UNCHANGED <<scanned, skipped, hand>>
      BY <2>2 DEF CheckQuota, NotifyTimeout, incrementCounter, SendBuf, pipeVars
    <3>2. UNCHANGED <<sent, streamsBuf>> \/ doSendSteamBuf
      BY <2>2 DEF CheckQuota, NotifyTimeout, incrementCounter, SendBuf, bufVars
    <3> QED BY <1>2, <3>1, <3>2
  <2> QED BY <1>4, <2>1, <2>2 DEF AppendLogStream
<1>5. ASSUME NEW t \in Streams, copyStd(t) PROVE InOrderOf(s)'
  <2>1. CASE t = s
    BY <1>1, <1>5, <2>1, OrderReader
  <2>2. CASE t # s
    <3>1. hand'[s] = hand[s] /\ scanned'[s] = scanned[s] /\ skipped'[s] = skipped[s]
      BY <1>1, <1>5, <2>2 DEF copyStd, Fetch, Scan, ScanTooLong, ReadAll, ReadAllFails,
         ScanEnds, pipeVars
    <3>2. Passing' = Passing
      BY <1>5 DEF copyStd, Fetch, Scan, ScanTooLong, ReadAll, ReadAllFails, ScanEnds,
                  bufVars, Passing
    <3> QED BY <1>1, <3>1, <3>2, OrderKept
  <2> QED BY <2>1, <2>2
<1>6. CASE Tick \/ TimeIntervalTick \/ SlowLogsTick \/ LoopCancelled \/ LoopEnds
           \/ ProcessExits
  <2>1. UNCHANGED <<scanned, skipped, hand>>
    BY <1>6 DEF Tick, TimeIntervalTick, SlowLogsTick, LoopCancelled, LoopEnds,
       ProcessExits, pipeVars
  <2>2. UNCHANGED <<sent, streamsBuf>> \/ doSendSteamBuf
    BY <1>6 DEF Tick, TimeIntervalTick, SlowLogsTick, LoopCancelled, LoopEnds,
       ProcessExits, bufVars
  <2> QED BY <1>2, <2>1, <2>2
<1>7. CASE StartFails \/ Start \/ RunCmd \/ \E t \in Streams : GiveUp(t) \/ Write(t)
  <2>1. UNCHANGED <<scanned, skipped, sent, streamsBuf>>
    BY <1>7 DEF StartFails, Start, RunCmd, WaitReturns, StopLoop, ReaderDone, GiveUp,
       Write, pipeVars, bufVars
  <2>2. hand'[s] = hand[s]
    BY <1>1, <1>7, Roles DEF StartFails, Start, RunCmd, WaitReturns, StopLoop,
                             ReaderDone, GiveUp, Write
  <2> QED BY <1>2, <2>1, <2>2
<1> QED BY <1>3, <1>4, <1>5, <1>6, <1>7 DEF Next, Ended

LEMMA OrderInit == Init => InLine /\ InOrder
<1> SUFFICES ASSUME Init PROVE InLine /\ InOrder
  OBVIOUS
<1>1. InLine
  BY Roles DEF Init, InLine, Appending
<1>2. ASSUME NEW s \in Streams PROVE InOrderOf(s)
  <2>1. scanned[s] = 0 /\ skipped[s] = {} /\ hand[s] = << >> /\ Passing = << >>
    BY Roles, ConcatEmpty DEF Init, Passing
  <2>2. OnTheirWay(s) = << <<s, << >> >> >>
    BY <2>1 DEF OnTheirWay, Passing
  <2>3. LinesOf(OnTheirWay(s), s) = {} /\ Ascending(OnTheirWay(s), s)
    BY <2>2 DEF LinesOf, Ascending, Carrying, Range
  <2> QED BY <2>1, <2>3 DEF InOrderOf
<1> QED BY <1>1, <1>2 DEF InOrder, InOrderOf

\* Whoever flushes the buffer and whenever the quota is hit, each line that was read is
\* handed to DoApiCall once and in the order of its stream (job.go:371-388, 457-499,
\* 604-622).
THEOREM LinesInOrder == Spec => []InOrder
<1>1. Init => Alone
  BY Roles DEF Init, Alone
<1> QED BY <1>1, TypedInit, TypedStep, AloneStep, OrderInit, InLineStep, OrderStep, PTL
        DEF Spec
================================================================================
