------------------------------- MODULE LogStream -------------------------------
(***************************************************************************)
(* The output of one job on its way to the API (model/job.go:365-500 and   *)
(* runcmd): the two goroutines copyStd, which read stdout and stderr line  *)
(* by line and append to streamsBuf, resetCounterLoop, which lets them go  *)
(* on when the buffer is over its quota and flushes it, and the worker,    *)
(* which waits for the process, then for the readers, then stops the loop. *)
(*                                                                         *)
(* A line is its number.  What one call of AppendLogStream hands over is   *)
(* its caller and a sequence of lines: a single one, or, after a line too  *)
(* long for the scanner, all that ReadAll has read.  A section of          *)
(* streamsMu is one step.  A tick may come at any moment, and so may the   *)
(* timeouts of 5 minutes (the worker) and 10 minutes (a reader).           *)
(***************************************************************************)
EXTENDS Integers, Sequences, Functions

CONSTANTS Stdout, Stderr, Worker,
          Lines,      \* bound: lines a stream may carry
          elements    \* Job.elements, 100 in NewJob

Streams == {Stdout, Stderr}
Appenders == Streams \cup {Worker}   \* who calls AppendLogStream

ASSUME LogAssumption ==
  /\ Stdout # Stderr /\ Worker \notin Streams
  /\ Lines \in Nat \ {0} /\ elements \in Nat \ {0}

VARIABLES
  written,     \* lines each stream's writers have written
  fetched,     \* of them, those that its reader's bufio buffers hold or held
  scanned,     \* of them, those that the reader is through with
  skipped,     \* of those, the ones in the buffers when Scan met too long a line
  exited,      \* the main process has ended
  hand,        \* the lines in an AppendLogStream call
  streamsBuf,
  counter, timeQuote,
  sent,        \* lines given to DoApiCall, in order
  gaveUp,      \* the worker stopped waiting for a reader
  pc,          \* where each caller of AppendLogStream is
  loop         \* where resetCounterLoop is

pipeVars == <<written, fetched, scanned, skipped, exited>>
bufVars  == <<streamsBuf, counter, timeQuote, sent>>
vars == <<pipeVars, bufVars, hand, gaveUp, pc, loop>>

Appending == {"check", "notify", "send", "count", "append"}
ReaderPC == {"off", "scan", "readAll", "processed"} \cup Appending
WorkerPC == {"start", "wait", "awaitStdout", "awaitStderr", "stopLogs", "returned"}
              \cup Appending

Init ==
  /\ written = [s \in Streams |-> 0]
  /\ fetched = written /\ scanned = written
  /\ skipped = [s \in Streams |-> {}]
  /\ exited = FALSE
  /\ hand = [a \in Appenders |-> << >>]
  /\ streamsBuf = <<>> /\ sent = <<>>
  /\ counter = 0 /\ timeQuote = FALSE
  /\ gaveUp = FALSE
  /\ pc = [a \in Appenders |-> IF a = Worker THEN "start" ELSE "off"]
  /\ loop = "select"

--------------------------------------------------------------------------------
(* Helpers *)

Goto(a, l) == pc' = [pc EXCEPT ![a] = l]

\* Fault: the length of the buffer is not looked at.
quotaHit_NoLength == counter >= elements \/ timeQuote

\* streamsBuf holds what a call hands over and a newline as two strings.
quotaHit == counter >= elements \/ 2 * Len(streamsBuf) > elements \/ timeQuote

\* Fault: the buffer is emptied before it is read.
doSendSteamBuf_ClearsFirst ==
  /\ streamsBuf' = <<>>
  /\ sent' = sent \o streamsBuf'

\* Whatever the API answers, the buffer is empty afterwards.
doSendSteamBuf ==
  /\ sent' = sent \o streamsBuf
  /\ streamsBuf' = <<>>

--------------------------------------------------------------------------------
(* AppendLogStream, by a reader or, when the command cannot start, the worker *)

CheckQuota(a) ==
  /\ pc[a] = "check"
  /\ Goto(a, IF quotaHit THEN "notify" ELSE "count")
  /\ UNCHANGED <<pipeVars, bufVars, hand, gaveUp, loop>>

NotifyTimeout(a) ==
  /\ pc[a] = "notify"
  /\ Goto(a, "send")
  /\ UNCHANGED <<pipeVars, bufVars, hand, gaveUp, loop>>

SendBuf(a) ==
  /\ pc[a] = "send"
  /\ doSendSteamBuf
  /\ Goto(a, "count")
  /\ UNCHANGED <<pipeVars, counter, timeQuote, hand, gaveUp, loop>>

incrementCounter(a) ==
  /\ pc[a] = "count"
  /\ counter' = counter + 1
  /\ Goto(a, "append")
  /\ UNCHANGED <<pipeVars, streamsBuf, timeQuote, sent, hand, gaveUp, loop>>

Append_(a) ==
  /\ pc[a] = "append"
  /\ streamsBuf' = Append(streamsBuf, <<a, hand[a]>>)
  /\ hand' = [hand EXCEPT ![a] = << >>]
  /\ Goto(a, CASE a = Worker        -> "returned"
               [] skipped[a] = {}   -> "scan"
               [] OTHER             -> "processed")
  /\ UNCHANGED <<pipeVars, counter, timeQuote, sent, gaveUp, loop>>

AppendLogStream(a) == CheckQuota(a) \/ SendBuf(a) \/ incrementCounter(a) \/ Append_(a)

--------------------------------------------------------------------------------
(* copyStd *)

Open == pc[Worker] = "wait"     \* cmd.Wait has not closed the read ends

\* Fault: the reader takes more than was written.
Fetch_OneMore(s) ==
  /\ pc[s] = "scan" /\ Open
  /\ fetched[s] = scanned[s] /\ fetched[s] < written[s]
  /\ fetched' = [fetched EXCEPT ![s] = written[s] + 1]
  /\ UNCHANGED <<written, scanned, skipped, exited, bufVars, hand, gaveUp, pc, loop>>

\* bufio reads what is there, at least a line, when it has nothing left.
Fetch(s) ==
  /\ pc[s] = "scan" /\ Open
  /\ fetched[s] = scanned[s]
  /\ \E n \in fetched[s] + 1 .. written[s] : fetched' = [fetched EXCEPT ![s] = n]
  /\ UNCHANGED <<written, scanned, skipped, exited, bufVars, hand, gaveUp, pc, loop>>

Scan(s) ==
  /\ pc[s] = "scan"
  /\ scanned[s] < fetched[s]
  /\ scanned' = [scanned EXCEPT ![s] = @ + 1]
  /\ hand' = [hand EXCEPT ![s] = <<scanned'[s]>>]
  /\ Goto(s, "check")
  /\ UNCHANGED <<written, fetched, skipped, exited, bufVars, gaveUp, loop>>

\* The next line does not fit into the scanner's buffer: Scan gives up, with that line
\* and what else was fetched.
ScanTooLong(s) ==
  /\ pc[s] = "scan"
  /\ scanned[s] < fetched[s]
  /\ skipped' = [skipped EXCEPT ![s] = scanned[s] + 1 .. fetched[s]]
  /\ scanned' = [scanned EXCEPT ![s] = fetched[s]]
  /\ Goto(s, "readAll")
  /\ UNCHANGED <<written, fetched, exited, bufVars, hand, gaveUp, loop>>

\* The lines after n up to m.
LinesFrom(n, m) == [i \in 1..m - n |-> n + i]

\* It reads the pipe itself up to the end of file, into one string.  That string may
\* begin with the tail of a line of which the buffers have the rest, not counted here.
ReadAll(s) ==
  /\ pc[s] = "readAll" /\ Open /\ exited
  /\ hand' = [hand EXCEPT ![s] = LinesFrom(fetched[s], written[s])]
  /\ fetched' = [fetched EXCEPT ![s] = written[s]]
  /\ scanned' = [scanned EXCEPT ![s] = written[s]]
  /\ Goto(s, "check")
  /\ UNCHANGED <<written, skipped, exited, bufVars, gaveUp, loop>>

\* The pipe is closed under it: what it has read so far is dropped.
ReadAllFails(s) ==
  /\ pc[s] = "readAll" /\ ~Open
  /\ Goto(s, "processed")
  /\ UNCHANGED <<pipeVars, bufVars, hand, gaveUp, loop>>

\* End of file, or the error of a read from a closed pipe.
ScanEnds(s) ==
  /\ pc[s] = "scan"
  /\ scanned[s] = fetched[s]
  /\ ~Open \/ (exited /\ fetched[s] = written[s])
  /\ Goto(s, "processed")
  /\ UNCHANGED <<pipeVars, bufVars, hand, gaveUp, loop>>

copyStd(s) ==
  \/ Fetch(s) \/ Scan(s) \/ ScanTooLong(s) \/ ScanEnds(s)
  \/ ReadAll(s) \/ ReadAllFails(s)

--------------------------------------------------------------------------------
(* resetCounterLoop *)

\* Fault: a reader is notified only for the count, which each tick resets.
Tick_CountOnly ==
  /\ loop = "select"
  /\ counter' = 0
  /\ IF counter >= elements
     THEN /\ timeQuote' = FALSE
          /\ IF \E a \in Appenders : pc[a] = "notify"
             THEN \E a \in Appenders : pc[a] = "notify" /\ Goto(a, "send")
             ELSE UNCHANGED pc
     ELSE UNCHANGED <<timeQuote, pc>>
  /\ UNCHANGED <<pipeVars, streamsBuf, sent, hand, gaveUp, loop>>

\* doNotify reaches one reader, if one is waiting.
Tick ==
  /\ loop = "select"
  /\ counter' = 0
  /\ IF quotaHit
     THEN /\ timeQuote' = FALSE
          /\ IF \E a \in Appenders : pc[a] = "notify"
             THEN \E a \in Appenders : pc[a] = "notify" /\ Goto(a, "send")
             ELSE UNCHANGED pc
     ELSE UNCHANGED <<timeQuote, pc>>
  /\ UNCHANGED <<pipeVars, streamsBuf, sent, hand, gaveUp, loop>>

TimeIntervalTick ==
  /\ loop = "select"
  /\ timeQuote' = TRUE
  /\ UNCHANGED <<pipeVars, streamsBuf, counter, sent, hand, gaveUp, pc, loop>>

SlowLogsTick ==
  /\ loop = "select"
  /\ doSendSteamBuf
  /\ UNCHANGED <<pipeVars, counter, timeQuote, hand, gaveUp, pc, loop>>

\* resetCtx is cancelled by runcmd's return; only a command that did not start
\* reaches it with the loop in its select.
LoopCancelled ==
  /\ loop = "select" /\ pc[Worker] = "returned"
  /\ loop' = "flush"
  /\ UNCHANGED <<pipeVars, bufVars, hand, gaveUp, pc>>

\* Fault: the loop returns without a last flush.
LoopEnds_NoFlush ==
  /\ loop = "flush"
  /\ loop' = "stopped"
  /\ UNCHANGED <<pipeVars, bufVars, hand, gaveUp, pc>>

LoopEnds ==
  /\ loop = "flush"
  /\ doSendSteamBuf
  /\ loop' = "stopped"
  /\ UNCHANGED <<pipeVars, counter, timeQuote, hand, gaveUp, pc>>

--------------------------------------------------------------------------------
(* runcmd *)

\* A pipe or cmd.Start fails: the worker logs its message and returns.
StartFails ==
  /\ pc[Worker] = "start"
  /\ hand' = [hand EXCEPT ![Worker] = <<1>>]
  /\ Goto(Worker, "check")
  /\ UNCHANGED <<pipeVars, bufVars, gaveUp, loop>>

Start ==
  /\ pc[Worker] = "start"
  /\ pc' = [a \in Appenders |-> IF a = Worker THEN "wait" ELSE "scan"]
  /\ UNCHANGED <<pipeVars, bufVars, hand, gaveUp, loop>>

\* cmd.Wait returns after the main process has ended and closes the pipes.
WaitReturns ==
  /\ pc[Worker] = "wait" /\ exited
  /\ Goto(Worker, "awaitStdout")
  /\ UNCHANGED <<pipeVars, bufVars, hand, gaveUp, loop>>

\* The two waits for the readers, in this order.
AfterWait(s) == IF s = Stdout THEN "awaitStderr" ELSE "stopLogs"
Awaits(s) == pc[Worker] = IF s = Stdout THEN "awaitStdout" ELSE "awaitStderr"

ReaderDone(s) ==
  /\ Awaits(s) /\ pc[s] = "processed"
  /\ Goto(Worker, AfterWait(s))
  /\ UNCHANGED <<pipeVars, bufVars, hand, gaveUp, loop>>

GiveUp(s) ==
  /\ Awaits(s)
  /\ gaveUp' = TRUE
  /\ Goto(Worker, AfterWait(s))
  /\ UNCHANGED <<pipeVars, bufVars, hand, loop>>

\* notifyStopStreams has no buffer: the worker and the loop meet.
StopLoop ==
  /\ pc[Worker] = "stopLogs" /\ loop = "select"
  /\ Goto(Worker, "returned")
  /\ loop' = "flush"
  /\ UNCHANGED <<pipeVars, bufVars, hand, gaveUp>>

--------------------------------------------------------------------------------
(* The command and its descendants, which may hold the pipes longer *)

Write(s) ==
  /\ Open /\ written[s] < Lines
  /\ pc[s] # "processed" /\ (skipped[s] # {} => pc[s] = "readAll")
  /\ written' = [written EXCEPT ![s] = @ + 1]
  /\ UNCHANGED <<fetched, scanned, skipped, exited, bufVars, hand, gaveUp, pc, loop>>

ProcessExits ==
  /\ pc[Worker] = "wait" /\ ~exited
  /\ exited' = TRUE
  /\ UNCHANGED <<written, fetched, scanned, skipped, bufVars, hand, gaveUp, pc, loop>>

--------------------------------------------------------------------------------

\* Nothing is left to do.
Ended ==
  /\ pc[Worker] = "returned" /\ loop = "stopped"
  /\ \A s \in Streams : pc[s] \in {"off", "processed"}
  /\ UNCHANGED vars

RunCmd == WaitReturns \/ StopLoop \/ \E s \in Streams : ReaderDone(s)

Next ==
  \/ StartFails \/ Start \/ RunCmd
  \/ \E s \in Streams : copyStd(s) \/ GiveUp(s) \/ Write(s)
  \/ \E a \in Appenders : AppendLogStream(a) \/ NotifyTimeout(a)
  \/ Tick \/ TimeIntervalTick \/ SlowLogsTick \/ LoopCancelled \/ LoopEnds
  \/ ProcessExits
  \/ Ended

Spec == Init /\ [][Next]_vars

(***************************************************************************)
(* Goroutines run and tickers tick.  None of the timeouts of 5 and 10      *)
(* minutes has to come, and nothing makes the command write or end.        *)
(***************************************************************************)
Fairness ==
  /\ WF_vars(RunCmd)
  /\ \A a \in Appenders : WF_vars(AppendLogStream(a))
  /\ \A s \in Streams : WF_vars(copyStd(s))
  /\ WF_vars(Tick) /\ WF_vars(TimeIntervalTick)
  /\ WF_vars(LoopCancelled) /\ WF_vars(LoopEnds)

FairSpec == Spec /\ Fairness

--------------------------------------------------------------------------------
(* Properties *)

Entries == Appenders \X Seq(1..Lines)

TypeOK ==
  /\ written \in [Streams -> 0..Lines]
  /\ fetched \in [Streams -> 0..Lines] /\ scanned \in [Streams -> 0..Lines]
  /\ skipped \in [Streams -> SUBSET (1..Lines)]
  /\ exited \in BOOLEAN /\ timeQuote \in BOOLEAN /\ gaveUp \in BOOLEAN
  /\ hand \in [Appenders -> Seq(1..Lines)]
  /\ streamsBuf \in Seq(Entries) /\ sent \in Seq(Entries)
  /\ counter \in Nat
  /\ pc \in [Appenders -> ReaderPC \cup WorkerPC]
  /\ loop \in {"select", "flush", "stopped"}

\* Of entries in a row: the lines that belong to s, and that they get larger from one
\* to the next.
Carrying(entries, s) == {i \in 1..Len(entries) : entries[i][1] = s}
LinesOf(entries, s) == UNION {Range(entries[i][2]) : i \in Carrying(entries, s)}
Ascending(entries, s) ==
  \A i, j \in Carrying(entries, s) :
    \A m \in DOMAIN entries[i][2], n \in DOMAIN entries[j][2] :
      (i < j \/ (i = j /\ m < n)) => entries[i][2][m] < entries[j][2][n]

\* What was sent, what the buffer holds and what the reader of s holds.
OnTheirWay(s) == Append(sent \o streamsBuf, <<s, hand[s]>>)

\* Whoever flushes the buffer, readers, loop or both at once, a line that was
\* read is handed to DoApiCall once and in the order of its stream: what was sent,
\* what the buffer holds and what the reader holds are its lines from the first to
\* the last one read.  Of a stream with a line too long to scan, the lines that the
\* scanner had in its buffers are missing, and no others (job.go:371-388, 457-499,
\* 604-622).  A call that fails loses what it was handed (job.go:478-496).
InOrder ==
  \A s \in Streams :
    /\ LinesOf(OnTheirWay(s), s) = (1..scanned[s]) \ skipped[s]
    /\ Ascending(OnTheirWay(s), s)

\* quotaHit is checked without the lock and acted on later, so each reader may
\* go one line over the quota, and none goes further (job.go:372, 398).
BufferBounded == 2 * Len(streamsBuf) <= elements + 4

\* When the loop has stopped nothing is left behind: no line is in the buffer or
\* on its way to it, unless the worker gave a reader up (job.go:634-651).
FlushedAtEnd ==
  (loop = "stopped" /\ ~gaveUp) =>
    streamsBuf = <<>> /\ \A a \in Appenders : pc[a] \notin Appending

\* The worker gets through runcmd once the process has ended, and the loop
\* stops, without any of the timeouts: a reader over quota is always woken, and
\* the handshake with the loop takes place (job.go:373, 651).
LogsEnd ==
  (exited \/ pc[Worker] \in Appending) ~>
    (pc[Worker] = "returned" /\ loop = "stopped")

--------------------------------------------------------------------------------
(* What the sources say and the code does not keep *)

\* "signal that we've read all logs" (job.go:649): when the worker stops the loop with
\* both readers at their end and no line was too long, every line written has been read.
AllLogsRead ==
  (pc[Worker] = "stopLogs" /\ ~gaveUp) =>
    \A s \in Streams : skipped[s] = {} => scanned[s] = written[s]
================================================================================
