------------------------------ MODULE ApiDelivery ------------------------------
(***************************************************************************)
(* How a job's reports travel (model/job.go doApiCall, model/request.go    *)
(* DoApi, communicator/http.go Fetch) and what the API servers make of     *)
(* them (docker-image/apiserver/app/resources/jobs.py).                    *)
(*                                                                         *)
(* The job makes the reports JobReports allows, one at a time: doApiCall   *)
(* runs under j.mu and returns when the delivery is over.  A report is     *)
(* sent to one API after the other, each request retried until it succeeds *)
(* or the backoff has elapsed.  A request may be refused, its response may *)
(* be lost, and a request the client has given up may still be executed    *)
(* later, when other reports have been made.  A server answers success     *)
(* when its database failed as well.                                       *)
(*                                                                         *)
(* In the other direction, the job is fetched from the main API in one     *)
(* attempt, and the canceller asks it again and again for the jobs that a  *)
(* user wants cancelled and looks them up in the registry.  One execution  *)
(* of the row is followed: what is fetched again is refused as a duplicate *)
(* or is another job.                                                      *)
(***************************************************************************)
EXTENDS JobReports, Naturals, FiniteSets

CONSTANTS Apis,   \* the servers behind the communicators of a section
          Main,   \* the one of them that jobs are fetched from
          MaxLate, \* bound: requests given up and still under way at one time
          None

\* What doApiCall reports: the job's previous status and its status.
Reports == [prev : Statuses, status : Statuses]

ASSUME ApiAssumption ==
  /\ Main \in Apis /\ None \notin Apis \cup Reports
  /\ IsFiniteSet(Apis)
  /\ MaxLate \in Nat

VARIABLES
  db,         \* jobs.status in each server's table
  record,     \* the job's record in the registry: "none" before the job is
              \* received, "found" under the key that Main's row leads to, "gone"
              \* when that key does not lead to it, or no longer
  call,       \* the report that doApiCall is delivering, or None
  todo,       \* communicators that DoApi has not come to yet
  target,     \* the one whose Fetch is running, or None
  canceller,  \* in its select, about to call the job's Cancel, or stopped
  late,       \* requests given up by the client that may still be executed
  \* what the properties speak about
  lapsed      \* APIs that a report was given up for, that answered one without saving
              \* it, or that executed one after others were made

reportVars == <<view, started>>
callVars == <<call, todo, target>>
vars == <<reportVars, db, record, callVars, canceller, late, lapsed>>

DbStatuses == Statuses \cup {"propogated", "cancel"}
ReportOf(prev, new) == [prev |-> prev, status |-> new]

Init ==
  /\ ReportInit
  /\ db = [a \in Apis |-> PENDING]
  /\ record = "none" /\ canceller = "select"
  /\ call = None /\ todo = {} /\ target = None
  /\ late = {} /\ lapsed = {}

--------------------------------------------------------------------------------
(* The server: jobs.py *)

\* Fault: the update asks nothing of the status it replaces.
Updated_Always(s, r) == r.status

\* UPDATE jobs SET status=new WHERE status IN (prev, 'PENDING', 'propogated',
\* 'cancel').  The answer does not tell whether a row was changed.
Updated(s, r) ==
  IF s \in {r.prev, PENDING, "propogated", "cancel"} THEN r.status ELSE s

Execute(a, r) == db' = [db EXCEPT ![a] = Updated(@, r)]

\* An error of the database is logged and nothing else (jobs.py:54-56).
QueryFails == UNCHANGED db

\* fetch_new offers the row and marks it, if its update does not fail; the client makes
\* one attempt and the answer may not come.
FetchNew ==
  /\ db[Main] = PENDING
  /\ db' = [db EXCEPT ![Main] = "propogated"] \/ QueryFails
  /\ \/ record = "none" /\ record' \in {"found", "gone"}
     \/ UNCHANGED record
  /\ UNCHANGED <<reportVars, callVars, canceller, late, lapsed>>

\* A user asks for the cancellation of an unfinished job.
AskCancel(a) ==
  /\ db[a] \in {PENDING, "propogated", RUNNING}
  /\ db' = [db EXCEPT ![a] = "cancel"]
  /\ UNCHANGED <<reportVars, record, callVars, canceller, late, lapsed>>

--------------------------------------------------------------------------------
(* The worker: doApiCall, DoApi and Fetch *)

\* Fault: the previous status sent is the one the job came with.
doApiCall_FetchedStatus ==
  /\ record # "none" /\ call = None
  /\ ReportNext
  /\ call' = ReportOf(db[Main], view')
  /\ todo' = Apis
  /\ UNCHANGED <<db, record, target, canceller, late, lapsed>>

\* Fault: the previous status sent is the current one.
doApiCall_CurrentStatus ==
  /\ record # "none" /\ call = None
  /\ ReportNext
  /\ call' = ReportOf(view', view')
  /\ todo' = Apis
  /\ UNCHANGED <<db, record, target, canceller, late, lapsed>>

\* The job is in the worker's hands and makes its next report.
doApiCall ==
  /\ record # "none" /\ call = None
  /\ ReportNext
  /\ call' = ReportOf(view, view')
  /\ todo' = Apis
  /\ UNCHANGED <<db, record, target, canceller, late, lapsed>>

\* The communicators come out of a map, in any order.
NextCommunicator ==
  /\ call # None /\ target = None
  /\ target' \in todo
  /\ todo' = todo \ {target'}
  /\ UNCHANGED <<reportVars, db, record, call, canceller, late, lapsed>>

DeliveryEnds ==
  /\ call # None /\ target = None /\ todo = {}
  /\ call' = None
  /\ UNCHANGED <<reportVars, db, record, todo, target, canceller, late, lapsed>>

\* A request of Fetch is answered, executed or not.
Answered ==
  /\ target # None
  /\ \/ Execute(target, call) /\ UNCHANGED lapsed
     \/ QueryFails /\ lapsed' = lapsed \cup {target}
  /\ target' = None
  /\ UNCHANGED <<reportVars, record, call, todo, canceller, late>>

\* It is executed, the response is lost or late: backoff.Retry sends it again.
AnswerLost ==
  /\ target # None
  /\ Execute(target, call)
  /\ UNCHANGED <<reportVars, record, callVars, canceller, late, lapsed>>

\* The client's timeout ends the request before the server has executed it.
RequestDelayed ==
  /\ target # None
  /\ Cardinality(late) < MaxLate
  /\ late' = late \cup {[to |-> target, report |-> call]}
  /\ UNCHANGED <<reportVars, db, record, callVars, canceller, lapsed>>

\* The backoff has elapsed: Fetch fails and DoApi leaves out the others.
FetchFails ==
  /\ target # None
  /\ lapsed' = lapsed \cup todo \cup {target}
  /\ todo' = {} /\ target' = None
  /\ call' = None
  /\ UNCHANGED <<reportVars, db, record, canceller, late>>

\* A request that the client gave up is executed after all.
LateExecuted(m) ==
  /\ m \in late
  /\ late' = late \ {m}
  /\ \/ /\ Execute(m.to, m.report)
        /\ lapsed' = IF m.report = call THEN lapsed ELSE lapsed \cup {m.to}
     \/ QueryFails /\ UNCHANGED lapsed
  /\ UNCHANGED <<reportVars, record, callVars, canceller>>

--------------------------------------------------------------------------------
(* The registry and the canceller *)

\* A deletion by the key: the worker's, a sweep's, or another job's.
RecordRemoved ==
  /\ record = "found"
  /\ record' = "gone"
  /\ UNCHANGED <<reportVars, db, callVars, canceller, late, lapsed>>

\* fetch_cancel answers with the rows whose status is cancel, and leaves them so.
CancelRows == db[Main] = "cancel"

\* DoApiCall makes one attempt and the canceller asks again at its next tick, so an
\* answer that is lost, or empty because the query failed, changes nothing; neither
\* does a row whose key leads to no job.
CancellerAsks ==
  /\ canceller = "select"
  /\ CancelRows /\ record = "found"
  /\ canceller' = "cancel"
  /\ UNCHANGED <<reportVars, db, record, callVars, late, lapsed>>

CancellerStops ==
  /\ canceller = "select"
  /\ canceller' = "stopped"
  /\ UNCHANGED <<reportVars, db, record, callVars, late, lapsed>>

\* Fault: a job that has not started is passed over.
CancellerCancels_OnlyRunning ==
  /\ canceller = "cancel" /\ call = None
  /\ canceller' = "select"
  /\ \/ /\ view = RUNNING
        /\ Stop /\ view' = CANCELED
        /\ call' = ReportOf(view, view') /\ todo' = Apis
     \/ /\ view # RUNNING
        /\ UNCHANGED <<reportVars, call, todo>>
  /\ UNCHANGED <<db, record, target, late, lapsed>>

\* Job.Cancel, which waits for j.mu and so for the report under way, reports the stop
\* of a job that is not in a terminal status.
CancellerCancels ==
  /\ canceller = "cancel" /\ call = None
  /\ canceller' = "select"
  /\ \/ /\ Stop /\ view' = CANCELED
        /\ call' = ReportOf(view, view') /\ todo' = Apis
     \/ /\ view \in TerminalStatuses
        /\ UNCHANGED <<reportVars, call, todo>>
  /\ UNCHANGED <<db, record, target, late, lapsed>>

--------------------------------------------------------------------------------

Next ==
  \/ FetchNew \/ doApiCall \/ NextCommunicator \/ DeliveryEnds
  \/ Answered \/ AnswerLost \/ RequestDelayed \/ FetchFails
  \/ RecordRemoved \/ CancellerAsks \/ CancellerStops \/ CancellerCancels
  \/ \E a \in Apis : AskCancel(a)
  \/ \E m \in late : LateExecuted(m)

Spec == Init /\ [][Next]_vars

(***************************************************************************)
(* A delivery comes to its end: each Fetch is answered or has used up its  *)
(* backoff (http.go:126-161).  The canceller's ticker ticks, not all of    *)
(* its requests are lost and not all of its queries fail.  The job owes no *)
(* report of its own, the user and the network nothing.                    *)
(***************************************************************************)
Fairness ==
  /\ WF_vars(NextCommunicator \/ DeliveryEnds) /\ WF_vars(Answered \/ FetchFails)
  /\ WF_vars(CancellerAsks) /\ WF_vars(CancellerCancels)

FairSpec == Spec /\ Fairness

--------------------------------------------------------------------------------
(* Properties *)

TypeOK ==
  /\ view \in Statuses /\ started \in BOOLEAN
  /\ db \in [Apis -> DbStatuses]
  /\ record \in {"none", "found", "gone"}
  /\ canceller \in {"select", "cancel", "stopped"}
  /\ call \in Reports \cup {None}
  /\ todo \subseteq Apis /\ target \in Apis \cup {None}
  /\ late \subseteq [to : Apis, report : Reports]
  /\ lapsed \subseteq Apis

\* An API that took every report in its turn agrees with the worker between two of
\* them: it shows the status last reported, or a cancellation asked for since.  A
\* database that failed is a lapse its answer does not tell (jobs.py:54-56).  It takes
\* the chain of previous statuses, the guard of the update and the order of the calls
\* (job.go:170, jobs.py:234, job.go:715-725).
InStep ==
  \A a \in Apis :
    (call = None /\ a \notin lapsed) =>
      \/ db[a] \in {view, "cancel"}
      \/ view = PENDING /\ db[a] = "propogated"

\* SUCCESS and ERROR are final for every API, whatever requests are repeated or
\* executed late and whatever reports are missing: nothing that the worker sends
\* has them as its previous status (job.go:282, 707, jobs.py:234).
FinalIsFinal ==
  [][\A a \in Apis : db[a] \in {SUCCESS, ERROR} => db'[a] = db[a]]_vars

\* A user's cancel does not stay unanswered: while the registry's record leads the
\* canceller to the job, the main API shows another status in the end, unless a lapse
\* of that API or the end of the canceller comes between, or the job loses its record
\* before it is over (jobs_fetch.go:208-273, jobs.py:125-176, 234).
CancelAnswered ==
  (db[Main] = "cancel" /\ record = "found") ~>
    \/ db[Main] # "cancel" \/ Main \in lapsed \/ canceller = "stopped"
    \/ record = "gone" /\ ~IsTerminalStatus(view)
================================================================================
