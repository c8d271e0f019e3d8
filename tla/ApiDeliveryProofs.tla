--------------------------- MODULE ApiDeliveryProofs ---------------------------
(***************************************************************************)
(* SUCCESS and ERROR are final in every API's table, and an API that took  *)
(* every report in its turn is in step with the worker: proved for any set *)
(* of APIs and any loss, repetition, delay and swallowed error.            *)
(***************************************************************************)
EXTENDS ApiDelivery, TLAPS

USE DEF PENDING, RUNNING, SUCCESS, ERROR, CANCELED, TIMEOUT, StoppedStatuses

Final == {SUCCESS, ERROR}

\* No request under way, and none that may still come, asks to replace a final
\* status.
NoneReplacesFinal ==
  /\ target # None => call # None
  /\ call # None => call.prev \notin Final
  /\ \A m \in late : m.report.prev \notin Final

\* A report never has a final status as its previous one.
LEMMA ReportedPrev ==
  ASSUME ReportNext
  PROVE  view \notin Final
BY DEF ReportNext, Start, Stop, Fail, Succeed, Final

\* A request with another previous status leaves a final row alone.
LEMMA UpdatedKeepsFinal ==
  ASSUME NEW s \in Final, NEW r, r.prev \notin Final
  PROVE  Updated(s, r) = s
BY DEF Updated, Final

LEMMA NoneReplacesFinalInit == Init => NoneReplacesFinal
BY DEF Init, NoneReplacesFinal

LEMMA NoneReplacesFinalStep ==
  ASSUME NoneReplacesFinal, [Next]_vars
  PROVE  NoneReplacesFinal'
<1> USE DEF NoneReplacesFinal, callVars, reportVars
<1>1. CASE FetchNew
  BY <1>1 DEF FetchNew
<1>2. CASE doApiCall
  <2>1. call' = ReportOf(view, view') /\ view \notin Final
    BY <1>2, ReportedPrev DEF doApiCall
  <2>2. call'.prev \notin Final
    BY <2>1 DEF ReportOf
  <2>3. target = None /\ target' = None /\ late' = late
    BY <1>2 DEF doApiCall
  <2> QED BY <2>2, <2>3
<1>3. CASE NextCommunicator
  BY <1>3 DEF NextCommunicator
<1>4. CASE DeliveryEnds
  BY <1>4 DEF DeliveryEnds
<1>5. CASE Answered
  BY <1>5 DEF Answered
<1>6. CASE AnswerLost
  BY <1>6 DEF AnswerLost
<1>7. CASE RequestDelayed
  BY <1>7 DEF RequestDelayed
<1>8. CASE FetchFails
  BY <1>8 DEF FetchFails
<1>9. ASSUME NEW a \in Apis, AskCancel(a) PROVE NoneReplacesFinal'
  BY <1>9 DEF AskCancel
<1>10. ASSUME NEW m \in late, LateExecuted(m) PROVE NoneReplacesFinal'
  BY <1>10 DEF LateExecuted
<1>11. CASE CancellerAsks \/ CancellerStops \/ RecordRemoved
  BY <1>11 DEF CancellerAsks, CancellerStops, RecordRemoved
<1>12. CASE CancellerCancels
  <2>1. UNCHANGED call \/ call'.prev \notin Final
    BY <1>12 DEF CancellerCancels, Stop, ReportOf, Final
  <2>2. UNCHANGED <<target, late>> /\ (target # None => call # None)
    BY <1>12 DEF CancellerCancels
  <2>3. call = None
    BY <1>12 DEF CancellerCancels
  <2> QED BY <2>1, <2>2, <2>3
<1>13. CASE UNCHANGED vars
  BY <1>13 DEF vars
<1> QED
  BY <1>1, <1>2, <1>3, <1>4, <1>5, <1>6, <1>7, <1>8, <1>9, <1>10, <1>11, <1>12, <1>13
     DEF Next

\* The rows are indexed by the APIs.
Rows == DOMAIN db = Apis

LEMMA RowsStep ==
  ASSUME Rows, [Next]_vars
  PROVE  Rows'
BY DEF Rows, Next, vars, FetchNew, doApiCall, NextCommunicator, DeliveryEnds, Answered,
   AnswerLost, RequestDelayed, FetchFails, AskCancel, LateExecuted, Execute, QueryFails,
   RecordRemoved, CancellerAsks, CancellerStops, CancellerCancels

\* Fetching changes no row but one that is pending.
LEMMA FetchedRows ==
  ASSUME FetchNew, NEW a \in Apis, DOMAIN db = Apis
  PROVE  (db'[a] = db[a]) \/ (db[a] = PENDING /\ db'[a] = "propogated")
<1>1. CASE QueryFails
  BY <1>1 DEF QueryFails
<1>2. CASE db' = [db EXCEPT ![Main] = "propogated"] /\ db[Main] = PENDING
  BY <1>2
<1> QED BY <1>1, <1>2 DEF FetchNew

\* Executing a request keeps every final row.
LEMMA ExecuteKeepsFinal ==
  ASSUME Rows, NEW b, NEW r, r.prev \notin Final, Execute(b, r),
         NEW a \in Apis, db[a] \in Final
  PROVE  db'[a] = db[a]
<1>1. CASE a = b
  BY <1>1, UpdatedKeepsFinal DEF Execute, Rows
<1>2. CASE a # b
  BY <1>2 DEF Execute, Rows
<1> QED BY <1>1, <1>2

\* For any APIs, requests and losses: a row that shows SUCCESS or ERROR never
\* changes again.
THEOREM FinalStays == Spec => FinalIsFinal
<1>1. ASSUME NoneReplacesFinal, Rows, [Next]_vars, NEW a \in Apis,
             db[a] \in {SUCCESS, ERROR}
      PROVE  db'[a] = db[a]
  <2>a. db[a] \in Final
    BY <1>1 DEF Final
  <2>1. CASE db' = db
    BY <2>1
  <2>2. CASE FetchNew
    BY <1>1, <2>2, FetchedRows DEF Rows
  <2>3. CASE Answered \/ AnswerLost
    BY <1>1, <2>a, <2>3, ExecuteKeepsFinal
       DEF NoneReplacesFinal, Answered, AnswerLost, QueryFails
  <2>4. ASSUME NEW b \in Apis, AskCancel(b) PROVE db'[a] = db[a]
    BY <1>1, <2>4 DEF AskCancel
  <2>5. ASSUME NEW m \in late, LateExecuted(m) PROVE db'[a] = db[a]
    BY <1>1, <2>a, <2>5, ExecuteKeepsFinal
       DEF NoneReplacesFinal, LateExecuted, QueryFails
  <2> QED
    BY <1>1, <2>1, <2>2, <2>3, <2>4, <2>5
       DEF Next, vars, doApiCall, NextCommunicator, DeliveryEnds, RequestDelayed,
       FetchFails, RecordRemoved, CancellerAsks, CancellerStops, CancellerCancels
<1>2. NoneReplacesFinal /\ Rows /\ [Next]_vars
        => [\A a \in Apis : db[a] \in {SUCCESS, ERROR} => db'[a] = db[a]]_vars
  BY <1>1
<1>3. Init => Rows
  BY DEF Init, Rows
<1> QED
  BY <1>2, <1>3, NoneReplacesFinalInit, NoneReplacesFinalStep, RowsStep, PTL
     DEF Spec, FinalIsFinal

--------------------------------------------------------------------------------
(* TypeOK and InStep *)

USE DEF RUN_OK, RUN_FAILED, ReportOf

\* The status v, a cancellation asked for since, or the job as it was fetched.
Agrees(a, v) == db[a] \in {v, "cancel"} \/ (v = PENDING /\ db[a] = "propogated")

\* The worker delivers one report at a time, and none before it has the job.
Delivery ==
  /\ record = "none" => view = PENDING /\ call = None /\ canceller # "cancel"
  /\ call = None => todo = {} /\ target = None
  /\ call # None => call.status = view
  /\ target \notin todo

\* An API in step agrees with the report under way once it was told, and until then
\* with that report or with the one before it.
Rowwise ==
  \A a \in Apis \ lapsed :
    \/ Agrees(a, view)
    \/ call # None /\ a \in todo \cup {target} /\ Agrees(a, call.prev)

DeliveryInv == TypeOK /\ Delivery /\ Rowwise

\* A report is a pair of statuses, and never changes to PENDING.
LEMMA ReportTyped ==
  ASSUME TypeOK, ReportNext
  PROVE  view' \in Statuses /\ started' \in BOOLEAN /\ ReportOf(view, view') \in Reports
BY DEF TypeOK, Statuses, TerminalStatuses, ReportNext, Start, Stop, Fail, Succeed,
   StoppedStatuses, Reports

\* Executing a request leaves a table of statuses.
LEMMA ExecuteTyped ==
  ASSUME db \in [Apis -> DbStatuses], NEW b, NEW r \in Reports, Execute(b, r)
  PROVE  db' \in [Apis -> DbStatuses]
BY DEF Execute, Updated, Reports, DbStatuses

\* Executing the report under way brings the API into agreement with it.
LEMMA ExecuteAgrees ==
  ASSUME DeliveryInv, call # None, NEW b \in Apis, Execute(b, call), UNCHANGED view,
         NEW a \in Apis, Agrees(a, view) \/ Agrees(a, call.prev)
  PROVE  IF a = b THEN Agrees(a, view)' ELSE db'[a] = db[a]
BY DEF DeliveryInv, TypeOK, Delivery, Execute, Updated, Agrees

LEMMA DeliveryInit == Init => DeliveryInv
BY ApiAssumption DEF Init, ReportInit, DeliveryInv, TypeOK, Delivery, Rowwise, Agrees,
   DbStatuses, Statuses

\* A report that is made when none is under way.
LEMMA NewReport ==
  ASSUME DeliveryInv, call = None, record # "none", ReportNext,
         call' = ReportOf(view, view'), todo' = Apis,
         canceller' \in {canceller, "select"},
         UNCHANGED <<db, record, target, late, lapsed>>
  PROVE  DeliveryInv'
<1>1. TypeOK'
  BY ReportTyped DEF DeliveryInv, TypeOK
<1>2. call' \in Reports /\ call' # None
  BY ReportTyped, ApiAssumption DEF DeliveryInv
<1>3. Delivery'
  <2>1. target' = None /\ target' \notin todo'
    BY ApiAssumption DEF DeliveryInv, Delivery
  <2>2. call'.status = view' /\ record' # "none"
    OBVIOUS
  <2> QED BY <1>2, <2>1, <2>2 DEF Delivery
<1>4. Rowwise'
  BY <1>2 DEF DeliveryInv, Rowwise, Agrees
<1> QED BY <1>1, <1>3, <1>4 DEF DeliveryInv

LEMMA DeliveryStep ==
  ASSUME DeliveryInv, [Next]_vars
  PROVE  DeliveryInv'
<1> USE DEF reportVars, callVars
<1>1. CASE FetchNew
  <2>1. TypeOK' /\ Delivery'
    BY <1>1 DEF FetchNew, QueryFails, DeliveryInv, TypeOK, Delivery, DbStatuses
  <2>2. ASSUME NEW a \in Apis
        PROVE  (db'[a] = db[a]) \/ (db[a] = PENDING /\ db'[a] = "propogated")
    BY <1>1, FetchedRows DEF DeliveryInv, TypeOK
  <2> QED BY <1>1, <2>1, <2>2 DEF FetchNew, DeliveryInv, Rowwise, Agrees
<1>2. CASE doApiCall
  BY <1>2, NewReport DEF doApiCall, DeliveryInv, TypeOK
<1>3. CASE NextCommunicator
  <2>1. target' \in todo /\ todo' = todo \ {target'} /\ target = None
    BY <1>3 DEF NextCommunicator
  <2>2. \A a \in Apis : a \in todo \cup {target} => a \in todo' \cup {target'}
    BY <2>1, ApiAssumption
  <2> QED
    BY <1>3, <2>1, <2>2
       DEF NextCommunicator, DeliveryInv, TypeOK, Delivery, Rowwise, Agrees
<1>4. CASE DeliveryEnds
  <2>1. \A a \in Apis : a \notin todo \cup {target}
    BY <1>4, ApiAssumption DEF DeliveryEnds
  <2> QED
    BY <1>4, <2>1 DEF DeliveryEnds, DeliveryInv, TypeOK, Delivery, Rowwise, Agrees
<1>5. ASSUME target # None, Execute(target, call), target' \in {target, None},
             UNCHANGED <<reportVars, record, call, todo, canceller, late, lapsed>>
      PROVE  DeliveryInv'
  <2>1. call \in Reports /\ call # None /\ target \in Apis
    BY <1>5 DEF DeliveryInv, Delivery, TypeOK
  <2>2. TypeOK'
    BY <1>5, <2>1, ExecuteTyped DEF DeliveryInv, TypeOK
  <2>3. Delivery'
    BY <1>5, <2>1, ApiAssumption DEF DeliveryInv, TypeOK, Delivery
  <2>4. ASSUME NEW a \in Apis \ lapsed
        PROVE  Agrees(a, view)' \/ (call # None /\ a \in todo /\ Agrees(a, call.prev)')
    <3>1. Agrees(a, view) \/ (a \in todo \cup {target} /\ Agrees(a, call.prev))
      BY DEF DeliveryInv, Rowwise
    <3>2. IF a = target THEN Agrees(a, view)' ELSE db'[a] = db[a]
      BY <1>5, <2>1, <3>1, ExecuteAgrees
    <3> QED BY <1>5, <2>1, <3>1, <3>2 DEF Agrees
  <2> QED BY <1>5, <2>2, <2>3, <2>4 DEF DeliveryInv, Rowwise
<1>6. CASE Answered \/ AnswerLost
  <2>1. CASE QueryFails /\ Answered
    <3>1. /\ target \in Apis
          /\ Execute(target, call) \/ lapsed' = lapsed \cup {target}
      BY <2>1 DEF Answered, DeliveryInv, TypeOK
    <3>2. CASE lapsed' = lapsed \cup {target}
      BY <2>1, <3>1, <3>2, ApiAssumption
         DEF Answered, QueryFails, DeliveryInv, TypeOK, Delivery, Rowwise, Agrees
    <3> QED BY <1>5, <2>1, <3>1, <3>2 DEF Answered
  <2> QED BY <1>5, <1>6, <2>1 DEF Answered, AnswerLost
<1>7. CASE RequestDelayed
  <2>1. call \in Reports /\ target \in Apis
    BY <1>7 DEF RequestDelayed, DeliveryInv, Delivery, TypeOK
  <2> QED
    BY <1>7, <2>1 DEF RequestDelayed, DeliveryInv, TypeOK, Delivery, Rowwise, Agrees
<1>8. CASE FetchFails
  BY <1>8 DEF FetchFails, DeliveryInv, TypeOK, Delivery, Rowwise, Agrees
<1>9. ASSUME NEW b \in Apis, AskCancel(b) PROVE DeliveryInv'
  BY <1>9 DEF AskCancel, DeliveryInv, TypeOK, Delivery, Rowwise, Agrees, DbStatuses
<1>10. ASSUME NEW m \in late, LateExecuted(m), Execute(m.to, m.report),
              lapsed' = IF m.report = call THEN lapsed ELSE lapsed \cup {m.to}
       PROVE  DeliveryInv'
  <2>1. m.to \in Apis /\ m.report \in Reports
    BY DEF DeliveryInv, TypeOK
  <2>2. TypeOK'
    BY <1>10, <2>1, ExecuteTyped DEF LateExecuted, DeliveryInv, TypeOK
  <2>3. Delivery'
    BY <1>10 DEF LateExecuted, DeliveryInv, Delivery
  <2>4. ASSUME NEW a \in Apis \ lapsed'
        PROVE  Agrees(a, view)' \/ (call' # None /\ a \in todo' \cup {target'}
                                     /\ Agrees(a, call.prev)')
    <3>1. \/ Agrees(a, view)
          \/ call # None /\ a \in todo \cup {target} /\ Agrees(a, call.prev)
      BY <1>10, <2>4 DEF LateExecuted, DeliveryInv, Rowwise
    <3>2. CASE a # m.to
      BY <1>10, <3>1, <3>2 DEF LateExecuted, Execute, Agrees, DeliveryInv, TypeOK
    <3>3. CASE a = m.to
      <4>1. m.report = call /\ call # None
        BY <1>10, <2>1, <2>4, <3>3, ApiAssumption DEF LateExecuted, DeliveryInv, TypeOK
      <4> QED
        BY <1>10, <2>1, <3>1, <3>3, <4>1, ExecuteAgrees DEF LateExecuted
    <3> QED BY <3>2, <3>3
  <2> QED BY <1>10, <2>2, <2>3, <2>4 DEF LateExecuted, DeliveryInv, Rowwise
<1>11. CASE CancellerAsks \/ CancellerStops \/ RecordRemoved
  BY <1>11 DEF CancellerAsks, CancellerStops, RecordRemoved, DeliveryInv, TypeOK,
     Delivery, Rowwise, Agrees
<1>12. CASE CancellerCancels
  <2>1. CASE Stop /\ call' = ReportOf(view, view') /\ todo' = Apis
    BY <1>12, <2>1, NewReport
       DEF CancellerCancels, ReportNext, DeliveryInv, TypeOK, Delivery
  <2>2. CASE UNCHANGED <<reportVars, call, todo>>
    BY <1>12, <2>2 DEF CancellerCancels, DeliveryInv, TypeOK, Delivery, Rowwise, Agrees
  <2> QED BY <1>12, <2>1, <2>2 DEF CancellerCancels
<1>13. CASE UNCHANGED vars
  BY <1>13 DEF vars, DeliveryInv, TypeOK, Delivery, Rowwise, Agrees
<1>14. ASSUME NEW m \in late, LateExecuted(m), QueryFails, UNCHANGED lapsed
       PROVE  DeliveryInv'
  BY <1>14 DEF LateExecuted, QueryFails, DeliveryInv, TypeOK, Delivery, Rowwise, Agrees
<1>15. ASSUME NEW m \in late, LateExecuted(m) PROVE DeliveryInv'
  BY <1>10, <1>14, <1>15 DEF LateExecuted
<1> QED
  BY <1>1, <1>2, <1>3, <1>4, <1>6, <1>7, <1>8, <1>9, <1>11, <1>12, <1>13, <1>15 DEF Next

\* For any APIs: every variable of ApiDelivery stays in its range.
THEOREM TypeCorrect == Spec => []TypeOK
<1>1. DeliveryInv => TypeOK
  BY DEF DeliveryInv
<1> QED BY <1>1, DeliveryInit, DeliveryStep, PTL DEF Spec

\* For any APIs, requests, losses and database errors: an API that took every report
\* in its turn agrees with the worker whenever no report is under way.
THEOREM AgreesBetweenReports == Spec => []InStep
<1>1. DeliveryInv => InStep
  BY DEF DeliveryInv, Rowwise, InStep, Agrees
<1> QED BY <1>1, DeliveryInit, DeliveryStep, PTL DEF Spec
================================================================================
