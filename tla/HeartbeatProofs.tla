---------------------------- MODULE HeartbeatProofs ----------------------------
(***************************************************************************)
(* The numbers of a heartbeat belong together, proved for any set of APIs  *)
(* and any number of workers.                                              *)
(***************************************************************************)
EXTENDS Heartbeat, FiniteSetTheorems, TLAPS

LEMMA CommsTyped ==
  ASSUME NEW known \in SUBSET Apis, known # {}, NEW s \in SetToSeqs(known)
  PROVE  s \in Seq(Apis) /\ Len(s) >= 1
<1>1. IsFiniteSet(known)
  BY HeartbeatAssumption, FS_Subset
<1>2. Cardinality(known) \in Nat /\ Cardinality(known) # 0
  BY <1>1, FS_CardinalityType, FS_EmptySet
<1>3. s \in [1..Cardinality(known) -> known]
  BY DEF SetToSeqs
<1> QED BY <1>2, <1>3

\* The rounds have somebody to ask.
Peopled ==
  /\ pc = "start" => pos = 0
  /\ pc \in {"select", "slots", "fetch"} => Len(comms) >= 1

LEMMA NextCommTyped ==
  ASSUME TypeOK, Peopled, pc = "fetch", NextComm, comms' = comms
  PROVE  /\ pc' \in {"start", "refused", "select", "slots", "fetch", "returned"}
         /\ pos' \in 0..Len(comms') /\ Peopled'
<1> USE DEF TypeOK, NextComm, Peopled
<1>1. Len(comms) \in Nat
  OBVIOUS
<1> QED BY <1>1

LEMMA TypedInit == Init => TypeOK /\ Peopled
<1> SUFFICES ASSUME Init PROVE TypeOK /\ Peopled
  OBVIOUS
<1>1. active \in 0..NumWorkers /\ C \in Numbers
  BY HeartbeatAssumption DEF Init, Numbers
<1>2. comms \in Seq(Apis) /\ pos \in 0..Len(comms)
  BY DEF Init
<1>3. told \in [Apis -> Numbers \cup {None}]
  BY DEF Init
<1> QED BY <1>1, <1>2, <1>3 DEF Init, TypeOK, Peopled

LEMMA TypedStep ==
  ASSUME TypeOK, Peopled, [Next]_vars
  PROVE  TypeOK' /\ Peopled'
<1> USE DEF heardVars, Peopled
<1>1. CASE Count
  BY <1>1 DEF Count, TypeOK
<1>2. CASE Tick
  BY <1>2 DEF Tick, TypeOK
<1>3. CASE Signal
  BY <1>3 DEF Signal, TypeOK
<1>4. CASE StartHeartBeat
  <2>1. CASE pc' = "refused"
    BY <2>1, <1>4 DEF StartHeartBeat, TypeOK
  <2>2. CASE pc' # "refused"
    <3>1. PICK known \in SUBSET Apis : known # {} /\ comms' \in SetToSeqs(known)
      BY <2>2, <1>4 DEF StartHeartBeat
    <3>2. comms' \in Seq(Apis) /\ Len(comms') >= 1
      BY <3>1, CommsTyped
    <3> QED BY <3>2, <1>4 DEF StartHeartBeat, TypeOK
  <2> QED BY <2>1, <2>2
<1>5. CASE TakeTick
  BY <1>5 DEF TakeTick, TypeOK, Numbers
<1>6. CASE FreeSlots
  <2>1. NumWorkers - C.NumActiveJobs \in 0..NumWorkers
    BY HeartbeatAssumption DEF TypeOK, Numbers
  <2>2. C' \in Numbers
    BY <2>1, <1>6 DEF FreeSlots, TypeOK, Numbers
  <2>3. comms' \in Seq(Apis) /\ Len(comms') >= 1 /\ pos' \in 0..Len(comms')
    BY <1>6 DEF FreeSlots, TypeOK
  <2> QED BY <2>2, <2>3, <1>6 DEF FreeSlots, TypeOK
<1>7. CASE Return
  BY <1>7 DEF Return, TypeOK
<1>8. ASSUME NEW a \in Apis, Answered(a) PROVE TypeOK' /\ Peopled'
  <2>1. told' \in [Apis -> Numbers \cup {None}] /\ answered' \in Apis
    BY <1>8 DEF Answered, TypeOK
  <2> QED BY <2>1, <1>8, NextCommTyped DEF Answered, Asked, TypeOK
<1>9. ASSUME NEW a \in Apis, FetchFails(a) PROVE TypeOK' /\ Peopled'
  BY <1>9, NextCommTyped DEF FetchFails, Asked, TypeOK
<1>10. ASSUME NEW a \in Apis, AnswerLost(a) PROVE TypeOK' /\ Peopled'
  BY <1>10 DEF AnswerLost, TypeOK
<1>11. CASE UNCHANGED vars
  BY <1>11 DEF vars, TypeOK
<1> QED BY <1>1, <1>2, <1>3, <1>4, <1>5, <1>6, <1>7, <1>8, <1>9, <1>10, <1>11
        DEF Next, Fetch

\* Every variable of the heartbeat stays in its range: no round asks for an entry that
\* is not there, and no number is negative.
THEOREM TypeCorrect == Spec => []TypeOK
BY TypedInit, TypedStep, PTL DEF Spec

\* While the APIs are asked, the numbers that an attempt reads from config.C agree.
CAgrees == pc = "fetch" => C.NumActiveJobs + C.NumFreeSlots = NumWorkers

\* For any set of APIs and any number of workers, the numbers that an API is told
\* belong together, however the workers count meanwhile.
THEOREM NumbersBelongTogether == Spec => []NumbersAgree
<1>1. Init => NumbersAgree /\ CAgrees
  BY DEF Init, NumbersAgree, CAgrees
<1>2. TypeOK /\ NumbersAgree /\ CAgrees /\ [Next]_vars => NumbersAgree' /\ CAgrees'
  <2> SUFFICES ASSUME TypeOK, NumbersAgree, CAgrees, [Next]_vars
               PROVE  NumbersAgree' /\ CAgrees'
    OBVIOUS
  <2> USE DEF heardVars, NumbersAgree, CAgrees
  <2>1. CASE Count
    BY <2>1 DEF Count
  <2>2. CASE Tick
    BY <2>2 DEF Tick
  <2>3. CASE Signal
    BY <2>3 DEF Signal
  <2>4. CASE StartHeartBeat
    BY <2>4 DEF StartHeartBeat
  <2>5. CASE TakeTick
    BY <2>5 DEF TakeTick
  <2>6. CASE FreeSlots
    <3>1. /\ C'.NumFreeSlots = NumWorkers - C.NumActiveJobs
          /\ C'.NumActiveJobs = C.NumActiveJobs /\ C.NumActiveJobs \in Int
      BY <2>6 DEF FreeSlots, TypeOK, Numbers
    <3> QED BY <3>1, <2>6, HeartbeatAssumption DEF FreeSlots
  <2>7. CASE Return
    BY <2>7 DEF Return
  <2>8. ASSUME NEW a \in Apis, Answered(a) PROVE NumbersAgree' /\ CAgrees'
    BY <2>8 DEF Answered, Asked, NextComm, TypeOK
  <2>9. ASSUME NEW a \in Apis, FetchFails(a) PROVE NumbersAgree' /\ CAgrees'
    BY <2>9 DEF FetchFails, NextComm, Asked
  <2>10. ASSUME NEW a \in Apis, AnswerLost(a) PROVE NumbersAgree' /\ CAgrees'
    BY <2>10 DEF AnswerLost, Asked, TypeOK
  <2>11. CASE UNCHANGED vars
    BY <2>11 DEF vars
  <2> QED BY <2>1, <2>2, <2>3, <2>4, <2>5, <2>6, <2>7, <2>8, <2>9, <2>10, <2>11
          DEF Next, Fetch
<1> QED BY <1>1, <1>2, TypeCorrect, PTL DEF Spec
================================================================================
