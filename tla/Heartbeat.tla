------------------------------- MODULE Heartbeat -------------------------------
(***************************************************************************)
(* The heartbeat (heartbeat/hearbeat.go): at each tick it takes a copy of  *)
(* the number of active jobs, derives the number of free slots and sends   *)
(* both to every API of its section, one after the other, while the        *)
(* workers go on counting.                                                 *)
(*                                                                         *)
(* The copy is the global config.C, from which every attempt of a Fetch    *)
(* takes its numbers anew (communicator/http.go).  Fetch looks at nothing  *)
(* but the values of its context: neither the 60 seconds of a round nor    *)
(* the end of the program cuts its retries short.                          *)
(***************************************************************************)
EXTENDS Integers, FiniteSets, SequencesExt

CONSTANTS
  Apis,       \* the entries of the section's `communicators`
  Reachable,  \* the APIs that do not fail for ever
  NumWorkers,
  None

ASSUME HeartbeatAssumption ==
  /\ IsFiniteSet(Apis) /\ Reachable \subseteq Apis
  /\ NumWorkers \in Nat
  /\ None \notin Apis \cup [NumActiveJobs : Int, NumFreeSlots : Int]

VARIABLES
  active,   \* worker.NumActiveJobs
  C,        \* config.C: NumActiveJobs, NumFreeSlots
  pc,       \* StartHeartBeat and its goroutine
  comms,    \* communicators, in the order the map gave them in
  pos,      \* the one that is asked
  ticked,   \* the ticker's channel
  ctxDone,  \* the signal handler cancelled the context
  \* what the properties speak about
  told,     \* the numbers an API received last, or None
  answered  \* the API that answered last since the tick, or None

heardVars == <<told, answered>>
vars == <<active, C, pc, comms, pos, ticked, ctxDone, heardVars>>

Init ==
  /\ active = 0
  /\ C = [NumActiveJobs |-> 0, NumFreeSlots |-> 0]
  /\ pc = "start" /\ comms = << >> /\ pos = 0 /\ ticked = FALSE /\ ctxDone = FALSE
  /\ told = [a \in Apis |-> None] /\ answered = None

--------------------------------------------------------------------------------
(* The workers, the ticker and the signal *)

\* A worker counts the job it took, or that it is done with it.
Count ==
  /\ active' \in {active - 1, active + 1} \cap 0..NumWorkers
  /\ UNCHANGED <<C, pc, comms, pos, ticked, ctxDone, heardVars>>

\* The channel holds one tick, those that come while it is full are dropped.
Tick ==
  /\ ticked' = TRUE
  /\ UNCHANGED <<active, C, pc, comms, pos, ctxDone, heardVars>>

Signal ==
  /\ ctxDone' = TRUE
  /\ UNCHANGED <<active, C, pc, comms, pos, ticked, heardVars>>

--------------------------------------------------------------------------------
(* StartHeartBeat *)

\* Entries of an unknown type are left out.  With no entry left the heartbeat is
\* refused, even where a communicator could be made of the section itself: the error
\* of GetCommunicatorsFromSection stays.
StartHeartBeat ==
  /\ pc = "start"
  /\ \E known \in SUBSET Apis :
       IF known = {} THEN pc' = "refused" /\ UNCHANGED comms
                     ELSE pc' = "select" /\ comms' \in SetToSeqs(known)
  /\ UNCHANGED <<active, C, pos, ticked, ctxDone, heardVars>>

\* The select may prefer a tick to the end of the context.
TakeTick ==
  /\ pc = "select" /\ ticked
  /\ ticked' = FALSE
  /\ C' = [C EXCEPT !.NumActiveJobs = active]
  /\ answered' = None
  /\ pc' = "slots"
  /\ UNCHANGED <<active, comms, pos, ctxDone, told>>

\* Fault: the workers' counter is read once more.
FreeSlots_ReadsCounter ==
  /\ pc = "slots"
  /\ C' = [C EXCEPT !.NumFreeSlots = NumWorkers - active]
  /\ pos' = 1 /\ pc' = "fetch"
  /\ UNCHANGED <<active, comms, ticked, ctxDone, heardVars>>

\* The free slots are those of the copy.
FreeSlots ==
  /\ pc = "slots"
  /\ C' = [C EXCEPT !.NumFreeSlots = NumWorkers - C.NumActiveJobs]
  /\ pos' = 1 /\ pc' = "fetch"
  /\ UNCHANGED <<active, comms, ticked, ctxDone, heardVars>>

Asked(a) == pc = "fetch" /\ comms[pos] = a

\* Fault: a communicator too many is asked for.
NextComm_OffByOne ==
  IF pos <= Len(comms) THEN pos' = pos + 1 /\ UNCHANGED pc
                       ELSE pos' = 0 /\ pc' = "select"

NextComm ==
  IF pos < Len(comms) THEN pos' = pos + 1 /\ UNCHANGED pc
                      ELSE pos' = 0 /\ pc' = "select"

\* An attempt of Fetch reaches the API and its answer is the one wanted.
Answered(a) ==
  /\ Asked(a)
  /\ told' = [told EXCEPT ![a] = C] /\ answered' = a
  /\ NextComm
  /\ UNCHANGED <<active, C, comms, ticked, ctxDone>>

\* It reaches the API, and backoff.Retry makes another attempt.
AnswerLost(a) ==
  /\ Asked(a)
  /\ told' = [told EXCEPT ![a] = C]
  /\ UNCHANGED <<active, C, pc, comms, pos, ticked, ctxDone, answered>>

\* Fault: the round ends with the first API that fails.
FetchFails_EndsRound(a) ==
  /\ Asked(a)
  /\ pos' = 0 /\ pc' = "select"
  /\ UNCHANGED <<active, C, comms, ticked, ctxDone, heardVars>>

\* The backoff has elapsed, or the entry has no URL: the next one is asked.
FetchFails(a) ==
  /\ Asked(a)
  /\ NextComm
  /\ UNCHANGED <<active, C, comms, ticked, ctxDone, heardVars>>

Return ==
  /\ pc = "select" /\ ctxDone
  /\ pc' = "returned"
  /\ UNCHANGED <<active, C, comms, pos, ticked, ctxDone, heardVars>>

Fetch(a) == Answered(a) \/ FetchFails(a)

Next ==
  \/ Count \/ Tick \/ Signal
  \/ StartHeartBeat \/ TakeTick \/ FreeSlots \/ Return
  \/ \E a \in Apis : Fetch(a) \/ AnswerLost(a)

Spec == Init /\ [][Next]_vars

(***************************************************************************)
(* The goroutine runs, the ticker ticks, a Fetch is answered or uses up    *)
(* its backoff (http.go:126-161).  A reachable API answers some of the     *)
(* Fetches to it.  The others owe nothing, and neither does the signal.    *)
(***************************************************************************)
Fairness ==
  /\ WF_vars(StartHeartBeat) /\ WF_vars(TakeTick) /\ WF_vars(FreeSlots)
  /\ WF_vars(Tick)
  /\ \A a \in Apis : WF_vars(Fetch(a))
  /\ \A a \in Reachable : SF_vars(Answered(a))

FairSpec == Spec /\ Fairness

--------------------------------------------------------------------------------
(* Properties *)

Numbers == [NumActiveJobs : 0..NumWorkers, NumFreeSlots : 0..NumWorkers]

TypeOK ==
  /\ active \in 0..NumWorkers /\ C \in Numbers
  /\ pc \in {"start", "refused", "select", "slots", "fetch", "returned"}
  /\ comms \in Seq(Apis) /\ pos \in 0..Len(comms)
  /\ ticked \in BOOLEAN /\ ctxDone \in BOOLEAN
  /\ told \in [Apis -> Numbers \cup {None}] /\ answered \in Apis \cup {None}

\* The numbers an API is told belong together, whatever the workers count while the
\* heartbeat is put together and sent: as many slots are free as are not active
\* (hearbeat.go:55-60, http.go:192-202).
NumbersAgree ==
  \A a \in Apis :
    told[a] # None => told[a].NumActiveJobs + told[a].NumFreeSlots = NumWorkers

\* An API that does not fail for ever hears of the worker again and again until the
\* program is told to end, whichever of the other APIs are down and in whatever order
\* they are asked (hearbeat.go:57-66).
HeardDespiteFailures ==
  \A a \in Reachable :
    (\E i \in DOMAIN comms : comms[i] = a) ~> (answered = a \/ ctxDone)
================================================================================
