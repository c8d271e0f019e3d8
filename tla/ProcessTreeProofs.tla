--------------------------- MODULE ProcessTreeProofs ---------------------------
(***************************************************************************)
(* A stop reaches the job's descendants and nobody else, proved for any    *)
(* number of pids and whatever the host does while the processes are       *)
(* listed.                                                                 *)
(***************************************************************************)
EXTENDS ProcessTree, Induction

LEMMA PidFacts ==
  /\ Root \in Pids /\ Main \in Pids /\ Root # Main
  /\ NoPid \notin Pids /\ Pids \subseteq Nat
BY PidsAssumption DEF Pids, Root, Main, NoPid

LEMMA LeastOf ==
  ASSUME NEW S \in SUBSET Pids, S # {}
  PROVE  Least(S) \in S /\ \A q \in S : Least(S) <= q
<1>1. \E p \in S : \A q \in S : p <= q
  BY LeastNumber, PidFacts
<1> QED BY <1>1 DEF Least

LEMMA NextPidFree ==
  ASSUME Free # {}
  PROVE  NextPid \in Free /\ (Above # {} => NextPid > last)
<1>1. Free \subseteq Pids /\ Above \subseteq Free
  BY DEF Free, Above
<1>2. CASE Above # {}
  BY <1>1, <1>2, LeastOf DEF NextPid, Above
<1>3. CASE Above = {}
  BY <1>1, <1>3, LeastOf DEF NextPid
<1> QED BY <1>2, <1>3

--------------------------------------------------------------------------------
(* Below is the least set closed under the children of pid and of its members *)

Closed(table, pid, S) == \A c \in DOMAIN table : table[c] \in S \cup {pid} => c \in S

LEMMA BelowClosed ==
  ASSUME NEW table, NEW pid
  PROVE  Below(table, pid) \subseteq DOMAIN table
         /\ Closed(table, pid, Below(table, pid))
<1>1. Below(table, pid) \subseteq DOMAIN table
  BY DEF Below
<1>2. ASSUME NEW c \in DOMAIN table, table[c] \in Below(table, pid) \cup {pid}
      PROVE  c \in Below(table, pid)
  <2>1. SUFFICES ASSUME NEW S \in SUBSET DOMAIN table, Closed(table, pid, S)
                 PROVE  c \in S
    BY DEF Below, Closed
  <2>2. table[c] \in S \cup {pid}
    BY <1>2, <2>1 DEF Below, Closed
  <2> QED BY <2>1, <2>2 DEF Closed
<1> QED BY <1>1, <1>2 DEF Closed

LEMMA BelowLeast ==
  ASSUME NEW table, NEW pid, NEW S, Closed(table, pid, S)
  PROVE  Below(table, pid) \subseteq S
<1> DEFINE T == S \cap DOMAIN table
<1>1. T \in SUBSET DOMAIN table /\ Closed(table, pid, T)
  BY DEF Closed
<1>2. Below(table, pid) \subseteq T
  <2> HIDE DEF T
  <2> QED BY <1>1 DEF Below, Closed
<1> QED BY <1>2

--------------------------------------------------------------------------------
(* What a step of the host does to the table *)

LEMMA ForkTable ==
  ASSUME NEW p, Fork(p), last \in Pids
  PROVE  /\ p \in Processes /\ NextPid \in Pids \ Processes
         /\ Processes' = Processes \cup {NextPid} /\ parent'[NextPid] = p
         /\ \A q \in Processes : parent'[q] = parent[q]
         /\ last' = NextPid /\ (~wrapped' => NextPid > last /\ ~wrapped)
<1>1. NextPid \in Free /\ (Above # {} => NextPid > last)
  BY NextPidFree DEF Fork
<1>2. NextPid \in Pids \ Processes
  BY <1>1 DEF Free
<1> QED BY <1>1, <1>2 DEF Fork, Runs, Processes

LEMMA ExitTable ==
  ASSUME NEW p, Exit(p)
  PROVE  /\ p \in Processes \ {Root} /\ Processes' = Processes \ {p}
         /\ \A q \in Processes \ {p} :
              parent'[q] = IF parent[q] = p THEN Root ELSE parent[q]
BY DEF Exit, Without, Orphaned, Processes

LEMMA MainEndsTable ==
  ASSUME MainEnds
  PROVE  /\ Processes' = Processes
         /\ \A q \in Processes :
              parent'[q] = IF parent[q] = Main THEN Root ELSE parent[q]
BY DEF MainEnds, Orphaned, Processes

LEMMA WaitTable ==
  ASSUME Wait
  PROVE  /\ Processes' = Processes \ {Main}
         /\ \A q \in Processes \ {Main} : parent'[q] = parent[q]
BY DEF Wait, Without, Processes

--------------------------------------------------------------------------------
(* Types and the process table *)

\* Every process but the root has its parent in the table, what a descendant of the
\* main process starts is one too, and the main process keeps its place below the
\* root until it is waited for.
Table ==
  /\ parent[Root] = NoPid
  /\ \A p \in Processes \ {Root} : parent[p] \in Processes
  /\ Root \notin kin /\ \A p \in Processes : parent[p] \in kin => p \in kin
  /\ ~waited => Main \in kin /\ parent[Main] = Root
  /\ ~mainLives /\ ~waited => \A p \in Processes : parent[p] # Main
  /\ waited => ~mainLives
  /\ waited /\ Main \in Processes => reused
  /\ Main \notin standing

\* What stopProcess holds where it is.
Phases ==
  /\ pc \in {"idle", "kill"} => list = << >> /\ pos = NoPid
  /\ pc = "idle" => children = {} /\ victims = {} /\ ~refused
  /\ pc \in {"list", "kill"} => victims = {}

Shape == TypeOK /\ Table /\ Phases

LEMMA ShapeInit == Init => Shape
<1> SUFFICES ASSUME Init PROVE Shape
  OBVIOUS
<1>1. Processes = {Root, Main} /\ parent[Root] = NoPid /\ parent[Main] = Root
  BY PidFacts DEF Init, Processes
<1>2. DOMAIN << >> = {}
  OBVIOUS
<1>3. TypeOK
  BY <1>1, <1>2, PidFacts DEF Init, TypeOK
<1>4. Table
  BY <1>1, PidFacts DEF Init, Table
<1>5. Phases
  BY DEF Init, Phases
<1> QED BY <1>3, <1>4, <1>5 DEF Shape

LEMMA ForkShape ==
  ASSUME Shape, NEW p, Fork(p)
  PROVE  Shape'
<1> DEFINE n == NextPid
<1>1. last \in Pids
  BY DEF Shape, TypeOK
<1>2. /\ p \in Processes /\ n \in Pids \ Processes
      /\ Processes' = Processes \cup {n} /\ parent'[n] = p
      /\ \A q \in Processes : parent'[q] = parent[q]
      /\ last' = n
  BY <1>1, ForkTable
<1>3. /\ kin' = (IF p \in kin THEN kin \cup {n} ELSE kin)
      /\ reused' = (reused \/ n \in seen \cup {Main})
      /\ seen' = IF Stopping /\ ~reused' THEN seen \cup {n} ELSE {}
      /\ wrapped' = (wrapped \/ Above = {})
      /\ UNCHANGED <<mainLives, waited, stopVars, standing>>
      /\ Runs(p)
  BY DEF Fork
<1> HIDE DEF n
<1>4. TypeOK'
  <2>1. /\ Processes' \subseteq Pids /\ Root \in Processes'
        /\ \A q \in Processes' : parent'[q] \in Processes' \cup {NoPid}
    BY <1>2 DEF Shape, TypeOK
  <2>2. /\ last' \in Pids /\ seen' \subseteq Pids /\ reused' \in BOOLEAN
        /\ wrapped' \in BOOLEAN
    BY <1>2, <1>3 DEF Shape, TypeOK
  <2>3. kin' \subseteq Processes' /\ standing' \subseteq kin'
    BY <1>2, <1>3 DEF Shape, TypeOK
  <2> QED BY <2>1, <2>2, <2>3, <1>3 DEF Shape, TypeOK, stopVars
<1>5. Table'
  <2>1. /\ parent'[Root] = NoPid
        /\ \A q \in Processes' \ {Root} : parent'[q] \in Processes'
    BY <1>2 DEF Shape, TypeOK, Table
  <2>2. Root \notin kin' /\ \A q \in Processes' : parent'[q] \in kin' => q \in kin'
    <3>1. Root # n /\ n \notin kin
      BY <1>2 DEF Shape, TypeOK
    <3>2. \A q \in Processes : parent[q] # n
      BY <1>2, PidFacts DEF Shape, TypeOK
    <3> QED BY <1>2, <1>3, <3>1, <3>2 DEF Shape, Table
  <2>3. ~waited' => Main \in kin' /\ parent'[Main] = Root
    BY <1>2, <1>3 DEF Shape, Table, TypeOK
  <2>4. ~mainLives' /\ ~waited' => \A q \in Processes' : parent'[q] # Main
    BY <1>2, <1>3 DEF Shape, Table, Runs
  <2>5. waited' /\ Main \in Processes' => reused'
    BY <1>2, <1>3 DEF Shape, Table
  <2> QED BY <2>1, <2>2, <2>3, <2>4, <2>5, <1>3 DEF Shape, Table
<1>6. Phases'
  BY <1>3 DEF Shape, Phases, stopVars
<1> QED BY <1>4, <1>5, <1>6 DEF Shape

LEMMA ExitShape ==
  ASSUME Shape, NEW p, Exit(p)
  PROVE  Shape'
<1>1. /\ p \in Processes \ {Root} /\ Processes' = Processes \ {p}
      /\ \A q \in Processes \ {p} :
            parent'[q] = IF parent[q] = p THEN Root ELSE parent[q]
  BY ExitTable
<1>2. /\ kin' = kin \ {p} /\ standing' = standing \ Fallen(p) /\ p \in Fallen(p)
      /\ (p = Main => waited)
      /\ UNCHANGED <<last, mainLives, waited, stopVars, seen, reused, wrapped>>
  BY DEF Exit, Fallen
<1>3. TypeOK'
  <2>1. /\ Processes' \subseteq Pids /\ Root \in Processes'
        /\ \A q \in Processes' : parent'[q] \in Processes' \cup {NoPid}
    BY <1>1 DEF Shape, TypeOK
  <2>2. kin' \subseteq Processes' /\ standing' \subseteq kin'
    BY <1>1, <1>2 DEF Shape, TypeOK
  <2> QED BY <2>1, <2>2, <1>2 DEF Shape, TypeOK, stopVars
<1>4. Table'
  <2>1. /\ parent'[Root] = NoPid
        /\ \A q \in Processes' \ {Root} : parent'[q] \in Processes'
    BY <1>1, PidFacts DEF Shape, TypeOK, Table
  <2>2. Root \notin kin' /\ \A q \in Processes' : parent'[q] \in kin' => q \in kin'
    BY <1>1, <1>2 DEF Shape, Table
  <2>3. ~waited' => Main \in kin' /\ parent'[Main] = Root
    BY <1>1, <1>2 DEF Shape, Table, TypeOK
  <2>4. ~mainLives' /\ ~waited' => \A q \in Processes' : parent'[q] # Main
    BY <1>1, <1>2, PidFacts DEF Shape, Table
  <2>5. waited' /\ Main \in Processes' => reused'
    BY <1>1, <1>2 DEF Shape, Table
  <2> QED BY <2>1, <2>2, <2>3, <2>4, <2>5, <1>2 DEF Shape, Table
<1>5. Phases'
  BY <1>2 DEF Shape, Phases, stopVars
<1> QED BY <1>3, <1>4, <1>5 DEF Shape

\* MainEnds, up to what stopProcess does with it.
LEMMA MainEndsShape ==
  ASSUME Shape, MainEnds, mainLives
  PROVE  /\ Table'
         /\ Processes' \subseteq Pids /\ Root \in Processes'
         /\ \A q \in Processes' : parent'[q] \in Processes' \cup {NoPid}
         /\ standing' \subseteq kin' /\ kin' \subseteq Processes'
<1>1. /\ Processes' = Processes
      /\ \A q \in Processes :
            parent'[q] = IF parent[q] = Main THEN Root ELSE parent[q]
  BY MainEndsTable
<1>2. /\ ~mainLives' /\ standing' \subseteq standing
      /\ UNCHANGED <<last, waited, kin, wrapped, seen, reused>>
  BY DEF MainEnds
<1>3. /\ Processes' \subseteq Pids /\ Root \in Processes'
      /\ \A q \in Processes' : parent'[q] \in Processes' \cup {NoPid}
      /\ standing' \subseteq kin' /\ kin' \subseteq Processes'
  BY <1>1, <1>2 DEF Shape, TypeOK
<1>4. Table'
  <2>1. /\ parent'[Root] = NoPid
        /\ \A q \in Processes' \ {Root} : parent'[q] \in Processes'
    BY <1>1, PidFacts DEF Shape, TypeOK, Table
  <2>2. Root \notin kin' /\ \A q \in Processes' : parent'[q] \in kin' => q \in kin'
    BY <1>1, <1>2 DEF Shape, Table
  <2>3. ~waited' => Main \in kin' /\ parent'[Main] = Root
    BY <1>1, <1>2, PidFacts DEF Shape, Table, TypeOK
  <2>4. ~mainLives' /\ ~waited' => \A q \in Processes' : parent'[q] # Main
    BY <1>1, <1>2, PidFacts
  <2>5. waited' /\ Main \in Processes' => reused'
    BY <1>1, <1>2 DEF Shape, Table
  <2> QED BY <2>1, <2>2, <2>3, <2>4, <2>5, <1>2 DEF Shape, Table
<1> QED BY <1>3, <1>4

LEMMA WaitShape ==
  ASSUME Shape, Wait
  PROVE  Shape'
<1>1. /\ Processes' = Processes \ {Main}
      /\ \A q \in Processes \ {Main} : parent'[q] = parent[q]
  BY WaitTable
<1>2. /\ ~mainLives /\ ~waited /\ waited' = TRUE /\ kin' = kin \ {Main}
      /\ UNCHANGED <<last, mainLives, wrapped, stopVars, watchVars>>
  BY DEF Wait
<1>3. \A q \in Processes : parent[q] # Main
  BY <1>2 DEF Shape, Table
<1>4. TypeOK'
  <2>1. /\ Processes' \subseteq Pids /\ Root \in Processes'
        /\ \A q \in Processes' : parent'[q] \in Processes' \cup {NoPid}
    BY <1>1, <1>3, PidFacts DEF Shape, TypeOK
  <2>2. kin' \subseteq Processes' /\ standing' \subseteq kin'
    BY <1>1, <1>2 DEF Shape, TypeOK, Table, watchVars
  <2> QED BY <2>1, <2>2, <1>2 DEF Shape, TypeOK, stopVars, watchVars
<1>5. Table'
  <2>1. /\ parent'[Root] = NoPid
        /\ \A q \in Processes' \ {Root} : parent'[q] \in Processes'
    BY <1>1, <1>3, PidFacts DEF Shape, TypeOK, Table
  <2>2. Root \notin kin' /\ \A q \in Processes' : parent'[q] \in kin' => q \in kin'
    BY <1>1, <1>2 DEF Shape, Table
  <2> QED BY <2>1, <2>2, <1>1, <1>2 DEF Shape, Table, watchVars
<1>6. Phases'
  BY <1>2 DEF Shape, Phases, stopVars
<1> QED BY <1>4, <1>5, <1>6 DEF Shape

LEMMA QuietTable ==
  ASSUME Shape, UNCHANGED tableVars, UNCHANGED <<standing, reused>>
  PROVE  Table' /\ Processes' = Processes
BY DEF Shape, Table, tableVars, Processes

\* The main process with its kin is closed, so that what is below it is its kin.
LEMMA BelowMain ==
  ASSUME Shape, ~waited
  PROVE  Below(parent, Main) \subseteq kin \ {Main}
<1>1. Closed(parent, Main, kin \ {Main})
  BY PidFacts DEF Shape, Table, Closed, Processes
<1> QED BY <1>1, BelowLeast

LEMMA LeastUnread ==
  ASSUME Shape, Unread # {}
  PROVE  /\ Least(Unread) \in Processes /\ Least(Unread) \in Pids
         /\ Least(Unread) > pos
         /\ \A q \in Processes : q < Least(Unread) => q <= pos
<1>1. Processes \subseteq Pids /\ Pids \subseteq Nat /\ pos \in Nat
  <2>1. pos \in Pids \cup {NoPid} /\ Processes \subseteq Pids
    BY DEF Shape, TypeOK
  <2> QED BY <2>1, PidFacts DEF NoPid
<1>2. Least(Unread) \in Unread /\ \A q \in Unread : Least(Unread) <= q
  <2>1. Unread \in SUBSET Pids
    BY <1>1 DEF Unread
  <2> QED BY <2>1, LeastOf
<1>3. Least(Unread) \in Processes /\ Least(Unread) > pos
  BY <1>2 DEF Unread
<1>4. ASSUME NEW q \in Processes, q < Least(Unread), ~(q <= pos) PROVE FALSE
  <2>1. q \in Nat /\ Least(Unread) \in Nat
    BY <1>1, <1>3
  <2>2. q \in Unread
    BY <1>1, <1>4, <2>1 DEF Unread
  <2> HIDE DEF Least
  <2> QED BY <1>2, <1>4, <2>1, <2>2
<1> QED BY <1>1, <1>3, <1>4

LEMMA KillMainShape ==
  ASSUME Shape, KillMain
  PROVE  Shape'
<1>1. /\ pc = "kill" /\ pc' = "again"
      /\ UNCHANGED <<pos, list, children, refused, unlisted, victims, signalled,
                     strays>>
  BY DEF KillMain
<1>2. Phases'
  BY <1>1 DEF Shape, Phases
<1>3. CASE mainLives
  <2>1. MainEnds
    BY <1>3 DEF KillMain
  <2>2. ~mainLives' /\ UNCHANGED <<last, waited, wrapped, seen, reused>>
    BY <2>1 DEF MainEnds
  <2>3. mainLives' \in BOOLEAN
    BY <2>1 DEF MainEnds
  <2>4. TypeOK'
    BY <1>1, <1>3, <2>1, <2>2, <2>3, MainEndsShape DEF Shape, TypeOK
  <2> QED BY <1>2, <1>3, <2>1, <2>4, MainEndsShape DEF Shape
<1>4. CASE ~mainLives
  <2>1. UNCHANGED <<tableVars, watchVars>>
    BY <1>4 DEF KillMain
  <2>2. TypeOK'
    BY <1>1, <2>1 DEF Shape, TypeOK, tableVars, watchVars, Processes
  <2>3. Table'
    BY <2>1, QuietTable DEF watchVars
  <2> QED BY <1>2, <2>2, <2>3 DEF Shape
<1> QED BY <1>3, <1>4

LEMMA StopBeginsShape ==
  ASSUME Shape, StopBegins
  PROVE  Shape'
<1>1. /\ pc = "idle" /\ pc' = "list"
      /\ standing' = (IF waited THEN {} ELSE Below(parent, Main))
      /\ seen' = (IF reused THEN {} ELSE Processes)
      /\ UNCHANGED <<tableVars, pos, list, children, refused, unlisted, victims,
                     signalled, strays, reused>>
  BY DEF StopBegins
<1>2. standing' \subseteq kin \ {Main}
  BY <1>1, BelowMain
<1>3. Processes' = Processes /\ kin' = kin
  BY <1>1 DEF tableVars, Processes
<1>4. TypeOK'
  <2>1. standing' \subseteq kin' /\ seen' \subseteq Pids
    BY <1>1, <1>2, <1>3 DEF Shape, TypeOK
  <2> QED BY <1>1, <1>3, <2>1 DEF Shape, TypeOK, tableVars
<1>5. Table'
  BY <1>1, <1>2, <1>3 DEF Shape, Table, tableVars
<1>6. Phases'
  BY <1>1 DEF Shape, Phases
<1> QED BY <1>4, <1>5, <1>6 DEF Shape

\* The steps of stopProcess that leave the table alone.
Quiet ==
  ReadStat \/ ListFails \/ NewProcessTree \/ ListAgain \/ ListedAgain
  \/ ListAgainFails \/ Signal \/ StopEnds

LEMMA QuietUnchanged == Quiet => UNCHANGED <<tableVars, watchVars>>
BY DEF Quiet, ReadStat, ListFails, NewProcessTree, ListAgain, ListedAgain,
       ListAgainFails, Signal, StopEnds

LEMMA QuietTypes ==
  ASSUME Shape, Quiet
  PROVE  /\ pc' \in {"idle", "list", "overflow", "kill", "again", "signal", "done"}
         /\ pos' \in Pids \cup {NoPid}
         /\ DOMAIN list' \subseteq Pids
         /\ \A p \in DOMAIN list' : list'[p] \in Pids \cup {NoPid}
         /\ children' \subseteq Pids /\ (refused' => children' = {})
         /\ victims' \subseteq Pids /\ refused' \in BOOLEAN /\ unlisted' \in BOOLEAN
         /\ signalled' \subseteq Pids /\ strays' \subseteq signalled'
         /\ Phases'
<1> DEFINE Types ==
      /\ pc' \in {"idle", "list", "overflow", "kill", "again", "signal", "done"}
      /\ pos' \in Pids \cup {NoPid}
      /\ DOMAIN list' \subseteq Pids
      /\ \A p \in DOMAIN list' : list'[p] \in Pids \cup {NoPid}
      /\ children' \subseteq Pids /\ (refused' => children' = {})
      /\ victims' \subseteq Pids /\ refused' \in BOOLEAN /\ unlisted' \in BOOLEAN
      /\ signalled' \subseteq Pids /\ strays' \subseteq signalled'
<1>1. DOMAIN << >> = {}
  OBVIOUS
<1>2. CASE ReadStat
  <2>1. /\ pc = "list" /\ pos' = Least(Unread) /\ Unread # {}
        /\ DOMAIN list' = DOMAIN list \cup {pos'} /\ list'[pos'] = parent[pos']
        /\ \A p \in DOMAIN list \ {pos'} : list'[p] = list[p]
        /\ UNCHANGED <<pc, children, refused, unlisted, victims, signalled, strays>>
    BY <1>2 DEF ReadStat
  <2>2. pos' \in Processes /\ pos' \in Pids
    BY <2>1, LeastUnread
  <2>3. \A p \in DOMAIN list' : list'[p] \in Pids \cup {NoPid}
    BY <2>1, <2>2 DEF Shape, TypeOK
  <2>4. Phases'
    BY <2>1 DEF Shape, Phases
  <2> QED BY <2>1, <2>2, <2>3, <2>4 DEF Shape, TypeOK
<1>3. CASE ListFails
  <2>1. /\ pc = "list" /\ unlisted' = TRUE
        /\ pc' = "kill" /\ list' = << >> /\ pos' = NoPid
        /\ UNCHANGED <<children, refused, victims, signalled, strays>>
    BY <1>3 DEF ListFails
  <2>2. Phases'
    BY <2>1 DEF Shape, Phases
  <2> QED BY <1>1, <2>1, <2>2 DEF Shape, TypeOK
<1>4. CASE NewProcessTree
  <2>1. /\ pc = "list" /\ refused' = (Parentless(list) # {})
        /\ children' = (IF refused' THEN {} ELSE Get(list, Main))
        /\ pc' = (IF Main \in children' THEN "overflow" ELSE "kill")
        /\ list' = << >> /\ pos' = NoPid
        /\ UNCHANGED <<unlisted, victims, signalled, strays>>
    BY <1>4 DEF NewProcessTree
  <2>2. Get(list, Main) \subseteq DOMAIN list
    BY BelowClosed DEF Get
  <2>3. children' \subseteq Pids /\ (refused' => children' = {})
    BY <2>1, <2>2 DEF Shape, TypeOK
  <2>4. Phases'
    BY <2>1 DEF Shape, Phases
  <2> QED BY <1>1, <2>1, <2>3, <2>4 DEF Shape, TypeOK
<1>5. CASE ListAgain
  <2>1. /\ pc = "again" /\ pos' = Least(Unread) /\ Unread # {}
        /\ victims' = victims \cup ToSignal(pos')
        /\ UNCHANGED <<pc, list, children, refused, unlisted, signalled, strays>>
    BY <1>5 DEF ListAgain
  <2>2. pos' \in Pids
    BY <2>1, LeastUnread
  <2>3. Phases'
    BY <2>1 DEF Shape, Phases
  <2> QED BY <2>1, <2>2, <2>3 DEF Shape, TypeOK, ToSignal
<1>6. CASE ListedAgain
  <2>1. /\ pc = "again" /\ pc' = "signal" /\ pos' = NoPid /\ children' = {}
        /\ UNCHANGED <<list, refused, unlisted, victims, signalled, strays>>
    BY <1>6 DEF ListedAgain
  <2>2. Phases'
    BY <2>1 DEF Shape, Phases
  <2> QED BY <2>1, <2>2 DEF Shape, TypeOK
<1>7. CASE ListAgainFails
  <2>1. /\ pc = "again" /\ unlisted' = TRUE /\ pc' = "done" /\ pos' = NoPid
        /\ children' = {} /\ victims' = {}
        /\ UNCHANGED <<list, refused, signalled, strays>>
    BY <1>7 DEF ListAgainFails
  <2>2. Phases'
    BY <2>1 DEF Shape, Phases
  <2> QED BY <2>1, <2>2 DEF Shape, TypeOK
<1>8. CASE Signal
  <2> DEFINE p == Least(victims)
  <2>1. /\ pc = "signal" /\ victims' = victims \ {p}
        /\ signalled' = signalled \cup ({p} \cap Processes)
        /\ strays' = strays \cup (({p} \cap Processes) \ kin)
        /\ UNCHANGED <<pc, pos, list, children, refused, unlisted>>
    BY <1>8 DEF Signal
  <2> HIDE DEF p
  <2>2. Phases'
    BY <2>1 DEF Shape, Phases
  <2>3. signalled' \subseteq Pids /\ strays' \subseteq signalled'
    BY <2>1 DEF Shape, TypeOK
  <2> QED BY <2>1, <2>2, <2>3 DEF Shape, TypeOK
<1>9. CASE StopEnds
  <2>1. /\ pc = "signal" /\ pc' = "done"
        /\ UNCHANGED <<pos, list, children, refused, unlisted, victims, signalled,
                       strays>>
    BY <1>9 DEF StopEnds
  <2>2. Phases'
    BY <2>1 DEF Shape, Phases
  <2> QED BY <2>1, <2>2 DEF Shape, TypeOK
<1> QED BY <1>2, <1>3, <1>4, <1>5, <1>6, <1>7, <1>8, <1>9 DEF Quiet

LEMMA QuietShape == Shape /\ Quiet => Shape'
<1> SUFFICES ASSUME Shape, Quiet PROVE Shape'
  OBVIOUS
<1>1. UNCHANGED <<tableVars, watchVars>>
  BY QuietUnchanged
<1>2. Table' /\ Processes' = Processes
  BY <1>1, QuietTable DEF watchVars
<1>3. TypeOK'
  BY <1>1, <1>2, QuietTypes DEF Shape, TypeOK, tableVars, watchVars
<1> QED BY <1>2, <1>3, QuietTypes DEF Shape

LEMMA MainExitsShape ==
  ASSUME Shape, MainExits
  PROVE  Shape'
<1>1. MainEnds /\ mainLives /\ UNCHANGED stopVars
  BY DEF MainExits
<1>2. mainLives' \in BOOLEAN /\ UNCHANGED <<last, waited, wrapped, seen, reused>>
  BY <1>1 DEF MainEnds
<1>3. TypeOK'
  BY <1>1, <1>2, MainEndsShape DEF Shape, TypeOK, stopVars
<1>4. Phases'
  BY <1>1 DEF Shape, Phases, stopVars
<1> QED BY <1>1, <1>3, <1>4, MainEndsShape DEF Shape

\* The kinds of steps there are.
LEMMA Steps ==
  ASSUME [Next]_vars
  PROVE  \/ pc \notin {"done", "overflow"} /\ \E p \in Processes : Fork(p) \/ Exit(p)
         \/ pc \notin {"done", "overflow"} /\ (MainExits \/ Wait)
         \/ StopBegins \/ KillMain \/ Quiet \/ UNCHANGED vars
BY DEF Next, Host, stopProcess, Stopped, Quiet

LEMMA UnchangedShape == Shape /\ UNCHANGED vars => Shape'
<1> SUFFICES ASSUME Shape, UNCHANGED vars PROVE Shape'
  OBVIOUS
<1>1. UNCHANGED tableVars /\ UNCHANGED stopVars /\ UNCHANGED watchVars
  BY DEF vars
<1>2. Table' /\ Processes' = Processes
  BY <1>1, QuietTable DEF watchVars
<1>3. TypeOK'
  BY <1>1, <1>2 DEF Shape, TypeOK, tableVars, stopVars, watchVars
<1>4. Phases'
  BY <1>1 DEF Shape, Phases, stopVars
<1> QED BY <1>2, <1>3, <1>4 DEF Shape

LEMMA ShapeStep == Shape /\ [Next]_vars => Shape'
BY Steps, ForkShape, ExitShape, MainExitsShape, WaitShape, StopBeginsShape,
   KillMainShape, QuietShape, UnchangedShape

\* The process table is a tree at every step of the host, and stopProcess holds pids
\* of it (processtree.go, job.go:208-262).
THEOREM TypeCorrect == Spec => []TypeOK
<1>1. Shape => TypeOK
  BY DEF Shape
<1> QED BY ShapeInit, ShapeStep, <1>1, PTL DEF Spec
--------------------------------------------------------------------------------
(* The tree is refused only after pids have started again *)

\* Until then a parent has a lower pid than its children, so it is read before them
\* or has ended before.
Growing ==
  /\ refused => wrapped
  /\ ~wrapped =>
       /\ pos <= last
       /\ \A p \in Processes : p <= last /\ parent[p] < p
       /\ pc = "list" =>
            /\ \A q \in Processes : q <= pos => q \in DOMAIN list
            /\ \A p \in DOMAIN list : list[p] = NoPid \/ list[p] \in DOMAIN list

LEMMA Numbers ==
  ASSUME Shape
  PROVE  /\ pos \in Nat /\ last \in Nat /\ Processes \subseteq Nat \ {0}
         /\ \A p \in Processes : parent[p] \in Nat
         /\ \A p \in Processes : p # Root => Root < p
<1>1. pos \in Pids \cup {NoPid} /\ last \in Pids /\ Processes \subseteq Pids
      /\ \A p \in Processes : parent[p] \in Processes \cup {NoPid}
  BY DEF Shape, TypeOK
<1>2. /\ Pids \subseteq Nat /\ NoPid \in Nat
      /\ \A p \in Pids : p # 0 /\ (p # Root => Root < p)
  BY PidsAssumption DEF Pids, Root, Main, NoPid
<1> QED BY <1>1, <1>2

LEMMA GrowingInit == Init => Growing
<1> SUFFICES ASSUME Init PROVE Growing
  OBVIOUS
<1>1. Processes = {Root, Main} /\ parent[Root] = NoPid /\ parent[Main] = Root
  BY PidFacts DEF Init, Processes
<1> QED BY <1>1 DEF Init, Growing, Root, Main, NoPid

\* A step that takes processes out of the table, or gives them to the root.
LEMMA GrowingTable ==
  ASSUME Shape, Growing, Processes' \subseteq Processes,
         \A q \in Processes' :
           parent'[q] = parent[q] \/ (parent'[q] = Root /\ parent[q] # NoPid),
         UNCHANGED <<last, wrapped, refused, pos, list>>, pc' = "list" => pc = "list"
  PROVE  Growing'
<1>1. ASSUME ~wrapped, NEW p \in Processes' PROVE p <= last /\ parent'[p] < p
  <2>1. p \in Processes /\ p <= last /\ parent[p] < p
    BY <1>1 DEF Growing
  <2>2. parent[p] # NoPid => p # Root
    BY DEF Shape, Table
  <2> QED BY <2>1, <2>2, Numbers
<1> QED BY <1>1 DEF Growing

LEMMA GrowingFork ==
  ASSUME Shape, Growing, NEW p, Fork(p)
  PROVE  Growing'
<1> DEFINE n == NextPid
<1>1. last \in Pids
  BY DEF Shape, TypeOK
<1>2. /\ p \in Processes /\ n \in Pids \ Processes
      /\ Processes' = Processes \cup {n} /\ parent'[n] = p
      /\ \A q \in Processes : parent'[q] = parent[q]
      /\ last' = n /\ (~wrapped' => n > last /\ ~wrapped)
  BY <1>1, ForkTable
<1>3. UNCHANGED <<pc, pos, list, refused>> /\ (wrapped => wrapped')
  BY DEF Fork, stopVars
<1> HIDE DEF n
<1>4. n \in Nat
  BY <1>2, PidFacts
<1> SUFFICES ASSUME ~wrapped' PROVE Growing'
  BY <1>3 DEF Growing
<1>5. n > last /\ ~wrapped
  BY <1>2
<1>6. pos <= last'
  BY <1>2, <1>4, <1>5, Numbers DEF Growing
<1>7. \A q \in Processes' : q <= last' /\ parent'[q] < q
  <2>1. p <= last
    BY <1>2, <1>5 DEF Growing
  <2>2. p < n
    BY <2>1, <1>2, <1>4, <1>5, Numbers
  <2>3. \A q \in Processes : q <= n /\ parent'[q] < q
    BY <1>2, <1>4, <1>5, Numbers DEF Growing
  <2> QED BY <1>2, <1>4, <2>2, <2>3
<1>8. ~(n <= pos)
  BY <1>4, <1>5, Numbers DEF Growing
<1>9. pc = "list" => \A q \in Processes' : q <= pos => q \in DOMAIN list
  BY <1>2, <1>5, <1>8 DEF Growing
<1> QED BY <1>3, <1>5, <1>6, <1>7, <1>9 DEF Growing

LEMMA GrowingQuiet ==
  ASSUME Shape, Growing, Quiet
  PROVE  Growing'
<1>1. UNCHANGED <<parent, last, wrapped>> /\ Processes' = Processes
  BY QuietUnchanged DEF tableVars, Processes
<1>2. CASE ReadStat
  <2>1. /\ pc = "list" /\ pos' = Least(Unread) /\ Unread # {}
        /\ DOMAIN list' = DOMAIN list \cup {pos'} /\ list'[pos'] = parent[pos']
        /\ \A p \in DOMAIN list \ {pos'} : list'[p] = list[p]
        /\ UNCHANGED <<pc, refused>>
    BY <1>2 DEF ReadStat
  <2>2. /\ pos' \in Processes /\ pos' > pos
        /\ \A q \in Processes : q < pos' => q <= pos
    BY <2>1, LeastUnread
  <2> SUFFICES ASSUME ~wrapped PROVE Growing'
    BY <1>1, <2>1 DEF Growing
  <2>3. pos' <= last /\ parent[pos'] < pos'
    BY <2>2 DEF Growing
  <2>4. \A q \in Processes : q <= pos' => q \in DOMAIN list'
    BY <2>1, <2>2, Numbers DEF Growing
  <2>5. list'[pos'] = NoPid \/ list'[pos'] \in DOMAIN list'
    <3>1. parent[pos'] \in Processes \cup {NoPid}
      BY <2>2 DEF Shape, TypeOK
    <3>2. parent[pos'] \in Processes => parent[pos'] <= pos'
      BY <2>2, <2>3, Numbers
    <3> QED BY <2>1, <2>4, <3>1, <3>2
  <2>6. \A p \in DOMAIN list' : list'[p] = NoPid \/ list'[p] \in DOMAIN list'
    BY <2>1, <2>5 DEF Growing
  <2> QED BY <1>1, <2>1, <2>3, <2>4, <2>6 DEF Growing
<1>3. CASE NewProcessTree
  <2>1. /\ refused' = (Parentless(list) # {}) /\ pc = "list" /\ pos' = NoPid
        /\ pc' \in {"overflow", "kill"}
    BY <1>3 DEF NewProcessTree
  <2>2. ~wrapped => Parentless(list) = {}
    BY <2>1 DEF Growing, Parentless
  <2>3. NoPid <= last
    BY Numbers DEF NoPid
  <2> QED BY <1>1, <2>1, <2>2, <2>3 DEF Growing
<1>4. CASE ListAgain
  <2>1. /\ pc = "again" /\ pos' = Least(Unread) /\ Unread # {}
        /\ UNCHANGED <<pc, refused>>
    BY <1>4 DEF ListAgain
  <2>2. pos' \in Processes
    BY <2>1, LeastUnread
  <2> QED BY <1>1, <2>1, <2>2 DEF Growing
<1>5. CASE ListFails \/ ListedAgain \/ ListAgainFails \/ Signal \/ StopEnds
  <2>1. /\ pos' \in {pos, NoPid} /\ refused' = refused /\ pc' # "list"
    BY <1>5 DEF ListFails, ListedAgain, ListAgainFails, Signal, StopEnds
  <2>2. NoPid <= last
    BY Numbers DEF NoPid
  <2> QED BY <1>1, <2>1, <2>2 DEF Growing
<1> QED BY <1>2, <1>3, <1>4, <1>5 DEF Quiet

LEMMA GrowingStep == Shape /\ Growing /\ [Next]_vars => Growing'
<1> SUFFICES ASSUME Shape, Growing, [Next]_vars PROVE Growing'
  OBVIOUS
<1>1. ASSUME NEW p \in Processes, Exit(p) PROVE Growing'
  <2>1. /\ Processes' \subseteq Processes
        /\ \A q \in Processes' :
             parent'[q] = parent[q] \/ (parent'[q] = Root /\ parent[q] # NoPid)
    <3>1. Processes' = Processes \ {p} /\ \A q \in Processes \ {p} :
            parent'[q] = IF parent[q] = p THEN Root ELSE parent[q]
      BY <1>1, ExitTable
    <3>2. p # NoPid
      BY PidFacts DEF Shape, TypeOK
    <3> QED BY <3>1, <3>2
  <2>2. UNCHANGED <<last, wrapped, pc, refused, pos, list>>
    BY <1>1 DEF Exit, stopVars
  <2> QED BY <2>1, <2>2, GrowingTable
<1>2. ASSUME MainEnds, UNCHANGED <<refused, pos, list>>, pc' # "list" \/ pc = "list"
      PROVE  Growing'
  <2>1. /\ Processes' \subseteq Processes
        /\ \A q \in Processes' :
             parent'[q] = parent[q] \/ (parent'[q] = Root /\ parent[q] # NoPid)
    BY <1>2, MainEndsTable, PidFacts
  <2>2. UNCHANGED <<last, wrapped>>
    BY <1>2 DEF MainEnds
  <2> QED BY <1>2, <2>1, <2>2, GrowingTable
<1>3. CASE MainExits
  BY <1>2, <1>3 DEF MainExits, stopVars
<1>4. CASE Wait
  <2>1. /\ Processes' \subseteq Processes
        /\ \A q \in Processes' : parent'[q] = parent[q]
    BY <1>4, WaitTable
  <2>2. UNCHANGED <<last, wrapped, pc, refused, pos, list>>
    BY <1>4 DEF Wait, stopVars
  <2> QED BY <2>1, <2>2, GrowingTable
<1>5. CASE StopBegins
  <2>1. /\ pc = "idle" /\ UNCHANGED <<parent, last, wrapped, refused, pos, list>>
    BY <1>5 DEF StopBegins, tableVars
  <2>2. list = << >> /\ pos = NoPid /\ Processes' = Processes
    BY <2>1 DEF Shape, Phases, Processes
  <2>3. \A q \in Processes : ~(q <= pos)
    BY <2>2, Numbers DEF NoPid
  <2>4. DOMAIN list = {}
    BY <2>2
  <2> QED BY <2>1, <2>2, <2>3, <2>4 DEF Growing
<1>6. CASE KillMain
  <2>1. pc' = "again" /\ UNCHANGED <<refused, pos, list>>
    BY <1>6 DEF KillMain
  <2>2. CASE mainLives
    BY <1>2, <1>6, <2>1, <2>2 DEF KillMain
  <2>3. CASE ~mainLives
    <3>1. UNCHANGED <<parent, last, wrapped>> /\ Processes' = Processes
      BY <1>6, <2>3 DEF KillMain, tableVars, Processes
    <3> QED BY <2>1, <3>1, GrowingTable
  <2> QED BY <2>2, <2>3
<1>7. CASE UNCHANGED vars
  <2>1. /\ UNCHANGED <<parent, last, wrapped, pc, refused, pos, list>>
        /\ Processes' = Processes
    BY <1>7 DEF vars, tableVars, stopVars, Processes
  <2> QED BY <2>1, GrowingTable
<1> QED BY <1>1, <1>3, <1>4, <1>5, <1>6, <1>7, GrowingFork, GrowingQuiet, Steps

\* NewProcessTree gives up for a missing parent only when pids have started again
\* from the lowest (processtree.go:57-62).
THEOREM RefusedOnlyAfterWrap == Spec => []RefusedAfterWrap
<1>1. Growing => RefusedAfterWrap
  BY DEF Growing, RefusedAfterWrap
<1> QED BY ShapeInit, ShapeStep, GrowingInit, GrowingStep, <1>1, PTL DEF Spec
--------------------------------------------------------------------------------
(* Nobody else is signalled *)

\* As long as no pid that the stop may have seen is reused, G holds whoever is or was
\* the job's and was seen; what was read of the others does not lead into it.
Traced(G) ==
  /\ kin \cup {Main} \subseteq G /\ Root \notin G
  /\ G \cap Processes \subseteq kin
  /\ Stopping => /\ Processes \subseteq seen /\ G \subseteq seen \cup {Main}
                 /\ \A c \in DOMAIN list : list[c] \in seen \cup {NoPid}
  /\ \A c \in DOMAIN list : list[c] \in G => c \in G
  /\ Main \in DOMAIN list => list[Main] = Root
  /\ children \cup victims \subseteq G

Lineage ==
  ~reused =>
    /\ strays = {} /\ pc # "overflow"
    /\ pc # "idle" => \E G \in SUBSET Pids : Traced(G)

\* A step that takes processes out of the table, or gives them to the root.
LEMMA LineageTable ==
  ASSUME Lineage, Processes' \subseteq Processes, kin' \subseteq kin,
         kin \cap Processes' \subseteq kin', Stopping' => Stopping,
         pc' # "overflow", pc' # "idle" => pc # "idle",
         UNCHANGED <<list, children, victims, strays, seen, reused>>
  PROVE  Lineage'
<1>1. SUFFICES ASSUME ~reused, pc' # "idle"
               PROVE  \E G \in SUBSET Pids : Traced(G)'
  BY DEF Lineage
<1>2. PICK G \in SUBSET Pids : Traced(G)
  BY <1>1 DEF Lineage
<1>3. Traced(G)'
  BY <1>2 DEF Traced
<1> QED BY <1>3

LEMMA LineageFork ==
  ASSUME Shape, Lineage, NEW p, Fork(p), pc \notin {"done", "overflow"}
  PROVE  Lineage'
<1> DEFINE n == NextPid
<1>1. last \in Pids
  BY DEF Shape, TypeOK
<1>2. /\ p \in Processes /\ n \in Pids \ Processes
      /\ Processes' = Processes \cup {n}
  BY <1>1, ForkTable
<1>3. /\ kin' = (IF p \in kin THEN kin \cup {n} ELSE kin)
      /\ reused' = (reused \/ n \in seen \cup {Main})
      /\ seen' = (IF Stopping /\ ~reused' THEN seen \cup {n} ELSE {})
      /\ UNCHANGED <<pc, list, children, victims, strays>>
  BY DEF Fork, stopVars
<1> HIDE DEF n
<1>4. SUFFICES ASSUME ~reused', pc # "idle"
               PROVE  \E G \in SUBSET Pids : Traced(G)'
  BY <1>3 DEF Lineage
<1>5. ~reused /\ n \notin seen \cup {Main} /\ Stopping /\ Stopping'
  BY <1>3, <1>4 DEF Stopping
<1>6. PICK G \in SUBSET Pids : Traced(G)
  BY <1>4, <1>5 DEF Lineage
<1>7. n \notin G /\ n # Root /\ n # NoPid
  BY <1>2, <1>5, <1>6, PidFacts DEF Traced, Shape, TypeOK
<1>8. PICK H \in SUBSET Pids : H = IF p \in kin THEN G \cup {n} ELSE G
  BY <1>2
<1>9. Traced(H)'
  <2>1. kin' \cup {Main} \subseteq H /\ Root \notin H
    BY <1>3, <1>6, <1>7, <1>8 DEF Traced
  <2>2. H \cap Processes' \subseteq kin'
    BY <1>2, <1>3, <1>6, <1>7, <1>8 DEF Traced
  <2>3. /\ Processes' \subseteq seen' /\ H \subseteq seen' \cup {Main}
        /\ \A c \in DOMAIN list : list[c] \in seen' \cup {NoPid}
    BY <1>2, <1>3, <1>4, <1>5, <1>6, <1>8 DEF Traced
  <2>4. \A c \in DOMAIN list : list[c] # n
    BY <1>5, <1>6, <1>7 DEF Traced
  <2>5. \A c \in DOMAIN list : list[c] \in H => c \in H
    BY <1>6, <1>8, <2>4 DEF Traced
  <2>6. children \cup victims \subseteq H /\ (Main \in DOMAIN list => list[Main] = Root)
    BY <1>6, <1>8 DEF Traced
  <2> QED BY <1>3, <2>1, <2>2, <2>3, <2>5, <2>6 DEF Traced
<1> QED BY <1>9

LEMMA LineageStopBegins ==
  ASSUME Shape, Lineage, StopBegins
  PROVE  Lineage'
<1>1. /\ pc = "idle" /\ pc' = "list"
      /\ seen' = (IF reused THEN {} ELSE Processes)
      /\ UNCHANGED <<tableVars, list, children, victims, strays, reused>>
  BY DEF StopBegins
<1>2. SUFFICES ASSUME ~reused PROVE \E G \in SUBSET Pids : Traced(G)'
  BY <1>1 DEF Lineage
<1>3. Processes' = Processes /\ kin' = kin
  BY <1>1 DEF tableVars, Processes
<1>4. Main \in Processes => Main \in kin
  BY <1>2 DEF Shape, Table
<1>5. /\ kin \cup {Main} \in SUBSET Pids /\ Root \notin kin \cup {Main}
      /\ kin \subseteq Processes
  BY PidFacts DEF Shape, Table, TypeOK
<1>6. DOMAIN list = {} /\ children \cup victims = {}
  BY <1>1 DEF Shape, Phases
<1>7. PICK G \in SUBSET Pids : G = kin \cup {Main}
  BY <1>5
<1>8. Traced(G)'
  BY <1>1, <1>2, <1>3, <1>4, <1>5, <1>6, <1>7 DEF Traced
<1> QED BY <1>8

LEMMA LineageReadStat ==
  ASSUME Shape, Lineage, ReadStat
  PROVE  Lineage'
<1>1. /\ pc = "list" /\ pos' = Least(Unread) /\ Unread # {}
      /\ DOMAIN list' = DOMAIN list \cup {pos'} /\ list'[pos'] = parent[pos']
      /\ \A p \in DOMAIN list \ {pos'} : list'[p] = list[p]
      /\ UNCHANGED <<tableVars, watchVars, pc, children, victims, strays>>
  BY DEF ReadStat
<1>2. /\ Processes' = Processes /\ kin' = kin /\ seen' = seen /\ reused' = reused
      /\ Stopping /\ Stopping'
  BY <1>1 DEF tableVars, watchVars, Processes, Stopping
<1>3. pos' \in Processes
  BY <1>1, LeastUnread
<1>4. SUFFICES ASSUME ~reused PROVE \E G \in SUBSET Pids : Traced(G)'
  BY <1>1, <1>2 DEF Lineage
<1>5. PICK G \in SUBSET Pids : Traced(G)
  BY <1>1, <1>4 DEF Lineage
<1>6. parent[pos'] \in seen \cup {NoPid}
  BY <1>2, <1>3, <1>5 DEF Traced, Shape, TypeOK
<1>7. parent[pos'] \in G => pos' \in G
  <2>1. NoPid \notin G
    BY PidFacts
  <2>2. parent[pos'] \in G => parent[pos'] \in kin
    BY <1>3, <1>5, <2>1 DEF Traced, Shape, TypeOK
  <2>3. parent[pos'] \in kin => pos' \in kin
    BY <1>3 DEF Shape, Table
  <2> QED BY <1>5, <2>2, <2>3 DEF Traced
<1>8. pos' = Main => parent[pos'] = Root
  BY <1>3, <1>4 DEF Shape, Table
<1>9. Traced(G)'
  <2>1. \A c \in DOMAIN list' : list'[c] \in seen \cup {NoPid}
    BY <1>1, <1>2, <1>5, <1>6 DEF Traced
  <2>2. \A c \in DOMAIN list' : list'[c] \in G => c \in G
    BY <1>1, <1>5, <1>7 DEF Traced
  <2>3. Main \in DOMAIN list' => list'[Main] = Root
    BY <1>1, <1>5, <1>8 DEF Traced
  <2> QED BY <1>1, <1>2, <1>5, <2>1, <2>2, <2>3 DEF Traced
<1> QED BY <1>9

\* What hangs below the main process in the list is in G, and the main process does not.
LEMMA LineageTree ==
  ASSUME NEW G, Traced(G)
  PROVE  Get(list, Main) \subseteq G \ {Main}
<1>1. Closed(list, Main, G \ {Main})
  BY DEF Traced, Closed
<1>2. Below(list, Main) \subseteq G \ {Main}
  BY <1>1, BelowLeast
<1> QED BY <1>2 DEF Get

LEMMA LineageQuiet ==
  ASSUME Shape, Lineage, Quiet
  PROVE  Lineage'
<1>1. UNCHANGED <<kin, seen, reused>> /\ Processes' = Processes
  BY QuietUnchanged DEF tableVars, watchVars, Processes
<1>2. DOMAIN << >> = {}
  OBVIOUS
<1> SUFFICES ASSUME ~ReadStat, ~reused PROVE Lineage'
  BY <1>1, LineageReadStat DEF Lineage
<1>3. pc # "idle"
  BY DEF Quiet, ListFails, NewProcessTree, ListAgain, ListedAgain, ListAgainFails,
         Signal, StopEnds
<1>4. PICK G \in SUBSET Pids : Traced(G)
  BY <1>3 DEF Lineage
<1>5. strays = {} /\ pc # "overflow"
  BY DEF Lineage
<1>6. CASE ListFails \/ NewProcessTree
  <2>1. list' = << >> /\ UNCHANGED <<victims, strays>>
    BY <1>6 DEF ListFails, NewProcessTree
  <2>2. Stopping
    BY <1>6 DEF ListFails, NewProcessTree, Stopping
  <2>3. children' \subseteq G /\ pc' # "overflow"
    <3>1. CASE ListFails
      BY <1>4, <3>1 DEF ListFails, Traced
    <3>2. CASE NewProcessTree
      <4>1. /\ children' = (IF refused' THEN {} ELSE Get(list, Main))
            /\ pc' = (IF Main \in children' THEN "overflow" ELSE "kill")
        BY <3>2 DEF NewProcessTree
      <4> QED BY <1>4, <4>1, LineageTree
    <3> QED BY <1>6, <3>1, <3>2
  <2>4. Traced(G)'
    BY <1>1, <1>2, <1>4, <2>1, <2>2, <2>3 DEF Traced
  <2> QED BY <1>5, <2>1, <2>3, <2>4 DEF Lineage
<1>7. CASE Signal
  <2> DEFINE p == Least(victims)
  <2>1. /\ victims # {} /\ victims' = victims \ {p}
        /\ strays' = strays \cup (({p} \cap Processes) \ kin)
        /\ UNCHANGED <<pc, list, children>>
    BY <1>7 DEF Signal
  <2>2. p \in victims
    <3>1. victims \in SUBSET Pids
      BY DEF Shape, TypeOK
    <3> QED BY <2>1, <3>1, LeastOf
  <2> HIDE DEF p
  <2>3. {p} \cap Processes \subseteq kin
    BY <1>4, <2>2 DEF Traced
  <2>4. Traced(G)'
    BY <1>1, <1>4, <2>1 DEF Traced, Stopping
  <2> QED BY <1>5, <2>1, <2>3, <2>4 DEF Lineage
<1>8. CASE ListAgain
  <2>1. /\ victims' \subseteq victims \cup children
        /\ UNCHANGED <<pc, list, children, strays>>
    BY <1>8 DEF ListAgain, ToSignal
  <2>2. Traced(G)'
    BY <1>1, <1>4, <2>1 DEF Traced, Stopping
  <2> QED BY <1>5, <2>1, <2>2 DEF Lineage
<1>9. CASE ListedAgain \/ ListAgainFails \/ StopEnds
  <2>1. /\ victims' \subseteq victims /\ children' \subseteq children
        /\ Stopping /\ pc' # "overflow" /\ UNCHANGED <<list, strays>>
    BY <1>9 DEF ListedAgain, ListAgainFails, StopEnds, Stopping
  <2>2. Traced(G)'
    BY <1>1, <1>4, <2>1 DEF Traced
  <2> QED BY <1>5, <2>1, <2>2 DEF Lineage
<1> QED BY <1>6, <1>7, <1>8, <1>9 DEF Quiet

LEMMA LineageStep == Shape /\ Lineage /\ [Next]_vars => Lineage'
<1> SUFFICES ASSUME Shape, Lineage, [Next]_vars PROVE Lineage'
  OBVIOUS
<1>1. ASSUME NEW p \in Processes, pc \notin {"done", "overflow"}, Exit(p)
      PROVE  Lineage'
  <2>1. Processes' = Processes \ {p}
    BY <1>1, ExitTable
  <2>2. /\ kin' = kin \ {p}
        /\ UNCHANGED <<pc, list, children, victims, strays, seen, reused>>
    BY <1>1 DEF Exit, stopVars
  <2>3. Stopping' => Stopping
    BY <2>2 DEF Stopping
  <2> QED BY <1>1, <2>1, <2>2, <2>3, LineageTable
<1>2. ASSUME MainEnds, UNCHANGED <<list, children, victims, strays>>,
             pc \notin {"done", "overflow"}, pc' = pc \/ (pc' = "again" /\ pc = "kill")
      PROVE  Lineage'
  <2>1. Processes' = Processes /\ UNCHANGED <<kin, seen, reused>>
    BY <1>2, MainEndsTable DEF MainEnds
  <2>2. (Stopping' => Stopping) /\ pc' # "overflow" /\ (pc' # "idle" => pc # "idle")
    BY <1>2 DEF Stopping
  <2> QED BY <1>2, <2>1, <2>2, LineageTable
<1>3. CASE pc \notin {"done", "overflow"} /\ MainExits
  BY <1>2, <1>3 DEF MainExits, stopVars
<1>4. CASE pc \notin {"done", "overflow"} /\ Wait
  <2>1. Processes' = Processes \ {Main}
    BY <1>4, WaitTable
  <2>2. /\ kin' = kin \ {Main}
        /\ UNCHANGED <<pc, list, children, victims, strays, seen, reused>>
    BY <1>4 DEF Wait, stopVars, watchVars
  <2>3. Stopping' => Stopping
    BY <2>2 DEF Stopping
  <2> QED BY <1>4, <2>1, <2>2, <2>3, LineageTable
<1>5. CASE KillMain
  <2>1. pc = "kill" /\ pc' = "again" /\ UNCHANGED <<list, children, victims, strays>>
    BY <1>5 DEF KillMain
  <2>2. CASE mainLives
    BY <1>2, <1>5, <2>1, <2>2 DEF KillMain
  <2>3. CASE ~mainLives
    <3>1. UNCHANGED <<kin, seen, reused>> /\ Processes' = Processes
      BY <1>5, <2>3 DEF KillMain, tableVars, watchVars, Processes
    <3>2. Stopping
      BY <2>1 DEF Stopping
    <3> QED BY <2>1, <3>1, <3>2, LineageTable
  <2> QED BY <2>2, <2>3
<1>6. CASE UNCHANGED vars
  <2>1. /\ UNCHANGED <<pc, kin, list, children, victims, strays, seen, reused>>
        /\ Processes' = Processes
    BY <1>6 DEF vars, tableVars, stopVars, watchVars, Processes
  <2>2. Stopping' = Stopping
    BY <2>1 DEF Stopping
  <2>3. \A G : Traced(G)' = Traced(G)
    BY <2>1, <2>2 DEF Traced
  <2> QED BY <2>1, <2>3 DEF Lineage
<1> QED BY <1>1, <1>3, <1>4, <1>5, <1>6, LineageFork, LineageStopBegins, LineageQuiet,
  Steps

\* Somebody else's process gets a signal, or Get is caught in a cycle, only when a
\* pid the stop may have seen was given away in the meantime (job.go:239-247).
THEOREM OnlyOursSignalled == Spec => []OnlyOurs
<1>1. Init => Lineage
  BY DEF Init, Lineage
<1>2. Lineage => OnlyOurs
  BY DEF Lineage, OnlyOurs
<1> QED BY ShapeInit, ShapeStep, LineageStep, <1>1, <1>2, PTL DEF Spec
--------------------------------------------------------------------------------
(* Every descendant that stands is signalled *)

\* The standing descendants form a tree below the main process, of which the list
\* has what was read; later they are among those still to be signalled.
Stands ==
  /\ pc = "list" =>
       /\ \A S \in SUBSET Pids :
            (\A c \in standing : parent[c] \in S \cup {Main} => c \in S)
            => standing \subseteq S
       /\ \A c \in standing : parent[c] \in standing \cup {Main}
       /\ \A c \in standing : c <= pos => c \in DOMAIN list
       /\ \A c \in standing \cap DOMAIN list : list[c] = parent[c]
  /\ ~refused /\ ~unlisted =>
       /\ pc \in {"kill", "again"} => standing \subseteq children
       /\ pc = "again" => \A c \in standing : c <= pos => c \in victims
       /\ pc = "signal" => standing \subseteq victims \cup signalled
       /\ pc = "done" => standing \subseteq signalled

\* With a descendant all that is below it falls.
LEMMA FallenClosed ==
  ASSUME NEW p, pc = "list",
         \A c \in standing : parent[c] \in standing \cup {Main},
         standing \subseteq Processes
  PROVE  \A c \in standing \ Fallen(p) : parent[c] \notin Fallen(p) /\ parent[c] # p
<1>1. CASE p \in standing \cup {Main}
  <2>1. Fallen(p) = {p} \cup Below(parent, p)
    BY <1>1 DEF Fallen
  <2>2. \A c \in Processes :
          parent[c] \in Below(parent, p) \cup {p} => c \in Below(parent, p)
    BY BelowClosed DEF Closed, Processes
  <2> QED BY <2>1, <2>2
<1>2. CASE p \notin standing \cup {Main}
  <2>1. Fallen(p) = {p}
    BY <1>2 DEF Fallen
  <2> QED BY <1>2, <2>1
<1> QED BY <1>1, <1>2

\* A step that takes p and what falls with it from the standing ones.
LEMMA StandsFallen ==
  ASSUME Shape, Stands, NEW p,
         standing \ Fallen(p) \subseteq standing',
         standing' \subseteq standing \ (Fallen(p) \ {Main}),
         \A c \in standing' : parent[c] # p => parent'[c] = parent[c],
         UNCHANGED <<pc, pos, list, children, refused, unlisted, victims, signalled>>
  PROVE  Stands'
<1>1. standing' = standing \ Fallen(p)
  BY DEF Shape, Table
<1>2. CASE pc = "list"
  <2>1. \A c \in standing : parent[c] \in standing \cup {Main}
    BY <1>2 DEF Stands
  <2>2. standing \subseteq Processes
    BY DEF Shape, TypeOK
  <2>3. \A c \in standing' : parent[c] \notin Fallen(p) /\ parent[c] # p
    BY <1>1, <1>2, <2>1, <2>2, FallenClosed
  <2>4. \A c \in standing' : parent'[c] = parent[c]
    BY <2>3
  <2>5. \A c \in standing' : parent'[c] \in standing' \cup {Main}
    BY <1>1, <2>1, <2>3, <2>4
  <2>6. ASSUME NEW S \in SUBSET Pids,
               \A c \in standing' : parent'[c] \in S \cup {Main} => c \in S
        PROVE  standing' \subseteq S
    <3>1. PICK T \in SUBSET Pids : T = S \cup (standing \cap Fallen(p))
      BY DEF Shape, TypeOK
    <3>2. \A c \in standing : parent[c] \in T \cup {Main} => c \in T
      BY <1>1, <2>3, <2>4, <2>6, <3>1
    <3>3. standing \subseteq T
      BY <1>2, <3>2 DEF Stands
    <3> QED BY <1>1, <3>1, <3>3
  <2> QED BY <1>1, <1>2, <2>4, <2>5, <2>6 DEF Stands
<1>3. CASE pc # "list"
  BY <1>1, <1>3 DEF Stands
<1> QED BY <1>2, <1>3

LEMMA StandsStopBegins ==
  ASSUME Shape, StopBegins
  PROVE  Stands'
<1>1. /\ pc = "idle" /\ pc' = "list"
      /\ standing' = (IF waited THEN {} ELSE Below(parent, Main))
      /\ UNCHANGED <<parent, pos, list>>
  BY DEF StopBegins, tableVars
<1>2. DOMAIN list = {} /\ pos = NoPid
  BY <1>1 DEF Shape, Phases
<1>3. standing' \subseteq Processes /\ \A c \in Processes : ~(c <= pos)
  BY <1>1, <1>2, BelowClosed, Numbers DEF Processes, NoPid
<1> DEFINE B == Below(parent, Main)
<1>4. \A c \in Processes : parent[c] \in B \cup {Main} => c \in B
  BY BelowClosed DEF Closed, Processes
<1> HIDE DEF B
<1>5. ASSUME NEW S, \A c \in B : parent[c] \in S \cup {Main} => c \in S
      PROVE  B \subseteq S
  <2>1. Closed(parent, Main, S \cap B)
    BY <1>4, <1>5 DEF Closed, Processes
  <2> QED BY <2>1, BelowLeast DEF B
<1>6. \A c \in B : parent[c] \in B \cup {Main}
  <2> DEFINE T == {c \in B : parent[c] \in B \cup {Main}}
  <2>1. Closed(parent, Main, T)
    BY <1>4 DEF Closed, Processes
  <2>2. B \subseteq T
    <3> HIDE DEF T
    <3> QED BY <2>1, BelowLeast DEF B
  <2> QED BY <2>2
<1>7. CASE waited
  BY <1>1, <1>7 DEF Stands
<1>8. CASE ~waited
  <2>1. standing' = B
    BY <1>1, <1>8 DEF B
  <2> QED BY <1>1, <1>2, <1>3, <1>5, <1>6, <2>1 DEF Stands
<1> QED BY <1>7, <1>8

LEMMA StandsReadStat ==
  ASSUME Shape, Stands, ReadStat
  PROVE  Stands'
<1>1. /\ pc = "list" /\ pos' = Least(Unread) /\ Unread # {}
      /\ DOMAIN list' = DOMAIN list \cup {pos'} /\ list'[pos'] = parent[pos']
      /\ \A p \in DOMAIN list \ {pos'} : list'[p] = list[p]
      /\ UNCHANGED <<parent, standing, pc>>
  BY DEF ReadStat, tableVars, watchVars
<1>2. /\ pos' \in Processes /\ pos' > pos
      /\ \A q \in Processes : q < pos' => q <= pos
  BY <1>1, LeastUnread
<1>3. standing \subseteq Processes
  BY DEF Shape, TypeOK
<1>4. \A c \in standing : c <= pos' => c \in DOMAIN list'
  <2>1. \A c \in standing : c <= pos' => c = pos' \/ c <= pos
    BY <1>2, <1>3, Numbers
  <2> QED BY <1>1, <2>1 DEF Stands
<1>5. \A c \in standing \cap DOMAIN list' : list'[c] = parent[c]
  BY <1>1 DEF Stands
<1> QED BY <1>1, <1>4, <1>5 DEF Stands

LEMMA StandsNewProcessTree ==
  ASSUME Shape, Stands, NewProcessTree
  PROVE  Stands'
<1>1. /\ pc = "list" /\ Unread = {} /\ refused' = (Parentless(list) # {})
      /\ children' = (IF refused' THEN {} ELSE Get(list, Main))
      /\ pc' \in {"overflow", "kill"} /\ standing' = standing
  BY DEF NewProcessTree, watchVars
<1>2. SUFFICES ASSUME Parentless(list) = {} PROVE standing \subseteq Get(list, Main)
  BY <1>1 DEF Stands
<1>3. standing \subseteq DOMAIN list
  <2>1. standing \subseteq Processes
    BY DEF Shape, TypeOK
  <2>2. \A c \in Processes : c <= pos
    BY <1>1, Numbers DEF Unread
  <2> QED BY <1>1, <2>1, <2>2 DEF Stands
<1>4. \A c \in standing : list[c] = parent[c]
  BY <1>1, <1>3 DEF Stands
<1>5. standing \subseteq Below(list, Main)
  <2>1. Below(list, Main) \in SUBSET Pids
    BY BelowClosed DEF Shape, TypeOK
  <2>2. \A c \in standing : parent[c] \in Below(list, Main) \cup {Main}
                         => c \in Below(list, Main)
    BY <1>3, <1>4, BelowClosed DEF Closed
  <2> QED BY <1>1, <2>1, <2>2 DEF Stands
<1>6. standing # {} => Main \in DOMAIN list
  <2>1. standing # {} => \E c \in standing : parent[c] = Main
    <3>1. {} \in SUBSET Pids
      OBVIOUS
    <3> QED BY <1>1, <3>1 DEF Stands
  <2>2. \A c \in DOMAIN list : list[c] # NoPid => list[c] \in DOMAIN list
    BY <1>2 DEF Parentless
  <2> QED BY <1>3, <1>4, <2>1, <2>2, PidFacts
<1> QED BY <1>5, <1>6 DEF Get

LEMMA StandsQuiet ==
  ASSUME Shape, Stands, Quiet
  PROVE  Stands'
<1>1. UNCHANGED <<parent, standing>> /\ standing \subseteq Processes
  BY QuietUnchanged DEF tableVars, watchVars, Shape, TypeOK
<1>2. CASE ListFails
  BY <1>2 DEF ListFails, Stands
<1>3. CASE ListAgain
  <2>1. /\ pc = "again" /\ pos' = Least(Unread) /\ Unread # {}
        /\ victims' = victims \cup ({pos'} \cap children)
        /\ UNCHANGED <<pc, children, refused, unlisted, signalled>>
    BY <1>3 DEF ListAgain, ToSignal
  <2>2. /\ pos' \in Processes /\ pos' > pos
        /\ \A q \in Processes : q < pos' => q <= pos
    BY <2>1, LeastUnread
  <2>3. \A c \in standing : c <= pos' => c = pos' \/ c <= pos
    BY <1>1, <2>2, Numbers
  <2> QED BY <1>1, <2>1, <2>3 DEF Stands
<1>4. CASE ListedAgain
  <2>1. /\ pc = "again" /\ Unread = {} /\ pc' = "signal"
        /\ UNCHANGED <<refused, unlisted, victims, signalled>>
    BY <1>4 DEF ListedAgain
  <2>2. \A c \in standing : c <= pos
    BY <1>1, <2>1, Numbers DEF Unread
  <2> QED BY <1>1, <2>1, <2>2 DEF Stands
<1>5. CASE ListAgainFails
  BY <1>5 DEF ListAgainFails, Stands
<1>6. CASE Signal
  <2> DEFINE p == Least(victims)
  <2>1. /\ pc = "signal" /\ victims' = victims \ {p}
        /\ signalled' = signalled \cup ({p} \cap Processes)
        /\ UNCHANGED <<pc, refused, unlisted>>
    BY <1>6 DEF Signal
  <2> HIDE DEF p
  <2> QED BY <1>1, <2>1 DEF Stands
<1>7. CASE StopEnds
  <2>1. /\ pc = "signal" /\ victims = {} /\ pc' = "done"
        /\ UNCHANGED <<refused, unlisted, signalled>>
    BY <1>7 DEF StopEnds
  <2> QED BY <1>1, <2>1 DEF Stands
<1> QED BY <1>2, <1>3, <1>4, <1>5, <1>6, <1>7, StandsReadStat, StandsNewProcessTree
        DEF Quiet

LEMMA StandsKillMain ==
  ASSUME Shape, Stands, KillMain
  PROVE  Stands'
<1>1. /\ pc = "kill" /\ pc' = "again"
      /\ UNCHANGED <<pos, children, refused, unlisted>>
  BY DEF KillMain
<1>2. standing' \subseteq standing
  BY DEF KillMain, MainEnds, watchVars
<1>3. \A c \in standing : ~(c <= pos)
  <2>1. pos = NoPid /\ standing \subseteq Processes
    BY <1>1 DEF Shape, Phases, TypeOK
  <2> QED BY <2>1, Numbers DEF NoPid
<1> QED BY <1>1, <1>2, <1>3 DEF Stands

\* A step that leaves the standing ones and their parents alone.
LEMMA StandsAlone ==
  ASSUME Stands, standing' = standing, \A c \in standing : parent'[c] = parent[c],
         UNCHANGED <<pc, pos, list, children, refused, unlisted, victims, signalled>>
  PROVE  Stands'
BY DEF Stands

LEMMA StandsStep == Shape /\ Stands /\ [Next]_vars => Stands'
<1> SUFFICES ASSUME Shape, Stands, [Next]_vars PROVE Stands'
  OBVIOUS
<1>1. ASSUME NEW p \in Processes, Fork(p) PROVE Stands'
  <2>1. last \in Pids /\ standing \subseteq Processes
    BY DEF Shape, TypeOK
  <2>2. \A c \in Processes : parent'[c] = parent[c]
    BY <1>1, <2>1, ForkTable
  <2>3. UNCHANGED <<standing, pc, pos, list, children, refused, unlisted, victims,
                    signalled>>
    BY <1>1 DEF Fork, stopVars
  <2> QED BY <2>1, <2>2, <2>3, StandsAlone
<1>2. ASSUME NEW p \in Processes, Exit(p) PROVE Stands'
  <2>1. standing' = standing \ Fallen(p) /\ p \in Fallen(p)
        /\ UNCHANGED <<pc, pos, list, children, refused, unlisted, victims, signalled>>
    BY <1>2 DEF Exit, stopVars, Fallen
  <2>2. \A c \in standing' : parent[c] # p => parent'[c] = parent[c]
    <3>1. standing' \subseteq Processes \ {p}
      BY <2>1 DEF Shape, TypeOK
    <3> QED BY <1>2, <3>1, ExitTable
  <2> QED BY <2>1, <2>2, StandsFallen
<1>3. CASE MainExits
  <2>1. standing' = standing \ (Fallen(Main) \ {Main})
        /\ UNCHANGED <<pc, pos, list, children, refused, unlisted, victims, signalled>>
    BY <1>3 DEF MainExits, MainEnds, stopVars
  <2>2. \A c \in standing' : parent[c] # Main => parent'[c] = parent[c]
    <3>1. standing' \subseteq Processes
      BY <2>1 DEF Shape, TypeOK
    <3> QED BY <1>3, <3>1, MainEndsTable DEF MainExits
  <2> QED BY <2>1, <2>2, StandsFallen
<1>4. CASE Wait
  <2>1. UNCHANGED <<standing, pc, pos, list, children, refused, unlisted, victims,
                    signalled>>
    BY <1>4 DEF Wait, stopVars, watchVars
  <2>2. standing \subseteq Processes \ {Main}
    BY DEF Shape, TypeOK, Table
  <2> QED BY <1>4, <2>1, <2>2, WaitTable, StandsAlone
<1>5. CASE UNCHANGED vars
  BY <1>5, StandsAlone DEF vars, tableVars, stopVars, watchVars
<1> QED BY <1>1, <1>2, <1>3, <1>4, <1>5, StandsStopBegins, StandsKillMain, StandsQuiet,
           Steps

\* A stop that got both its lists has signalled every descendant that kept its place
\* below the main process while the first was read (processtree.go:48-69).
THEOREM StandingAreSignalled == Spec => []StandingSignalled
<1>1. Init => Stands
  BY DEF Init, Stands
<1>2. Stands => StandingSignalled
  BY DEF Stands, StandingSignalled
<1> QED BY ShapeInit, ShapeStep, StandsStep, <1>1, <1>2, PTL DEF Spec
================================================================================
