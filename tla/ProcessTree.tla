------------------------------ MODULE ProcessTree ------------------------------
(***************************************************************************)
(* Stopping a job's descendants (model/processtree.go and the part of      *)
(* stopProcess in model/job.go that uses it) while the host's processes    *)
(* fork and exit.                                                          *)
(*                                                                         *)
(* ps.Processes reads one process after the other in the order of their    *)
(* pids, so the list is no snapshot: processes come and go while it is     *)
(* read.  NewProcessTree links the list into a tree or refuses it, the     *)
(* main process is killed, the processes are listed again and those that   *)
(* are in the tree below the main process get a SIGTERM.                   *)
(***************************************************************************)
EXTENDS Naturals, FiniteSets

CONSTANT MaxPid            \* pids are given in turn up to it, then from the start

Pids == 1..MaxPid
Root == 1                  \* the ancestor of all, which inherits orphans
Main == 2                  \* the job's process, j.cmd.Process.Pid
NoPid == 0                 \* PPid of a process without parent

ASSUME PidsAssumption == MaxPid \in Nat /\ MaxPid >= Main

VARIABLES
  parent,     \* the process table: the parent of each process in it
  last,       \* the pid given last
  mainLives,  \* the main process has not ended
  waited,     \* cmd.Wait has taken it out of the process table
  pc,         \* stopProcess
  pos,        \* the pid ps.Processes has read up to
  list,       \* what it has read: the parent of each process
  children,   \* processChildren
  refused,    \* NewProcessTree found a process without its parent
  unlisted,   \* ps.Processes failed
  victims,    \* processes of the second list still to be signalled
  \* what the properties speak about
  kin,        \* the processes that the main one has started, directly or not
  standing,   \* those below it in the table since the stop began
  seen,       \* the pids in use since the stop began, until one is reused
  reused,     \* one of them, or Main, was given to another process
  wrapped,    \* pids have started again from the lowest
  signalled,  \* the pids that got a SIGTERM
  strays      \* those of them that are not the job's

tableVars == <<parent, last, mainLives, waited, kin, wrapped>>
stopVars == <<pc, pos, list, children, refused, unlisted, victims, signalled, strays>>
watchVars == <<standing, seen, reused>>
vars == <<tableVars, stopVars, watchVars>>

Init ==
  /\ parent = [p \in {Root, Main} |-> IF p = Main THEN Root ELSE NoPid]
  /\ last = Main /\ mainLives = TRUE /\ waited = FALSE
  /\ pc = "idle" /\ pos = NoPid /\ list = << >>
  /\ children = {} /\ refused = FALSE /\ unlisted = FALSE /\ victims = {}
  /\ kin = {Main} /\ standing = {} /\ seen = {} /\ reused = FALSE
  /\ wrapped = FALSE /\ signalled = {} /\ strays = {}

Processes == DOMAIN parent

\* The processes below pid in a table of parents: the least set that has the
\* children of pid and of its members.
Below(table, pid) ==
  {p \in DOMAIN table :
     \A S \in SUBSET DOMAIN table :
       (\A c \in DOMAIN table : table[c] \in S \cup {pid} => c \in S) => p \in S}

--------------------------------------------------------------------------------
(* The host *)

Free == Pids \ Processes
Above == {p \in Free : p > last}
Least(S) == CHOOSE p \in S : \A q \in S : p <= q
NextPid == IF Above # {} THEN Least(Above) ELSE Least(Free)

Stopping == pc \notin {"idle", "done", "overflow"}

Runs(p) == p \in Processes /\ (p = Main => mainLives \/ waited)

Fork(p) ==
  /\ Runs(p) /\ Free # {}
  /\ parent' = [q \in Processes \cup {NextPid} |-> IF q = NextPid THEN p ELSE parent[q]]
  /\ last' = NextPid
  /\ wrapped' = (wrapped \/ Above = {})
  /\ kin' = IF p \in kin THEN kin \cup {NextPid} ELSE kin
  /\ reused' = (reused \/ NextPid \in seen \cup {Main})
  /\ seen' = IF Stopping /\ ~reused' THEN seen \cup {NextPid} ELSE {}
  /\ UNCHANGED <<mainLives, waited, stopVars, standing>>

\* A process leaves its children to the root.
Orphaned(table, p) == [q \in DOMAIN table |-> IF table[q] = p THEN Root ELSE table[q]]
Without(table, p) == [q \in DOMAIN table \ {p} |-> table[q]]

\* Until the list is complete a descendant stands only while its ancestors do.
Fallen(p) ==
  {p} \cup IF pc = "list" /\ p \in standing \cup {Main} THEN Below(parent, p) ELSE {}

Exit(p) ==
  /\ p \in Processes \ {Root} /\ (p = Main => waited)
  /\ parent' = Without(Orphaned(parent, p), p)
  /\ kin' = kin \ {p}
  /\ standing' = standing \ Fallen(p)
  /\ UNCHANGED <<last, mainLives, waited, stopVars, seen, reused, wrapped>>

\* The main process ends and stays in the table until it is waited for.
MainEnds ==
  /\ parent' = Orphaned(parent, Main)
  /\ mainLives' = FALSE
  /\ standing' = standing \ (Fallen(Main) \ {Main})
  /\ UNCHANGED <<last, waited, kin, wrapped, seen, reused>>

MainExits == mainLives /\ MainEnds /\ UNCHANGED stopVars

Wait ==
  /\ ~mainLives /\ ~waited
  /\ waited' = TRUE
  /\ parent' = Without(parent, Main)
  /\ kin' = kin \ {Main}
  /\ UNCHANGED <<last, mainLives, wrapped, stopVars, watchVars>>

Host ==
  /\ pc \notin {"done", "overflow"}
  /\ MainExits \/ Wait \/ \E p \in Processes : Fork(p) \/ Exit(p)

--------------------------------------------------------------------------------
(* stopProcess *)

\* Cancel or Timeout found a process that was not stopped before.
StopBegins ==
  /\ pc = "idle"
  /\ pc' = "list"
  /\ standing' = IF waited THEN {} ELSE Below(parent, Main)
  /\ seen' = IF reused THEN {} ELSE Processes
  /\ UNCHANGED <<tableVars, pos, list, children, refused, unlisted, victims, signalled,
                 strays, reused>>

Unread == {p \in Processes : p > pos}

ReadStat ==
  /\ pc = "list" /\ Unread # {}
  /\ pos' = Least(Unread)
  /\ list' = [p \in DOMAIN list \cup {pos'} |-> IF p = pos' THEN parent[p] ELSE list[p]]
  /\ UNCHANGED <<tableVars, watchVars, pc, children, refused, unlisted, victims,
                 signalled, strays>>

\* ps.Processes fails: without the list the main process alone is killed.
ListFails ==
  /\ pc = "list"
  /\ unlisted' = TRUE /\ pc' = "kill"
  /\ list' = << >> /\ pos' = NoPid
  /\ UNCHANGED <<tableVars, watchVars, children, refused, victims, signalled, strays>>

\* Fault: the children are taken and not what is below them.
Get_OneLevel(table, pid) == {p \in DOMAIN table : table[p] = pid}

\* Tree.Get: the children of pid, and what Get returns for each of them.
Get(table, pid) == IF pid \in DOMAIN table THEN Below(table, pid) ELSE {}

\* Fault: the process without a parent is looked up like the others.
Parentless_All(table) == {p \in DOMAIN table : table[p] \notin DOMAIN table}

\* The processes for which NewProcessTree gives up.
Parentless(table) ==
  {p \in DOMAIN table : table[p] # NoPid /\ table[p] \notin DOMAIN table}

\* Fault: the tree is used although NewProcessTree gave up.
NewProcessTree_IgnoresError ==
  /\ pc = "list" /\ Unread = {}
  /\ refused' = (Parentless(list) # {})
  /\ children' = Get(list, Main)
  /\ pc' = IF Main \in children' THEN "overflow" ELSE "kill"
  /\ list' = << >> /\ pos' = NoPid
  /\ UNCHANGED <<tableVars, watchVars, unlisted, victims, signalled, strays>>

\* NewProcessTree links the complete list.  Get then descends from child to child and
\* would never return from a cycle, which would have to lead through the main process.
NewProcessTree ==
  /\ pc = "list" /\ Unread = {}
  /\ refused' = (Parentless(list) # {})
  /\ children' = IF refused' THEN {} ELSE Get(list, Main)
  /\ pc' = IF Main \in children' THEN "overflow" ELSE "kill"
  /\ list' = << >> /\ pos' = NoPid
  /\ UNCHANGED <<tableVars, watchVars, unlisted, victims, signalled, strays>>

\* Process.Kill reaches the main process unless it was waited for.
KillMain ==
  /\ pc = "kill"
  /\ pc' = "again"
  /\ IF mainLives THEN MainEnds ELSE UNCHANGED <<tableVars, watchVars>>
  /\ UNCHANGED <<pos, list, children, refused, unlisted, victims, signalled, strays>>

\* Fault: every process listed is signalled.
ToSignal_All(p) == {p}

\* ContainsIntInIntSlice
ToSignal(p) == {p} \cap children

ListAgain ==
  /\ pc = "again" /\ Unread # {}
  /\ pos' = Least(Unread)
  /\ victims' = victims \cup ToSignal(pos')
  /\ UNCHANGED <<tableVars, watchVars, pc, list, children, refused, unlisted, signalled,
                 strays>>

ListedAgain ==
  /\ pc = "again" /\ Unread = {}
  /\ pc' = "signal" /\ pos' = NoPid /\ children' = {}
  /\ UNCHANGED <<tableVars, watchVars, list, refused, unlisted, victims, signalled,
                 strays>>

ListAgainFails ==
  /\ pc = "again"
  /\ unlisted' = TRUE /\ pc' = "done"
  /\ pos' = NoPid /\ children' = {} /\ victims' = {}
  /\ UNCHANGED <<tableVars, watchVars, list, refused, signalled, strays>>

\* syscall.Kill(pid, SIGTERM) goes to the process that has the pid now.
Signal ==
  LET p == Least(victims) IN
  /\ pc = "signal" /\ victims # {}
  /\ victims' = victims \ {p}
  /\ signalled' = signalled \cup ({p} \cap Processes)
  /\ strays' = strays \cup (({p} \cap Processes) \ kin)
  /\ UNCHANGED <<tableVars, watchVars, pc, pos, list, children, refused, unlisted>>

StopEnds ==
  /\ pc = "signal" /\ victims = {}
  /\ pc' = "done"
  /\ UNCHANGED <<tableVars, watchVars, pos, list, children, refused, unlisted, victims,
                 signalled, strays>>

stopProcess ==
  \/ StopBegins \/ ReadStat \/ ListFails \/ NewProcessTree \/ KillMain
  \/ ListAgain \/ ListedAgain \/ ListAgainFails \/ Signal \/ StopEnds

--------------------------------------------------------------------------------

\* Nothing is said of the host after the stop.
Stopped == pc \in {"done", "overflow"} /\ UNCHANGED vars

Next == Host \/ stopProcess \/ Stopped

Spec == Init /\ [][Next]_vars

--------------------------------------------------------------------------------
(* Properties *)

TypeOK ==
  /\ Processes \subseteq Pids /\ Root \in Processes
  /\ \A p \in Processes : parent[p] \in Processes \cup {NoPid}
  /\ last \in Pids /\ mainLives \in BOOLEAN /\ waited \in BOOLEAN
  /\ pc \in {"idle", "list", "overflow", "kill", "again", "signal", "done"}
  /\ pos \in Pids \cup {NoPid}
  /\ DOMAIN list \subseteq Pids /\ \A p \in DOMAIN list : list[p] \in Pids \cup {NoPid}
  /\ children \subseteq Pids /\ (refused => children = {}) /\ victims \subseteq Pids
  /\ refused \in BOOLEAN /\ unlisted \in BOOLEAN
  /\ kin \subseteq Processes /\ standing \subseteq kin /\ seen \subseteq Pids
  /\ reused \in BOOLEAN /\ wrapped \in BOOLEAN
  /\ signalled \subseteq Pids /\ strays \subseteq signalled

\* However the table changes while it is read, a process of somebody else is
\* signalled, or Get caught in a cycle, only if a pid that the stop may have seen
\* was given to another process before the stop was over (job.go:239-247).
OnlyOurs == strays # {} \/ pc = "overflow" => reused

\* A stop that got its tree and its second list has signalled every descendant that
\* stayed below the main process while the list was read and lives
\* (processtree.go:48-69, job.go:219, 241-247).
StandingSignalled ==
  pc = "done" /\ ~refused /\ ~unlisted => standing \subseteq signalled

\* The tree is refused for a missing parent only once pids have started again from
\* the lowest: before that a parent is read before its children, and a process
\* that has lost its parent shows the root (processtree.go:57-62).
RefusedAfterWrap == refused => wrapped
================================================================================
