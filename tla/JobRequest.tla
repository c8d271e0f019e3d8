------------------------------ MODULE JobRequest ------------------------------
(***************************************************************************)
(* From the JSON that an API sends to the command that runs: the           *)
(* generator's and the canceller's reading of a job (job/jobs_fetch.go),   *)
(* the key it is registered under, its time to run and the environment of  *)
(* its command (model/job.go Run, model/utils.go).                         *)
(*                                                                         *)
(* A field of a job may be sent under several names at once.  The rows are *)
(* Go maps, read in an order that changes from run to run: the last of the *)
(* names wins.  One job is followed here; modules Job and Supraworker show *)
(* what the goroutines do with it.                                         *)
(*                                                                         *)
(* A key joins three texts by colons, and a text may have colons of its    *)
(* own: a text is the sequence of the pieces between its colons.           *)
(***************************************************************************)
EXTENDS Integers, FiniteSets, SequencesExt

CONSTANTS
  KeyRows,     \* the fields that name the job, in the rows sent of it
  LimitRows,   \* the limits to its time, in the rows sent of it
  EnvRows,     \* the values of its env, vars and environment fields
  Vars,        \* variables and their values, None for an entry without "="
  Environ,     \* os.Environ(), a sequence of them
  DefaultPath, \* the variable DefaultPath() returns
  None,
  Exponent,    \* from it on, %v writes a float64 with an exponent (10^6)
  Precise,     \* up to it, every integer is a float64 (2^53)
  Half,        \* an int64 is in -Half..Half-1 (2^63)
  NsPerMs, MsPerSec, SecPerMin, \* the units of time
  DefaultTTR,  \* eight hours, in milliseconds
  MaxNow       \* bound: the clock stops here, in nanoseconds

\* What is written between two colons: a number with or without an exponent, nothing,
\* "<nil>" or, numbered, any other word.
Piece == [form : {"empty", "nil", "digits", "exponent", "word"}, n : Int]

Digits(n) == <<[form |-> "digits", n |-> n]>>
Empty == <<[form |-> "empty", n |-> 0]>>
Nil == <<[form |-> "nil", n |-> 0]>>

\* A value in JSON.  Fractions are left out, a string stands for a boolean or a list.
Value == [json : {"number"}, n : Int]
           \cup [json : {"string"}, text : Seq(Piece) \ {<< >>}]
           \cup [json : {"null"}]

\* The names of its fields are in lower case; two that were not are one name.
KeyRow == SUBSET [name : STRING, value : Value]

Limit == [unit : {"msec", "sec", "min", "stop"}, value : Value]

ASSUME RequestAssumption ==
  /\ KeyRows \subseteq KeyRow
  /\ \A limits \in LimitRows : limits \subseteq Limit /\ IsFiniteSet(limits)
  /\ Exponent \in Nat /\ Precise \in Nat /\ Exponent <= Precise
  /\ Half \in Nat \ {0} /\ MaxNow \in Nat
  /\ NsPerMs \in Nat \ {0} /\ MsPerSec \in Nat \ {0} /\ SecPerMin \in Nat \ {0}
  /\ DefaultTTR \in 1..Half-1
  /\ \A env \in EnvRows : IsFiniteSet(env) /\ \A v \in env : v.vars \in Seq(Vars)
  /\ Environ \in Seq(Vars) /\ DefaultPath \in Vars
  /\ None \notin Int

VARIABLES
  stage,     \* where the job is
  key,       \* the key it is registered under, or None
  TTR,       \* Job.TTR
  StartAt,   \* Job.StartAt
  ctxEnd,    \* when the context of Run ends, or None
  CmdENV, Env, \* Job.CmdENV, and the environment of the command
  now,       \* the time, in nanoseconds
  \* what the properties speak about
  row,       \* the key fields of the row it came with
  meant,     \* the one limit the row had, exactly, or None
  began      \* when Run has made the context, or None

commandVars == <<ctxEnd, began, Env>>
requestVars == <<TTR, CmdENV, row, meant>>
vars == <<stage, key, StartAt, commandVars, requestVars, now>>

Init ==
  /\ stage = "offered" /\ key = None /\ now = 0
  /\ TTR = 0 /\ StartAt = 0 /\ CmdENV = << >>
  /\ ctxEnd = None /\ began = None /\ Env = << >>
  /\ row = None /\ meant = None

--------------------------------------------------------------------------------
(* Reading a row *)

\* A JSON number becomes the nearest float64, and of two that are as near the one with
\* an even significand.  The coarser steps from 2 * Precise on are left out.
Float64(n) == IF n \in -Precise..Precise \/ n % 2 = 0 THEN n ELSE 4 * ((n + 2) \div 4)

\* Sprintf("%v"): a large float64 is written with an exponent.
Sprintf(v) ==
  CASE v.json = "number" ->
         <<[form |-> IF Float64(v.n) \in -Exponent+1..Exponent-1
                     THEN "digits" ELSE "exponent",
            n |-> Float64(v.n)]>>
    [] v.json = "string" -> v.text
    [] v.json = "null"   -> Nil

\* The names of the fields, for the generator,
GeneratorNames ==
  [id    |-> {"id", "jobid", "job_id", "job_uid"},
   run   |-> {"runid", "runuid", "run_id", "run_uid"},
   extra |-> {"extrarunid", "extrarunuid", "extrarun_id", "extrarun_uid",
              "extra_run_id", "extra_run_uid"}]

\* Fault: one of the names is forgotten.
CancellerNames_Fewer ==
  [id    |-> {"id", "jobid", "job_id"},
   run   |-> {"runid", "runuid", "run_id", "run_uid"},
   extra |-> {"extrarunid", "extrarunuid", "extrarun_id", "extrarun_uid",
              "extra_run_id", "extra_run_uid"}]

\* and for the canceller.
CancellerNames ==
  [id    |-> {"id", "jobid", "job_id", "job_uid"},
   run   |-> {"runid", "runuid", "run_id", "run_uid"},
   extra |-> {"extrarunid", "extrarunuid", "extrarun_id", "extrarun_uid",
              "extra_run_id", "extra_run_uid"}]

\* What a row has under some names.
Sent(r, names) == {e.value : e \in {e \in r : e.name \in names}}

\* The texts that a field may end up with.
Texts(values) == IF values = {} THEN {Empty} ELSE {Sprintf(v) : v \in values}

\* "%s:%s:%s"
StoreKey(Id, RunUID, ExtraRunUID) == Id \o RunUID \o ExtraRunUID

\* Fault: a row without id is a job like others.
StoreKeys_NoIdCheck(r) ==
  {StoreKey(i, u, x) : i \in Texts(Sent(r, GeneratorNames.id)),
                       u \in Texts(Sent(r, GeneratorNames.run)),
                       x \in Texts(Sent(r, GeneratorNames.extra))}

\* The keys that the generator may make of a row: none if it has no id.
StoreKeys(r) ==
  {StoreKey(i, u, x) : i \in Texts(Sent(r, GeneratorNames.id)) \ {Empty},
                       u \in Texts(Sent(r, GeneratorNames.run)),
                       x \in Texts(Sent(r, GeneratorNames.extra))}

\* The canceller's copy of that code.
CancelKeys(r) ==
  {StoreKey(i, u, x) : i \in Texts(Sent(r, CancellerNames.id)) \ {Empty},
                       u \in Texts(Sent(r, CancellerNames.run)),
                       x \in Texts(Sent(r, CancellerNames.extra))}

--------------------------------------------------------------------------------
(* Limits: int64 nanoseconds, uint64 milliseconds *)

Int64(x) == ((x + Half) % (2 * Half)) - Half

Uint64(x) == x % (2 * Half)

\* Division truncates towards zero.
Milliseconds(d) == IF d < 0 THEN -((-d) \div NsPerMs) ELSE d \div NsPerMs

Unit(u) ==
  CASE u = "msec" -> NsPerMs
    [] u \in {"sec", "stop"} -> MsPerSec * NsPerMs
    [] u = "min" -> SecPerMin * MsPerSec * NsPerMs

Unix(t) == t \div (MsPerSec * NsPerMs)

\* strconv.ParseInt(_, 10, 64), or None.
ParseInt(text) ==
  IF Len(text) = 1 /\ text[1].form = "digits" /\ text[1].n \in -Half..Half-1
  THEN text[1].n ELSE None

\* What a limit counts at time t: a stop date is in seconds since 1970.
Amount(l, t) ==
  LET i == ParseInt(Sprintf(l.value))
  IN  IF l.unit = "stop" THEN Int64(i - Unix(t)) ELSE i

\* A limit that ParseInt cannot read is passed over, and so is a stop date in the past.
Effective(l, t) ==
  ParseInt(Sprintf(l.value)) # None /\ (l.unit = "stop" => Amount(l, t) > 0)

ReadTTR(l, t) == Uint64(Milliseconds(Int64(Amount(l, t) * Unit(l.unit))))

\* Fault: a job without limit keeps the zero.
TTRs_NoDefault(limits, t) ==
  LET read == {ReadTTR(l, t) : l \in {l \in limits : Effective(l, t)}}
  IN  IF read = {} THEN {0} ELSE read

\* The TTRs that a row may lead to.
TTRs(limits, t) ==
  LET read == {ReadTTR(l, t) : l \in {l \in limits : Effective(l, t)}}
  IN  {IF ttr < 1 THEN DefaultTTR ELSE ttr : ttr \in IF read = {} THEN {0} ELSE read}

\* What a value names: a number by its digits, whichever way it is sent.
Name(v) ==
  CASE v.json = "number" -> Digits(v.n)
    [] v.json = "string" -> v.text
    [] v.json = "null"   -> Nil

\* A limit as it was sent, in nanoseconds from time t on.
Exact(l, t) ==
  LET n == Name(l.value)[1].n
  IN  CASE l.unit = "msec" -> n * NsPerMs
        [] l.unit = "sec"  -> n * (MsPerSec * NsPerMs)
        [] l.unit = "min"  -> n * (SecPerMin * MsPerSec * NsPerMs)
        [] l.unit = "stop" -> (n - Unix(t)) * (MsPerSec * NsPerMs)

\* It can be read, is an int64 and not zero.
Readable(l, t) ==
  Effective(l, t) /\ Exact(l, t) \in -Half..Half-1 /\ Exact(l, t) # 0

\* What a single limit means.
Meant(limits, t) ==
  IF Cardinality(limits) = 1 /\ \A l \in limits : Readable(l, t)
  THEN Exact(CHOOSE l \in limits : TRUE, t) ELSE None

GetTTRDuration == Int64(Int64(TTR) * NsPerMs)

\* Always FALSE if TTR is 0.
HitTimeout == TTR >= 1 /\ now > StartAt + GetTTRDuration

--------------------------------------------------------------------------------
(* The environment *)

\* A string replaces the variables read so far, the strings of a list are added to
\* them; vars has these strings.
ReadEnv(env, v) == IF v.json = "string" THEN v.vars ELSE env \o v.vars

EnvVars(values) ==
  {LET env[i \in 0..Len(order)] ==
         IF i = 0 THEN << >> ELSE ReadEnv(env[i - 1], order[i])
   IN  env[Len(order)] : order \in SetToSeqs(values)}

\* Fault: nothing is dropped.
MergeEnvVars_KeepsAll(CmdENVs) == CmdENVs \o Environ \o <<DefaultPath>>

\* The first variable of a name is kept, an entry without "=" is not.
MergeEnvVars(CmdENVs) ==
  LET mergedENV == CmdENVs \o Environ \o <<DefaultPath>>
      Dropped(unique, e) ==
        e.val = None \/ \E i \in DOMAIN unique : unique[i].key = e.key
      unique[n \in 0..Len(mergedENV)] ==
        IF n = 0 THEN << >>
        ELSE IF Dropped(unique[n - 1], mergedENV[n]) THEN unique[n - 1]
        ELSE Append(unique[n - 1], mergedENV[n])
  IN  unique[Len(mergedENV)]

\* os/exec: of two variables with one name, the command sees the last.
Getenv(env, k) ==
  LET set == {i \in DOMAIN env : env[i].key = k}
  IN  IF set = {} THEN None ELSE env[CHOOSE i \in set : \A j \in set : j <= i].val

--------------------------------------------------------------------------------
(* Actions *)

\* The generator makes the job of a row and registers it; a row without id is skipped.
StartGenerateJobs ==
  /\ stage = "offered"
  /\ \E r \in KeyRows, limits \in LimitRows, env \in EnvRows :
       \/ /\ \E k \in StoreKeys(r) : key' = k
          /\ TTR' \in TTRs(limits, now)
          /\ CmdENV' \in EnvVars(env)
          /\ row' = r /\ meant' = Meant(limits, now)
          /\ stage' = "queued" /\ StartAt' = now
       \/ /\ Empty \in Texts(Sent(r, GeneratorNames.id))
          /\ stage' = "skipped"
          /\ UNCHANGED <<key, StartAt, requestVars>>
  /\ UNCHANGED <<commandVars, now>>

\* prepareContext at time t, which gives no deadline to a job without TTR.
prepareContext(t) == IF TTR > 0 THEN t + GetTTRDuration ELSE None

\* Run, under j.mu.  The clock runs on before its second step.
RunPrepares ==
  /\ stage = "queued"
  /\ stage' = "starting"
  /\ ctxEnd' = prepareContext(now) /\ began' = now
  /\ UNCHANGED <<key, StartAt, requestVars, Env, now>>

\* Fault: the time in the channel counts.
RunStarts_KeepsStartAt ==
  /\ stage = "starting"
  /\ stage' = "running"
  /\ Env' = MergeEnvVars(CmdENV)
  /\ UNCHANGED <<key, StartAt, ctxEnd, began, requestVars, now>>

\* Run, up to the start of the command.
RunStarts ==
  /\ stage = "starting"
  /\ stage' = "running"
  /\ StartAt' = now
  /\ Env' = MergeEnvVars(CmdENV)
  /\ UNCHANGED <<key, ctxEnd, began, requestVars, now>>

\* The command ends by itself or is killed when its context ends; the worker then
\* removes the job.
CommandEnds ==
  /\ stage = "running"
  /\ stage' = "ended" /\ key' = None
  /\ UNCHANGED <<StartAt, commandVars, requestVars, now>>

\* A stop does not hold up a Run that has found the job free.
StopJob == stage' = IF stage = "starting" THEN "starting" ELSE "stopped"

\* Cleanup times out a job that waits or runs, and removes it.
Cleanup ==
  /\ key # None /\ stage \in {"queued", "starting", "running"}
  /\ HitTimeout
  /\ StopJob /\ key' = None
  /\ UNCHANGED <<StartAt, commandVars, requestVars, now>>

\* The canceller cancels the job that a row leads it to.
Cancel ==
  /\ stage \in {"queued", "starting", "running"}
  /\ \E r \in KeyRows : key \in CancelKeys(r)
  /\ StopJob
  /\ UNCHANGED <<key, StartAt, commandVars, requestVars, now>>

Tick ==
  /\ now < MaxNow
  /\ now' = now + 1
  /\ UNCHANGED <<stage, key, StartAt, commandVars, requestVars>>

Next ==
  \/ StartGenerateJobs \/ RunPrepares \/ RunStarts \/ CommandEnds
  \/ Cleanup \/ Cancel \/ Tick

Spec == Init /\ [][Next]_vars

--------------------------------------------------------------------------------
(* Properties *)

\* What the generator reads of a field.
Field(r, f) == Sent(r, GeneratorNames[f])

KeyTexts == UNION {Texts(Field(r, f)) : r \in KeyRows, f \in {"id", "run", "extra"}}

TypeOK ==
  /\ stage \in {"offered", "skipped", "queued", "starting", "running", "ended",
                "stopped"}
  /\ \/ key = None
     \/ \E i \in KeyTexts \ {Empty}, u, x \in KeyTexts : key = StoreKey(i, u, x)
  /\ TTR \in 0..2*Half-1 /\ StartAt \in 0..MaxNow /\ now \in 0..MaxNow
  /\ ctxEnd \in Int \cup {None} /\ began \in Nat \cup {None}
  /\ meant \in Int \cup {None}
  /\ CmdENV \in Seq(Vars) /\ Env \in Seq(Vars)
  /\ row \in KeyRows \cup {None}

\* What a field names: nothing is named like an empty string.
NamesOf(values) == IF values = {} THEN {Empty} ELSE {Name(v) : v \in values}

\* Two rows name the same job.
SameJob(r, s) ==
  \A f \in {"id", "run", "extra"} :
    NamesOf(Field(r, f)) \cap NamesOf(Field(s, f)) # {}

\* Two values are written alike: they are one, or one number that needs no exponent.
AlikeValues(v, w) ==
  \/ v = w
  \/ /\ Name(v) = Name(w)
     /\ \A z \in {v, w} : z.json = "number" => z.n \in -Exponent+1..Exponent-1

\* Two rows write one job alike, under whatever names.
Alike(r, s) ==
  \A f \in {"id", "run", "extra"} :
    /\ Field(r, f) = {} <=> Field(s, f) = {}
    /\ \A v \in Field(r, f), w \in Field(s, f) : AlikeValues(v, w)

\* No number of a row is rounded, no string has a colon or looks like a large number.
Plain(r) ==
  \A f \in {"id", "run", "extra"} : \A v \in Field(r, f) :
    /\ v.json = "number" => v.n \in -Precise..Precise
    /\ v.json = "string" => Len(v.text) = 1 /\ v.text[1].form # "exponent"

Registered == key # None

\* A row that writes the job as its own row did leads the canceller to it, whichever
\* names either uses; a row of another job does not, unless numbers have been rounded,
\* a string has colons or is a number's text.  Two copies of one piece of code have to
\* agree on fourteen names (jobs_fetch.go:91-160, 233-256).
CancelFinds ==
  Registered =>
    \A r \in KeyRows :
      /\ Alike(r, row) => CancelKeys(r) = {key}
      /\ Plain(r) /\ Plain(row) /\ ~SameJob(r, row) => key \notin CancelKeys(r)

\* Whatever limits a row has, in whatever order they are read and however they
\* overflow, a command has a deadline; a limit that comes alone and can be read counts
\* from the making of its context (jobs_fetch.go:109-127, 163-166, utils.go:131-146).
Deadline ==
  stage = "running" =>
    /\ ctxEnd # None
    /\ meant # None => ctxEnd = began + meant

\* The registry's Cleanup takes a running job for timed out only after the context of
\* its command has ended, though the two clocks start at different times: the time it
\* has waited in the channel does not count (job.go:323-331, 507, 513,
\* job_registry.go:87).
SweptAfterContext == stage = "running" /\ HitTimeout => now > ctxEnd

\* The first value of a name.
FirstOf(env, k) ==
  LET set == {i \in DOMAIN env : env[i].key = k /\ env[i].val # None}
  IN  IF set = {} THEN None ELSE env[CHOOSE i \in set : \A j \in set : i <= j].val

\* A command sees the job's value of a variable, the worker's where the job has none,
\* and a PATH in any case, though the last of two equal names counts when it is started
\* (utils.go:25-43).
JobEnvWins ==
  stage = "running" =>
    \A k \in {e.key : e \in Vars} :
      Getenv(Env, k) =
        IF FirstOf(CmdENV, k) # None THEN FirstOf(CmdENV, k)
        ELSE IF FirstOf(Environ, k) # None THEN FirstOf(Environ, k)
        ELSE FirstOf(<<DefaultPath>>, k)
================================================================================
