----------------------------- MODULE MCJobRequest -----------------------------
(***************************************************************************)
(* Instances of JobRequest for TLC, with small words: an int64 has 6 bits, *)
(* a second has 2 milliseconds of 2 nanoseconds and a minute 2 seconds.    *)
(***************************************************************************)
EXTENDS JobRequest

Number(i) == [json |-> "number", n |-> i]
String(i) == [json |-> "string", text |-> Digits(i)]
Null == [json |-> "null"]
EmptyString == [json |-> "string", text |-> Empty]
Colon(i, j) == [json |-> "string", text |-> Digits(i) \o Digits(j)]
As(k, v) == [name |-> k, value |-> v]

\* A small id, a large one and one beyond Precise, which is rounded to another.
Small == 1
Large == 3
Rows ==
  \* the demo API's rows of a job it fetches and of one it cancels
  {{As("id", Number(i)), As("job_id", String(i))} : i \in {Small, Large}}
    \cup {{As("id", Number(i))} : i \in {Small, Large, 7, 8}}
    \* the other names, each the only one of its field in some row
    \cup {{As("job_uid", Number(Small))},
          {As("jobid", String(Small)), As("run_uid", String(Large)),
           As("extrarunuid", String(2))},
          {As("job_uid", String(Small)), As("runid", Number(2)),
           As("extra_run_id", String(Small))},
          {As("id", Number(Small)), As("runuid", Null), As("extra_run_uid", String(2))},
    \* two names that disagree
          {As("job_id", String(Small)), As("run_id", Number(Large)),
           As("extrarunid", EmptyString), As("extra_run_uid", String(2))},
    \* colons: the last two rows have one key
          {As("id", Colon(Small, Large)), As("extrarunid", String(2))},
          {As("id", Number(Small)), As("run_id", Colon(Small, 2)),
           As("extrarun_id", String(2))},
          {As("id", Colon(Small, Small)), As("run_id", String(2)),
           As("extrarun_uid", String(2))},
    \* the text of a large number
          {As("job_id", [json |-> "string", text |-> Sprintf(Number(Large))])},
    \* rows without id
          {As("id", EmptyString)}, {As("run_id", String(Small))}}

\* A limit or two, among them zero, negative ones, one that overflows, one that is no
\* int64, one that is written with an exponent, one that is no number and stop dates in
\* the past and in the future.
Of(u, v) == [unit |-> u, value |-> v]
Limits ==
  {Of(u, String(i)) : u \in {"msec", "sec", "min"}, i \in {-1, 1, 5}}
    \cup {Of("stop", String(0)), Of("stop", String(2)), Of("msec", String(0)),
          Of("sec", String(40)), Of("sec", Null), Of("sec", Number(2)),
          Of("sec", Number(3))}
LimitSets ==
  {{}} \cup {{l} : l \in Limits} \cup {{l, Of("msec", String(1))} : l \in Limits}

Var(k, v) == [key |-> k, val |-> v]
AllVars == {Var(k, v) : k \in {"A", "PATH"}, v \in {"1", "2", None}}
OsEnv == <<Var("A", "2"), Var("PATH", "2")>>
Path == Var("PATH", "1")
Single(e) == [json |-> "string", vars |-> <<e>>]
List(l) == [json |-> "list", vars |-> l]
Envs ==
  {{Single(Var("A", "1")), List(<<Var("A", "2"), Var("PATH", "1")>>)},
   {List(<<Var("A", None), Var("A", "1"), Var("A", "2")>>)}}
================================================================================
