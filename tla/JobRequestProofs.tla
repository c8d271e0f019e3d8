--------------------------- MODULE JobRequestProofs ----------------------------
(***************************************************************************)
(* A command's deadline, the key by which its job is found and the         *)
(* environment it gets, proved for any rows, any width of the words, any   *)
(* units and any variables.                                                *)
(***************************************************************************)
EXTENDS JobRequest, FiniteSetTheorems, SequenceTheorems, Induction

--------------------------------------------------------------------------------
(* The arithmetic of an int64 and a uint64 *)

Int64s == -Half..Half-1

LEMMA ModSmall ==
  ASSUME NEW m \in Nat \ {0}, NEW x \in 0..m-1
  PROVE  x % m = x
OBVIOUS

LEMMA ModRange ==
  ASSUME NEW m \in Nat \ {0}, NEW x \in Int
  PROVE  x % m \in 0..m-1
OBVIOUS

LEMMA ModPlus ==
  ASSUME NEW m \in Nat \ {0}, NEW x \in 0..m-1
  PROVE  (x + m) % m = x
OBVIOUS

LEMMA ModMinus ==
  ASSUME NEW m \in Nat \ {0}, NEW x \in 0..m-1
  PROVE  (x - m) % m = x
OBVIOUS

LEMMA DivTimes ==
  ASSUME NEW m \in Nat \ {0}, NEW k \in Nat
  PROVE  (k * m) \div m = k
OBVIOUS

LEMMA DivNat ==
  ASSUME NEW m \in Nat \ {0}, NEW k \in Nat
  PROVE  k \div m \in Nat
OBVIOUS

LEMMA Words == Half \in Nat \ {0} /\ 2 * Half \in Nat \ {0} /\ NsPerMs \in Nat \ {0}
BY RequestAssumption

LEMMA Int64Keeps ==
  ASSUME NEW x \in Int64s
  PROVE  Int64(x) = x
<1>1. x + Half \in 0..2*Half-1
  BY Words DEF Int64s
<1>2. (x + Half) % (2 * Half) = x + Half
  BY <1>1, Words, ModSmall
<1> QED BY <1>2, Words DEF Int64, Int64s

LEMMA Int64Typed ==
  ASSUME NEW x \in Int
  PROVE  Int64(x) \in Int64s
<1>1. x + Half \in Int
  BY Words
<1>2. (x + Half) % (2 * Half) \in 0..2*Half-1
  BY <1>1, Words, ModRange
<1> QED BY <1>2, Words DEF Int64, Int64s

\* A negative number survives the way through a uint64 and back.
LEMMA ThroughUint64 ==
  ASSUME NEW k \in Int64s, k # 0
  PROVE  Uint64(k) \in 1..2*Half-1 /\ Int64(Uint64(k)) = k
<1>1. CASE k >= 0
  <2>1. k \in 0..2*Half-1
    BY <1>1, Words DEF Int64s
  <2>2. Uint64(k) = k
    BY <2>1, Words, ModSmall DEF Uint64
  <2> QED BY <2>1, <2>2, Int64Keeps
<1>2. CASE k < 0
  <2>1. k + 2*Half \in 0..2*Half-1 /\ k + 2*Half >= 1
    BY <1>2, Words DEF Int64s
  <2>2. Uint64(k) = k + 2*Half
    <3>1. ((k + 2*Half) - 2*Half) % (2*Half) = k + 2*Half
      BY <2>1, Words, ModMinus
    <3>2. (k + 2*Half) - 2*Half = k
      BY Words DEF Int64s
    <3> QED BY <3>1, <3>2 DEF Uint64
  <2>3. (k + 2*Half + Half) % (2*Half) = k + Half
    <3>1. k + Half \in 0..2*Half-1
      BY <1>2, Words DEF Int64s
    <3>2. ((k + Half) + 2*Half) % (2*Half) = k + Half
      BY <3>1, Words, ModPlus
    <3>3. (k + Half) + 2*Half = k + 2*Half + Half
      BY Words DEF Int64s
    <3> QED BY <3>2, <3>3
  <2>4. Int64(k + 2*Half) = k
    BY <2>3, Words DEF Int64, Int64s
  <2> QED BY <2>1, <2>2, <2>4
<1> QED BY <1>1, <1>2, Words DEF Int64s

LEMMA MillisecondsExact ==
  ASSUME NEW k \in Int
  PROVE  Milliseconds(k * NsPerMs) = k
<1>1. CASE k >= 0
  <2>1. (k * NsPerMs) \div NsPerMs = k
    BY <1>1, Words, DivTimes
  <2>2. ~(k * NsPerMs < 0)
    BY <1>1, Words
  <2> QED BY <2>1, <2>2 DEF Milliseconds
<1>2. CASE k < 0
  <2>1. -k \in Nat
    BY <1>2
  <2>2. ((-k) * NsPerMs) \div NsPerMs = -k
    BY <2>1, Words, DivTimes
  <2>3. (-k) * NsPerMs = -(k * NsPerMs) /\ k * NsPerMs < 0
    BY <1>2, Words
  <2> QED BY <2>2, <2>3 DEF Milliseconds
<1> QED BY <1>1, <1>2

LEMMA MillisecondsTyped ==
  ASSUME NEW d \in Int
  PROVE  Milliseconds(d) \in Int
<1>1. CASE d < 0
  <2>1. -d \in Nat
    BY <1>1
  <2> QED BY <1>1, <2>1, Words, DivNat DEF Milliseconds
<1>2. CASE d >= 0
  BY <1>2, Words, DivNat DEF Milliseconds
<1> QED BY <1>1, <1>2

\* A factor of an int64 is one.
LEMMA FactorFits ==
  ASSUME NEW k \in Int, NEW m \in Nat \ {0}, k * m \in Int64s
  PROVE  k \in Int64s
<1>1. CASE k >= 0
  <2>1. k * m >= k
    BY <1>1
  <2> QED BY <1>1, <2>1, Words DEF Int64s
<1>2. CASE k < 0
  <2>1. k * m <= k
    BY <1>2
  <2> QED BY <1>2, <2>1, Words DEF Int64s
<1> QED BY <1>1, <1>2

--------------------------------------------------------------------------------
(* Reading a limit *)

LEMMA Units ==
  /\ NsPerMs \in Nat \ {0} /\ MsPerSec * NsPerMs \in Nat \ {0}
  /\ SecPerMin * MsPerSec * NsPerMs \in Nat \ {0}
  /\ MsPerSec \in Nat /\ SecPerMin * MsPerSec \in Nat
<1>1. /\ NsPerMs \in Nat /\ NsPerMs >= 1 /\ MsPerSec \in Nat /\ MsPerSec >= 1
      /\ SecPerMin \in Nat /\ SecPerMin >= 1
  BY RequestAssumption
<1>2. MsPerSec * NsPerMs \in Nat /\ MsPerSec * NsPerMs >= 1
  BY <1>1
<1>3. SecPerMin * MsPerSec \in Nat /\ SecPerMin * MsPerSec >= 1
  BY <1>1
<1>4. SecPerMin * MsPerSec * NsPerMs \in Nat /\ SecPerMin * MsPerSec * NsPerMs >= 1
  BY <1>1, <1>3
<1> QED BY <1>1, <1>2, <1>3, <1>4

LEMMA UnixTyped ==
  ASSUME NEW t \in Nat
  PROVE  Unix(t) \in Nat
BY Units, DivNat DEF Unix

\* A float64 that is written without exponent is the number that was sent.
LEMMA SmallExact ==
  ASSUME NEW n \in Int, Float64(n) \in -Exponent+1..Exponent-1
  PROVE  Float64(n) = n
<1>1. Exponent \in Nat /\ Precise \in Nat /\ Exponent <= Precise
  BY RequestAssumption
<1>2. CASE n \in -Precise..Precise \/ n % 2 = 0
  BY <1>2 DEF Float64
<1>3. CASE n \notin -Precise..Precise /\ n % 2 # 0
  <2>1. Float64(n) = 4 * ((n + 2) \div 4)
    BY <1>3 DEF Float64
  <2>2. 4 * ((n + 2) \div 4) >= n - 1 /\ 4 * ((n + 2) \div 4) <= n + 1
    BY <1>3
  <2>3. Float64(n) \in Int
    BY <2>1
  <2>4. Float64(n) >= n - 1 /\ Float64(n) <= n + 1
    BY <2>1, <2>2
  <2>5. n >= Precise + 1 \/ n <= -Precise - 1
    BY <1>1, <1>3
  <2> QED BY <1>1, <2>3, <2>4, <2>5
<1> QED BY <1>2, <1>3

\* What ParseInt can read is an int64, the one that was sent.
LEMMA ParseIntExact ==
  ASSUME NEW v \in Value, ParseInt(Sprintf(v)) # None
  PROVE  /\ ParseInt(Sprintf(v)) \in Int64s
         /\ Name(v)[1].n = ParseInt(Sprintf(v))
<1> DEFINE t == Sprintf(v)
<1>1. /\ Len(t) = 1 /\ t[1].form = "digits" /\ t[1].n \in Int64s
      /\ ParseInt(t) = t[1].n
  BY DEF ParseInt, Int64s
<1>2. CASE v.json = "number"
  <2>1. t[1].form = IF Float64(v.n) \in -Exponent+1..Exponent-1
                    THEN "digits" ELSE "exponent"
    BY <1>2 DEF Sprintf
  <2>2. t[1].n = Float64(v.n) /\ v.n \in Int
    BY <1>2 DEF Sprintf, Value
  <2>3. Float64(v.n) = v.n
    BY <1>1, <2>1, <2>2, SmallExact
  <2>4. Name(v)[1].n = v.n
    BY <1>2 DEF Name, Digits
  <2> QED BY <1>1, <2>2, <2>3, <2>4
<1>3. CASE v.json = "string"
  <2>1. t = v.text /\ Name(v) = v.text
    BY <1>3 DEF Sprintf, Name
  <2> QED BY <1>1, <2>1
<1>4. CASE v.json = "null"
  <2>1. t[1].form = "nil"
    BY <1>4 DEF Sprintf, Nil
  <2> QED BY <1>1, <2>1
<1>5. v.json \in {"number", "string", "null"}
  BY DEF Value
<1> QED BY <1>2, <1>3, <1>4, <1>5

\* The number of an effective limit.
LEMMA EffectiveTyped ==
  ASSUME NEW l \in Limit, NEW t, Effective(l, t)
  PROVE  /\ l.unit \in {"msec", "sec", "min", "stop"}
         /\ Name(l.value)[1].n \in Int64s /\ Name(l.value)[1].n \in Int
         /\ ParseInt(Sprintf(l.value)) = Name(l.value)[1].n
<1>1. l.value \in Value /\ l.unit \in {"msec", "sec", "min", "stop"}
  BY DEF Limit
<1>2. ParseInt(Sprintf(l.value)) # None
  BY DEF Effective
<1>3. /\ ParseInt(Sprintf(l.value)) \in Int64s
      /\ Name(l.value)[1].n = ParseInt(Sprintf(l.value))
  BY <1>1, <1>2, ParseIntExact
<1> QED BY <1>1, <1>3, Words DEF Int64s

LEMMA UnitTyped ==
  ASSUME NEW l \in Limit, NEW t \in Nat, Effective(l, t)
  PROVE  Unit(l.unit) \in Nat \ {0} /\ Amount(l, t) \in Int
<1> DEFINE n == Name(l.value)[1].n
<1>1. /\ n \in Int /\ ParseInt(Sprintf(l.value)) = n
      /\ l.unit \in {"msec", "sec", "min", "stop"}
  BY EffectiveTyped
<1> HIDE DEF n
<1>2. Unit(l.unit) \in Nat \ {0}
  <2>1. CASE l.unit = "msec" BY <2>1, Units DEF Unit
  <2>2. CASE l.unit = "sec"  BY <2>2, Units DEF Unit
  <2>3. CASE l.unit = "min"  BY <2>3, Units DEF Unit
  <2>4. CASE l.unit = "stop" BY <2>4, Units DEF Unit
  <2> QED BY <1>1, <2>1, <2>2, <2>3, <2>4
<1>3. Amount(l, t) \in Int
  <2>1. n - Unix(t) \in Int
    BY <1>1, UnixTyped
  <2>2. Int64(n - Unix(t)) \in Int
    BY <2>1, Int64Typed, Words DEF Int64s
  <2> QED BY <1>1, <2>2 DEF Amount
<1> QED BY <1>2, <1>3

LEMMA ReadTTRTyped ==
  ASSUME NEW l \in Limit, NEW t \in Nat, Effective(l, t)
  PROVE  ReadTTR(l, t) \in 0..2*Half-1
<1>1. Amount(l, t) * Unit(l.unit) \in Int
  BY UnitTyped
<1>2. Int64(Amount(l, t) * Unit(l.unit)) \in Int
  BY <1>1, Int64Typed, Words DEF Int64s
<1>3. Milliseconds(Int64(Amount(l, t) * Unit(l.unit))) \in Int
  BY <1>2, MillisecondsTyped
<1> QED BY <1>3, Words, ModRange DEF ReadTTR, Uint64

\* A limit in whole milliseconds, as all of them are.
LEMMA LimitInMilliseconds ==
  ASSUME NEW l \in Limit, NEW t \in Nat, Readable(l, t)
  PROVE  \E k \in Int : Exact(l, t) = k * NsPerMs
                     /\ Amount(l, t) * Unit(l.unit) = k * NsPerMs
<1> DEFINE n == Name(l.value)[1].n
<1>1. /\ n \in Int /\ ParseInt(Sprintf(l.value)) = n
      /\ l.unit \in {"msec", "sec", "min", "stop"}
  BY EffectiveTyped DEF Readable
<1>0. /\ Exact(l, t) = CASE l.unit = "msec" -> n * NsPerMs
                       [] l.unit = "sec"  -> n * (MsPerSec * NsPerMs)
                       [] l.unit = "min"  -> n * (SecPerMin * MsPerSec * NsPerMs)
                       [] l.unit = "stop" -> (n - Unix(t)) * (MsPerSec * NsPerMs)
      /\ Amount(l, t) = IF l.unit = "stop" THEN Int64(n - Unix(t)) ELSE n
  BY <1>1 DEF Exact, Amount
<1> HIDE DEF n
<1>2. CASE l.unit = "msec"
  BY <1>0, <1>1, <1>2 DEF Unit
<1>3. CASE l.unit = "sec"
  <2>1. n * (MsPerSec * NsPerMs) = (n * MsPerSec) * NsPerMs
    BY <1>1, Units
  <2>2. n * MsPerSec \in Int
    BY <1>1, Units
  <2> QED BY <1>0, <1>3, <2>1, <2>2 DEF Unit
<1>4. CASE l.unit = "min"
  <2>1. n * (SecPerMin * MsPerSec * NsPerMs)
          = (n * (SecPerMin * MsPerSec)) * NsPerMs
    BY <1>1, Units
  <2>2. n * (SecPerMin * MsPerSec) \in Int
    BY <1>1, Units
  <2> QED BY <1>0, <1>4, <2>1, <2>2 DEF Unit
<1>5. CASE l.unit = "stop"
  <2> DEFINE left == n - Unix(t)
  <2>1. left \in Int
    BY <1>1, UnixTyped
  <2>2. Exact(l, t) = left * (MsPerSec * NsPerMs)
    BY <1>0, <1>5
  <2>3. left \in Int64s
    BY <2>1, <2>2, Units, FactorFits DEF Readable, Int64s
  <2>4. Amount(l, t) * Unit(l.unit) = left * (MsPerSec * NsPerMs)
    BY <1>0, <1>5, <2>3, Int64Keeps DEF Unit
  <2> HIDE DEF left
  <2>5. left * (MsPerSec * NsPerMs) = (left * MsPerSec) * NsPerMs
    BY <2>1, Units
  <2>6. left * MsPerSec \in Int
    BY <2>1, Units
  <2> QED BY <2>2, <2>4, <2>5, <2>6
<1> QED BY <1>1, <1>2, <1>3, <1>4, <1>5

\* A limit that can be read comes through the conversions unharmed.
LEMMA ReadTTRExact ==
  ASSUME NEW l \in Limit, NEW t \in Nat, Readable(l, t)
  PROVE  ReadTTR(l, t) >= 1 /\ Int64(Int64(ReadTTR(l, t)) * NsPerMs) = Exact(l, t)
<1>1. PICK k \in Int : Exact(l, t) = k * NsPerMs
                    /\ Amount(l, t) * Unit(l.unit) = k * NsPerMs
  BY LimitInMilliseconds
<1>2. k * NsPerMs \in Int64s /\ k # 0
  BY <1>1, Words DEF Readable, Int64s
<1>3. k \in Int64s
  BY <1>2, Words, FactorFits
<1>4. Int64(k * NsPerMs) = k * NsPerMs
  BY <1>2, Int64Keeps
<1>5. ReadTTR(l, t) = Uint64(k)
  BY <1>1, <1>4, MillisecondsExact DEF ReadTTR
<1>6. Int64(Uint64(k)) = k /\ Uint64(k) \in 1..2*Half-1
  BY <1>2, <1>3, ThroughUint64
<1> QED BY <1>1, <1>4, <1>5, <1>6, Words

\* Every job has a time to run.
LEMMA TTRsTyped ==
  ASSUME NEW limits \in LimitRows, NEW t \in Nat, NEW ttr \in TTRs(limits, t)
  PROVE  ttr \in 1..2*Half-1
<1> DEFINE read == {ReadTTR(l, t) : l \in {l \in limits : Effective(l, t)}}
<1>1. read \subseteq 0..2*Half-1
  BY RequestAssumption, ReadTTRTyped
<1>2. PICK u \in IF read = {} THEN {0} ELSE read : ttr = IF u < 1 THEN DefaultTTR ELSE u
  BY DEF TTRs
<1>3. u \in 0..2*Half-1
  BY <1>1, <1>2, Words
<1> QED BY <1>2, <1>3, RequestAssumption

\* A single limit that can be read is the time to run.
LEMMA TTRsMeant ==
  ASSUME NEW limits \in LimitRows, NEW t \in Nat, NEW ttr \in TTRs(limits, t),
         Meant(limits, t) # None
  PROVE  Int64(Int64(ttr) * NsPerMs) = Meant(limits, t)
<1>1. limits \subseteq Limit /\ IsFiniteSet(limits) /\ Cardinality(limits) = 1
  BY RequestAssumption DEF Meant
<1>2. PICK l : limits = {l}
  BY <1>1, FS_Singleton
<1>3. l \in Limit /\ Readable(l, t) /\ Meant(limits, t) = Exact(l, t)
  <2>1. (CHOOSE m \in limits : TRUE) = l
    BY <1>2
  <2> QED BY <1>1, <1>2, <2>1 DEF Meant
<1>4. {ReadTTR(m, t) : m \in {m \in limits : Effective(m, t)}} = {ReadTTR(l, t)}
  BY <1>2, <1>3 DEF Readable
<1>5. ReadTTR(l, t) \in 0..2*Half-1 /\ ReadTTR(l, t) >= 1
  BY <1>3, ReadTTRTyped, ReadTTRExact DEF Readable
<1>6. ttr = ReadTTR(l, t)
  BY <1>4, <1>5 DEF TTRs
<1> QED BY <1>3, <1>6, ReadTTRExact

--------------------------------------------------------------------------------
(* The environment *)

\* What EnvVars adds up, read by read.
LEMMA EnvVarsTyped ==
  ASSUME NEW values \in EnvRows, NEW env \in EnvVars(values)
  PROVE  env \in Seq(Vars)
<1>1. /\ Cardinality(values) \in Nat
      /\ \A v \in values : v.vars \in Seq(Vars)
  BY RequestAssumption, FS_CardinalityType
<1>2. PICK order \in SetToSeqs(values) :
        env = LET e[i \in 0..Len(order)] ==
                    IF i = 0 THEN << >> ELSE ReadEnv(e[i - 1], order[i])
              IN  e[Len(order)]
  BY DEF EnvVars
<1>3. order \in [1..Cardinality(values) -> values]
  BY <1>2 DEF SetToSeqs
<1> DEFINE m == Len(order)
<1>4. m \in Nat /\ \A i \in 1..m : order[i] \in values
  <2>1. order \in Seq(values)
    BY <1>1, <1>3
  <2> QED BY <2>1
<1> HIDE DEF m
<1> DEFINE Turn(g) == [i \in 0..m |->
                         IF i = 0 THEN << >> ELSE ReadEnv(g[i - 1], order[i])]
           loop == CHOOSE g : g = Turn(g)
<1>5. env = loop[m]
  BY <1>2 DEF m
<1>6. \A e \in Seq(Vars), i \in 1..m : ReadEnv(e, order[i]) \in Seq(Vars)
  BY <1>1, <1>4 DEF ReadEnv
<1>7. \E g : g = Turn(g)
  <2> DEFINE step == [q \in Seq(Vars) \X (1..m) |-> ReadEnv(q[1], order[q[2]])]
  <2>1. step \in [Seq(Vars) \X (1..m) -> Seq(Vars)] /\ << >> \in Seq(Vars)
    BY <1>6
  <2>2. \A e \in Seq(Vars), i \in 1..m : step[<<e, i>>] = ReadEnv(e, order[i])
    OBVIOUS
  <2> HIDE DEF step
  <2>3. PICK f \in [0..m -> Seq(Vars)] :
          Loop(f, m, << >>, step)
    BY <1>4, <2>1, LoopExists
  <2>4. \A i \in 0..m : i # 0 => f[i - 1] \in Seq(Vars) /\ i \in 1..m
    BY <1>4
  <2>5. f = Turn(f)
    BY <2>2, <2>3, <2>4 DEF Loop
  <2> QED BY <2>5
<1>8. loop = Turn(loop)
  <2> HIDE DEF Turn
  <2> QED BY <1>7
<1> HIDE DEF loop
<1>9. loop[0] = << >> /\ \A i \in 1..m : loop[i] = ReadEnv(loop[i - 1], order[i])
  BY <1>4, <1>8
<1> DEFINE T == {i \in 0..m : loop[i] \in Seq(Vars)}
<1>10. 0 \in T /\ \A n \in 0..m-1 : n \in T => n + 1 \in T
  <2>1. 0 \in T
    <3>1. << >> \in Seq(Vars) /\ 0 \in 0..m
      BY <1>4
    <3> QED BY <1>9, <3>1
  <2>2. ASSUME NEW n \in 0..m-1, n \in T PROVE n + 1 \in T
    <3>1. n + 1 \in 1..m /\ n + 1 \in 0..m /\ (n + 1) - 1 = n
      BY <1>4
    <3>2. loop[n + 1] = ReadEnv(loop[n], order[n + 1])
      BY <1>9, <3>1
    <3> QED BY <1>6, <2>2, <3>1, <3>2
  <2> QED BY <2>1, <2>2
<1>11. m \in T
  <2>1. 0..m \subseteq T
    <3> HIDE DEF T
    <3> QED BY <1>4, <1>10, IntervalInduction
  <2> QED BY <1>4, <2>1
<1> QED BY <1>5, <1>11

\* j is the first variable of the name k in s.
FirstAt(s, k, j) ==
  /\ j \in DOMAIN s /\ s[j].key = k /\ s[j].val # None
  /\ \A l \in 1..j-1 : s[l].key = k => s[l].val = None

\* There is none.
NoneIn(s, k) == \A j \in DOMAIN s : s[j].key = k => s[j].val = None

LEMMA FirstFound ==
  ASSUME NEW s \in Seq(Vars), NEW k, NEW j, FirstAt(s, k, j)
  PROVE  FirstOf(s, k) = s[j].val
<1> DEFINE set == {i \in DOMAIN s : s[i].key = k /\ s[i].val # None}
<1>1. j \in set /\ \A i \in set : j <= i
  BY DEF FirstAt
<1>2. set \subseteq Nat /\ set # {}
  BY <1>1
<1>3. FirstOf(s, k) = s[CHOOSE i \in set : \A l \in set : i <= l].val
  BY <1>2 DEF FirstOf
<1> HIDE DEF set
<1>4. \A i \in set : (\A l \in set : i <= l) => i = j
  BY <1>1, <1>2
<1>5. (CHOOSE i \in set : \A l \in set : i <= l) = j
  BY <1>1, <1>4
<1> QED BY <1>3, <1>5

LEMMA NoneFound ==
  ASSUME NEW s, NEW k, NoneIn(s, k)
  PROVE  FirstOf(s, k) = None
BY DEF FirstOf, NoneIn

LEMMA FoundOrNot ==
  ASSUME NEW s \in Seq(Vars), NEW k
  PROVE  NoneIn(s, k) \/ \E j : FirstAt(s, k, j)
<1> SUFFICES ASSUME ~NoneIn(s, k) PROVE \E j : FirstAt(s, k, j)
  OBVIOUS
<1> DEFINE set == {i \in DOMAIN s : s[i].key = k /\ s[i].val # None}
<1>1. set \in SUBSET Nat /\ set # {}
  BY DEF NoneIn
<1>2. PICK j \in set : \A i \in set : j <= i
  <2> HIDE DEF set
  <2> QED BY <1>1, LeastNumber
<1>3. \A l \in 1..j-1 : l \in DOMAIN s /\ ~(j <= l)
  BY <1>2
<1>4. FirstAt(s, k, j)
  BY <1>2, <1>3 DEF FirstAt
<1> QED BY <1>4

LEMMA FirstOfBoth ==
  ASSUME NEW b \in Seq(Vars), NEW c \in Seq(Vars), NEW k
  PROVE  FirstOf(b \o c, k) =
           IF FirstOf(b, k) # None THEN FirstOf(b, k) ELSE FirstOf(c, k)
<1> DEFINE s == b \o c
<1>1. /\ s \in Seq(Vars) /\ DOMAIN s = 1..Len(b) + Len(c)
      /\ DOMAIN b = 1..Len(b) /\ DOMAIN c = 1..Len(c)
      /\ Len(b) \in Nat /\ Len(c) \in Nat
      /\ \A i \in 1..Len(b) : s[i] = b[i]
      /\ \A i \in 1..Len(c) : s[Len(b) + i] = c[i]
  OBVIOUS
<1>2. \A i \in DOMAIN s : i \notin 1..Len(b) =>
        i - Len(b) \in 1..Len(c) /\ i = Len(b) + (i - Len(b))
  BY <1>1
<1> HIDE DEF s
<1>3. CASE \E j : FirstAt(b, k, j)
  <2>1. PICK j : FirstAt(b, k, j)
    BY <1>3
  <2>2. FirstAt(s, k, j) /\ s[j] = b[j]
    <3>1. j \in 1..Len(b) /\ j \in DOMAIN s /\ \A l \in 1..j-1 : l \in 1..Len(b)
      BY <1>1, <2>1 DEF FirstAt
    <3> QED BY <1>1, <2>1, <3>1 DEF FirstAt
  <2>3. FirstOf(b, k) = b[j].val /\ b[j].val # None
    BY <2>1, FirstFound DEF FirstAt
  <2>4. FirstOf(s, k) = b[j].val
    BY <1>1, <2>2, FirstFound
  <2> QED BY <2>3, <2>4 DEF s
<1>4. CASE NoneIn(b, k) /\ \E j : FirstAt(c, k, j)
  <2>1. PICK j : FirstAt(c, k, j)
    BY <1>4
  <2> DEFINE q == Len(b) + j
  <2>2. j \in 1..Len(c) /\ q \in DOMAIN s /\ s[q] = c[j]
    BY <1>1, <2>1 DEF FirstAt
  <2>3. ASSUME NEW l \in 1..q-1, s[l].key = k PROVE s[l].val = None
    <3>1. l \in DOMAIN s
      BY <1>1, <2>2
    <3>2. CASE l \in 1..Len(b)
      <4>1. s[l] = b[l] /\ l \in DOMAIN b
        BY <1>1, <3>2
      <4> QED BY <1>4, <2>3, <4>1 DEF NoneIn
    <3>3. CASE l \notin 1..Len(b)
      <4>1. PICK p : p = l - Len(b)
        OBVIOUS
      <4>2. p \in 1..Len(c) /\ l = Len(b) + p
        BY <1>2, <3>1, <3>3, <4>1
      <4>3. p \in 1..j-1 /\ s[l] = c[p]
        BY <1>1, <2>2, <4>2
      <4> QED BY <2>1, <2>3, <4>3 DEF FirstAt
    <3> QED BY <3>2, <3>3
  <2>4. FirstAt(s, k, q)
    <3>1. s[q].key = k /\ s[q].val # None
      BY <2>1, <2>2 DEF FirstAt
    <3> HIDE DEF q
    <3> QED BY <2>2, <2>3, <3>1 DEF FirstAt
  <2>5. FirstOf(c, k) = c[j].val /\ FirstOf(s, k) = s[q].val
    <3> HIDE DEF q
    <3> QED BY <1>1, <2>1, <2>4, FirstFound
  <2>6. FirstOf(b, k) = None
    BY <1>4, NoneFound
  <2> QED BY <2>2, <2>5, <2>6 DEF s
<1>5. CASE NoneIn(b, k) /\ NoneIn(c, k)
  <2>1. ASSUME NEW l \in DOMAIN s, s[l].key = k PROVE s[l].val = None
    <3>2. CASE l \in 1..Len(b)
      <4>1. s[l] = b[l] /\ l \in DOMAIN b
        BY <1>1, <3>2
      <4> QED BY <1>5, <2>1, <4>1 DEF NoneIn
    <3>3. CASE l \notin 1..Len(b)
      <4>1. PICK p : p = l - Len(b)
        OBVIOUS
      <4>2. p \in DOMAIN c /\ s[l] = c[p]
        BY <1>1, <1>2, <3>3, <4>1
      <4> QED BY <1>5, <2>1, <4>2 DEF NoneIn
    <3> QED BY <3>2, <3>3
  <2>2. NoneIn(s, k)
    BY <2>1 DEF NoneIn
  <2> QED BY <1>5, <2>2, NoneFound DEF s
<1> QED BY <1>3, <1>4, <1>5, FoundOrNot

\* All that MergeEnvVars goes through.
Merged(own) == own \o Environ \o <<DefaultPath>>

MergeDrops(kept, e) ==
  e.val = None \/ \E i \in DOMAIN kept : kept[i].key = e.key

\* kept has what MergeEnvVars keeps of m, after each turn of its loop.
MergeTurns(kept, m) ==
  /\ kept \in [0..Len(m) -> Seq(Vars)] /\ kept[0] = << >>
  /\ \A i \in 1..Len(m) :
       kept[i] = IF MergeDrops(kept[i - 1], m[i]) THEN kept[i - 1]
                 ELSE Append(kept[i - 1], m[i])

LEMMA MergedTyped ==
  ASSUME NEW own \in Seq(Vars)
  PROVE  Merged(own) \in Seq(Vars)
BY RequestAssumption DEF Merged

LEMMA MergeLoops ==
  ASSUME NEW own \in Seq(Vars)
  PROVE  \E kept : /\ MergeTurns(kept, Merged(own))
                   /\ MergeEnvVars(own) = kept[Len(Merged(own))]
<1> DEFINE m == Merged(own)
           n == Len(m)
           Turn(g) == [i \in 0..n |->
                         IF i = 0 THEN << >>
                         ELSE IF MergeDrops(g[i - 1], m[i]) THEN g[i - 1]
                         ELSE Append(g[i - 1], m[i])]
           loop == CHOOSE g : g = Turn(g)
<1>1. MergeEnvVars(own) = loop[n]
  BY DEF MergeEnvVars, MergeDrops, Merged
<1>2. n \in Nat /\ \A i \in 1..n : m[i] \in Vars
  BY MergedTyped
<1> HIDE DEF m, n
<1>3. \E g \in [0..n -> Seq(Vars)] : g = Turn(g)
  <2> DEFINE step == [q \in Seq(Vars) \X (1..n) |->
                        IF MergeDrops(q[1], m[q[2]]) THEN q[1]
                        ELSE Append(q[1], m[q[2]])]
  <2>1. step \in [Seq(Vars) \X (1..n) -> Seq(Vars)] /\ << >> \in Seq(Vars)
    BY <1>2
  <2>2. \A e \in Seq(Vars), i \in 1..n :
          step[<<e, i>>] = IF MergeDrops(e, m[i]) THEN e ELSE Append(e, m[i])
    OBVIOUS
  <2> HIDE DEF step
  <2>3. PICK f \in [0..n -> Seq(Vars)] : Loop(f, n, << >>, step)
    BY <1>2, <2>1, LoopExists
  <2>4. \A i \in 0..n : i # 0 => f[i - 1] \in Seq(Vars) /\ i \in 1..n
    BY <1>2
  <2>5. f = Turn(f)
    BY <2>2, <2>3, <2>4 DEF Loop
  <2> QED BY <2>5
<1>4. loop = Turn(loop)
  <2> HIDE DEF Turn
  <2> QED BY <1>3
<1> HIDE DEF loop
<1>5. /\ loop[0] = << >>
      /\ \A i \in 1..n : loop[i] = IF MergeDrops(loop[i - 1], m[i]) THEN loop[i - 1]
                                   ELSE Append(loop[i - 1], m[i])
  <2>1. ASSUME NEW i \in 0..n
        PROVE  loop[i] = IF i = 0 THEN << >>
                         ELSE IF MergeDrops(loop[i - 1], m[i]) THEN loop[i - 1]
                         ELSE Append(loop[i - 1], m[i])
    <3>1. PICK g : g = Turn(loop)
      OBVIOUS
    <3>2. g[i] = IF i = 0 THEN << >>
                 ELSE IF MergeDrops(loop[i - 1], m[i]) THEN loop[i - 1]
                 ELSE Append(loop[i - 1], m[i])
      BY <3>1
    <3> HIDE DEF Turn
    <3> QED BY <1>4, <3>1, <3>2
  <2>2. 0 \in 0..n /\ \A i \in 1..n : i \in 0..n /\ i # 0
    BY <1>2
  <2> QED BY <2>1, <2>2
<1> DEFINE T == {i \in 0..n : loop[i] \in Seq(Vars)}
<1>6. 0 \in T /\ \A i \in 0..n-1 : i \in T => i + 1 \in T
  <2>1. 0 \in T
    <3>1. << >> \in Seq(Vars) /\ 0 \in 0..n
      BY <1>2
    <3> QED BY <1>5, <3>1
  <2>2. ASSUME NEW i \in 0..n-1, i \in T PROVE i + 1 \in T
    <3>1. i + 1 \in 1..n /\ i + 1 \in 0..n /\ (i + 1) - 1 = i
      BY <1>2
    <3>2. loop[i + 1] = IF MergeDrops(loop[i], m[i + 1]) THEN loop[i]
                        ELSE Append(loop[i], m[i + 1])
      BY <1>5, <3>1
    <3>3. loop[i] \in Seq(Vars) /\ Append(loop[i], m[i + 1]) \in Seq(Vars)
      BY <1>2, <2>2, <3>1
    <3>4. loop[i + 1] \in Seq(Vars)
      BY <3>2, <3>3
    <3> QED BY <3>1, <3>4
  <2> QED BY <2>1, <2>2
<1>7. 0..n \subseteq T
  <2> HIDE DEF T
  <2> QED BY <1>2, <1>6, IntervalInduction
<1>8. loop \in [0..n -> Seq(Vars)]
  BY <1>4, <1>7
<1>9. MergeTurns(loop, m)
  BY <1>5, <1>8 DEF MergeTurns, n
<1> QED BY <1>1, <1>9 DEF m, n

\* What the first n entries of m have left in kept: each name's first value, once.
Firsts(kept, m, n) ==
  /\ \A i \in DOMAIN kept : \E j : FirstAt(m, kept[i].key, j) /\ kept[i] = m[j]
  /\ \A i, l \in DOMAIN kept : kept[i].key = kept[l].key => i = l
  /\ \A j \in 1..n : m[j].val # None => \E i \in DOMAIN kept : kept[i].key = m[j].key

LEMMA MergeTurn ==
  ASSUME NEW m \in Seq(Vars), NEW n \in 0..Len(m)-1, NEW kept \in Seq(Vars),
         Firsts(kept, m, n), NEW next,
         next = IF MergeDrops(kept, m[n + 1]) THEN kept ELSE Append(kept, m[n + 1])
  PROVE  Firsts(next, m, n + 1)
<1> DEFINE e == m[n + 1]
<1>1. n + 1 \in DOMAIN m /\ \A j \in 1..n+1 : j \in 1..n \/ j = n + 1
  OBVIOUS
<1>2. CASE MergeDrops(kept, e)
  <2>1. next = kept
    BY <1>2
  <2>2. ASSUME NEW j \in 1..n+1, m[j].val # None
        PROVE  \E i \in DOMAIN kept : kept[i].key = m[j].key
    <3>1. CASE j \in 1..n
      BY <2>2, <3>1 DEF Firsts
    <3>2. CASE j = n + 1
      BY <1>2, <2>2, <3>2 DEF MergeDrops
    <3> QED BY <1>1, <3>1, <3>2
  <2> QED BY <2>1, <2>2 DEF Firsts
<1>3. CASE ~MergeDrops(kept, e)
  <2> DEFINE p == Len(kept) + 1
  <2>1. /\ next = Append(kept, e) /\ p \in Nat /\ DOMAIN next = 1..p
        /\ DOMAIN kept = 1..p-1 /\ next[p] = e
        /\ \A i \in DOMAIN kept : next[i] = kept[i] /\ i \in DOMAIN next
        /\ \A i \in DOMAIN next : i \in DOMAIN kept \/ i = p
    BY <1>3
  <2>2. e.val # None /\ \A i \in DOMAIN kept : kept[i].key # e.key
    BY <1>3 DEF MergeDrops
  <2> HIDE DEF p
  <2>3. FirstAt(m, e.key, n + 1)
    <3>1. ASSUME NEW l \in 1..n, m[l].key = e.key PROVE m[l].val = None
      BY <2>2, <3>1 DEF Firsts
    <3>2. (n + 1) - 1 = n
      OBVIOUS
    <3> QED BY <1>1, <2>2, <3>1, <3>2 DEF FirstAt
  <2>4. ASSUME NEW i \in DOMAIN next
        PROVE  \E j : FirstAt(m, next[i].key, j) /\ next[i] = m[j]
    <3>1. CASE i \in DOMAIN kept
      BY <2>1, <3>1 DEF Firsts
    <3>2. CASE i = p
      BY <2>1, <2>3, <3>2
    <3> QED BY <2>1, <3>1, <3>2
  <2>5. ASSUME NEW i \in DOMAIN next, NEW l \in DOMAIN next, next[i].key = next[l].key
        PROVE  i = l
    <3>1. CASE i = p /\ l = p
      BY <3>1
    <3>2. CASE i \in DOMAIN kept /\ l \in DOMAIN kept
      BY <2>1, <2>5, <3>2 DEF Firsts
    <3>3. CASE i = p /\ l \in DOMAIN kept
      BY <2>1, <2>2, <2>5, <3>3
    <3>4. CASE i \in DOMAIN kept /\ l = p
      BY <2>1, <2>2, <2>5, <3>4
    <3> QED BY <2>1, <3>1, <3>2, <3>3, <3>4
  <2>6. ASSUME NEW j \in 1..n+1, m[j].val # None
        PROVE  \E i \in DOMAIN next : next[i].key = m[j].key
    <3>1. CASE j \in 1..n
      <4>1. PICK i \in DOMAIN kept : kept[i].key = m[j].key
        BY <2>6, <3>1 DEF Firsts
      <4> QED BY <2>1, <4>1
    <3>2. CASE j = n + 1
      <4>1. p \in DOMAIN next
        BY <2>1
      <4> QED BY <2>1, <3>2, <4>1
    <3> QED BY <1>1, <3>1, <3>2
  <2> QED BY <2>4, <2>5, <2>6 DEF Firsts
<1> QED BY <1>2, <1>3

\* The environment of a command has the variables of its job, then the worker's, then
\* DefaultPath, each with the first value it has there.
LEMMA MergeKeepsFirsts ==
  ASSUME NEW own \in Seq(Vars)
  PROVE  /\ MergeEnvVars(own) \in Seq(Vars)
         /\ Firsts(MergeEnvVars(own), Merged(own), Len(Merged(own)))
<1>1. PICK m, n : m = Merged(own) /\ n = Len(m)
  OBVIOUS
<1>2. m \in Seq(Vars) /\ n \in Nat
  BY <1>1, MergedTyped
<1>3. PICK kept : MergeTurns(kept, m) /\ MergeEnvVars(own) = kept[n]
  BY <1>1, MergeLoops
<1>4. kept \in [0..n -> Seq(Vars)] /\ kept[0] = << >>
  BY <1>1, <1>3 DEF MergeTurns
<1> DEFINE T == {i \in 0..n : Firsts(kept[i], m, i)}
<1>5. 0 \in T
  <2>1. Firsts(<< >>, m, 0)
    BY DEF Firsts
  <2>2. 0 \in 0..n
    BY <1>2
  <2> QED BY <1>4, <2>1, <2>2
<1>6. ASSUME NEW i \in 0..n-1, i \in T PROVE i + 1 \in T
  <2>1. /\ i + 1 \in 1..Len(m) /\ i + 1 \in 0..n /\ (i + 1) - 1 = i
        /\ i \in 0..n /\ i \in 0..Len(m)-1
    BY <1>1, <1>2
  <2>2. kept[i + 1] = IF MergeDrops(kept[i], m[i + 1]) THEN kept[i]
                      ELSE Append(kept[i], m[i + 1])
    BY <1>3, <2>1 DEF MergeTurns
  <2>3. kept[i] \in Seq(Vars)
    BY <1>4, <2>1
  <2>4. Firsts(kept[i + 1], m, i + 1)
    BY <1>2, <1>6, <2>1, <2>2, <2>3, MergeTurn
  <2> QED BY <2>1, <2>4
<1>7. n \in T
  <2>1. 0..n \subseteq T
    <3> HIDE DEF T
    <3> QED BY <1>2, <1>5, <1>6, IntervalInduction
  <2> QED BY <1>2, <2>1
<1>8. kept[n] \in Seq(Vars)
  BY <1>2, <1>4
<1> QED BY <1>1, <1>3, <1>7, <1>8

\* A command reads a variable as its job sets it, else as the worker has it, else the
\* default PATH.
LEMMA CommandReads ==
  ASSUME NEW own \in Seq(Vars), NEW k
  PROVE  Getenv(MergeEnvVars(own), k) =
           IF FirstOf(own, k) # None THEN FirstOf(own, k)
           ELSE IF FirstOf(Environ, k) # None THEN FirstOf(Environ, k)
           ELSE FirstOf(<<DefaultPath>>, k)
<1>1. PICK m, kept : m = Merged(own) /\ kept = MergeEnvVars(own)
  OBVIOUS
<1>2. m \in Seq(Vars) /\ kept \in Seq(Vars) /\ Firsts(kept, m, Len(m))
  BY <1>1, MergedTyped, MergeKeepsFirsts
<1> DEFINE set == {i \in DOMAIN kept : kept[i].key = k}
<1>3. Getenv(kept, k) =
        IF set = {} THEN None ELSE kept[CHOOSE i \in set : \A j \in set : j <= i].val
  BY DEF Getenv
<1>4. Getenv(kept, k) = FirstOf(m, k)
  <2>1. CASE set = {}
    <3>1. ~\E j : FirstAt(m, k, j)
      BY <1>2, <2>1 DEF FirstAt, Firsts
    <3>2. NoneIn(m, k)
      BY <1>2, <3>1, FoundOrNot
    <3> QED BY <1>3, <2>1, <3>2, NoneFound
  <2>2. CASE set # {}
    <3>1. PICK i \in set : TRUE
      BY <2>2
    <3>2. set = {i} /\ i \in Nat
      BY <1>2, <3>1 DEF Firsts
    <3>3. (CHOOSE l \in set : \A j \in set : j <= l) = i
      <4> HIDE DEF set
      <4> QED BY <3>2
    <3>4. PICK j : FirstAt(m, k, j) /\ kept[i] = m[j]
      BY <1>2, <3>1 DEF Firsts
    <3>5. Getenv(kept, k) = kept[i].val
      <4> HIDE DEF set
      <4> QED BY <1>3, <2>2, <3>3
    <3> QED BY <1>2, <3>4, <3>5, FirstFound
  <2> QED BY <2>1, <2>2
<1>5. PICK b, c : b = own \o Environ /\ c = <<DefaultPath>>
  OBVIOUS
<1>6. /\ b \in Seq(Vars) /\ c \in Seq(Vars) /\ Environ \in Seq(Vars)
      /\ m = b \o c
  <2>1. Environ \in Seq(Vars) /\ c \in Seq(Vars)
    BY <1>5, RequestAssumption
  <2>2. b \in Seq(Vars)
    BY <1>5, <2>1
  <2>3. m = b \o c
    BY <1>1, <1>5, <2>1 DEF Merged
  <2> QED BY <2>1, <2>2, <2>3
<1>7. FirstOf(b \o c, k) = IF FirstOf(b, k) # None THEN FirstOf(b, k) ELSE FirstOf(c, k)
  BY <1>6, FirstOfBoth
<1>8. FirstOf(b, k) =
        IF FirstOf(own, k) # None THEN FirstOf(own, k) ELSE FirstOf(Environ, k)
  BY <1>5, <1>6, FirstOfBoth
<1> QED BY <1>1, <1>4, <1>5, <1>6, <1>7, <1>8

--------------------------------------------------------------------------------
(* The keys *)

FieldNames == {"id", "run", "extra"}

LEMMA FieldTyped ==
  ASSUME NEW r \in KeyRows, NEW f
  PROVE  Field(r, f) \subseteq Value
BY RequestAssumption DEF KeyRow, Field, Sent

Joined(I, U, X) == {StoreKey(i, u, x) : i \in I, u \in U, x \in X}

LEMMA JoinedOf ==
  ASSUME NEW I, NEW U, NEW X, NEW k \in Joined(I, U, X)
  PROVE  \E i \in I, u \in U, x \in X : k = StoreKey(i, u, x)
BY DEF Joined

\* The two copies make the same of a row.
LEMMA KeysOfFields ==
  ASSUME NEW r
  PROVE  /\ CancelKeys(r) = StoreKeys(r)
         /\ StoreKeys(r) = Joined(Texts(Field(r, "id")) \ {Empty},
                                  Texts(Field(r, "run")), Texts(Field(r, "extra")))
<1>1. CancellerNames = GeneratorNames
  BY DEF CancellerNames, GeneratorNames
<1>2. /\ Sent(r, GeneratorNames.id) = Field(r, "id")
      /\ Sent(r, GeneratorNames.run) = Field(r, "run")
      /\ Sent(r, GeneratorNames.extra) = Field(r, "extra")
  BY DEF Field
<1>3. StoreKeys(r) = Joined(Texts(Sent(r, GeneratorNames.id)) \ {Empty},
                            Texts(Sent(r, GeneratorNames.run)),
                            Texts(Sent(r, GeneratorNames.extra)))
  BY DEF StoreKeys, Joined
<1>4. CancelKeys(r) = Joined(Texts(Sent(r, CancellerNames.id)) \ {Empty},
                             Texts(Sent(r, CancellerNames.run)),
                             Texts(Sent(r, CancellerNames.extra)))
  BY DEF CancelKeys, Joined
<1> QED BY <1>1, <1>2, <1>3, <1>4

LEMMA KeyOfFields ==
  ASSUME NEW r, NEW k \in StoreKeys(r)
  PROVE  \E i \in Texts(Field(r, "id")) \ {Empty}, u \in Texts(Field(r, "run")),
            x \in Texts(Field(r, "extra")) : k = StoreKey(i, u, x)
<1> DEFINE I == Texts(Field(r, "id")) \ {Empty}
           U == Texts(Field(r, "run"))
           X == Texts(Field(r, "extra"))
<1>1. k \in Joined(I, U, X)
  BY KeysOfFields
<1> HIDE DEF I, U, X
<1>2. \E i \in I, u \in U, x \in X : k = StoreKey(i, u, x)
  BY <1>1, JoinedOf
<1> QED BY <1>2 DEF I, U, X

LEMMA KeyTyped ==
  ASSUME NEW r \in KeyRows, NEW k \in StoreKeys(r)
  PROVE  \E i \in KeyTexts \ {Empty}, u, x \in KeyTexts : k = StoreKey(i, u, x)
<1>1. PICK i \in Texts(Field(r, "id")) \ {Empty}, u \in Texts(Field(r, "run")),
           x \in Texts(Field(r, "extra")) : k = StoreKey(i, u, x)
  BY KeyOfFields
<1>2. ASSUME NEW f \in FieldNames, NEW t \in Texts(Field(r, f)) PROVE t \in KeyTexts
  BY <1>2 DEF KeyTexts, FieldNames
<1>3. i \in KeyTexts \ {Empty} /\ u \in KeyTexts /\ x \in KeyTexts
  BY <1>1, <1>2 DEF FieldNames
<1> QED BY <1>1, <1>3

\* What needs no exponent is written by its digits.
LEMMA TextIsName ==
  ASSUME NEW v \in Value, v.json = "number" => v.n \in -Exponent+1..Exponent-1
  PROVE  Sprintf(v) = Name(v)
<1>1. CASE v.json = "number"
  <2>1. v.n \in -Precise..Precise
    BY <1>1, RequestAssumption
  <2>2. Float64(v.n) = v.n
    BY <2>1 DEF Float64
  <2> QED BY <1>1, <2>2 DEF Sprintf, Name, Digits
<1>2. CASE v.json = "string"
  BY <1>2 DEF Sprintf, Name
<1>3. CASE v.json = "null"
  BY <1>3 DEF Sprintf, Name
<1>4. v.json \in {"number", "string", "null"}
  BY DEF Value
<1> QED BY <1>1, <1>2, <1>3, <1>4

LEMMA AlikeText ==
  ASSUME NEW v \in Value, NEW w \in Value, AlikeValues(v, w)
  PROVE  Sprintf(v) = Sprintf(w)
<1>1. CASE v = w
  BY <1>1
<1>2. CASE v # w
  <2>1. Name(v) = Name(w)
    BY <1>2 DEF AlikeValues
  <2>2. /\ v.json = "number" => v.n \in -Exponent+1..Exponent-1
        /\ w.json = "number" => w.n \in -Exponent+1..Exponent-1
    BY <1>2 DEF AlikeValues
  <2> QED BY <2>1, <2>2, TextIsName
<1> QED BY <1>1, <1>2

\* Fields that are alike have one text, the same.
LEMMA AlikeTexts ==
  ASSUME NEW a \in SUBSET Value, NEW b \in SUBSET Value, a = {} <=> b = {},
         \A v \in a, w \in b : AlikeValues(v, w)
  PROVE  \E t : Texts(a) = {t} /\ Texts(b) = {t}
<1>1. CASE a = {}
  BY <1>1 DEF Texts
<1>2. CASE a # {}
  <2>1. PICK v \in a, w \in b : TRUE
    BY <1>2
  <2>2. ASSUME NEW z \in b PROVE Sprintf(z) = Sprintf(v)
    BY AlikeText
  <2>3. ASSUME NEW z \in a PROVE Sprintf(z) = Sprintf(v)
    <3>1. Sprintf(z) = Sprintf(w)
      BY AlikeText
    <3> QED BY <2>2, <3>1
  <2>4. {Sprintf(z) : z \in a} = {Sprintf(v)} /\ {Sprintf(z) : z \in b} = {Sprintf(v)}
    BY <2>1, <2>2, <2>3
  <2>5. Texts(a) = {Sprintf(v)} /\ Texts(b) = {Sprintf(v)}
    BY <1>2, <2>1, <2>4 DEF Texts
  <2> QED BY <2>5
<1> QED BY <1>1, <1>2

\* A row that writes the job alike leads the canceller to the key the generator has made
\* of the other.
LEMMA CancelKeyMatches ==
  ASSUME NEW r \in KeyRows, NEW s \in KeyRows, NEW k \in StoreKeys(s), Alike(r, s)
  PROVE  CancelKeys(r) = {k}
<1>1. \A f \in FieldNames : \E t : Texts(Field(r, f)) = {t} /\ Texts(Field(s, f)) = {t}
  <2> SUFFICES ASSUME NEW f \in FieldNames
               PROVE  \E t : Texts(Field(r, f)) = {t} /\ Texts(Field(s, f)) = {t}
    OBVIOUS
  <2>1. Field(r, f) \in SUBSET Value /\ Field(s, f) \in SUBSET Value
    BY FieldTyped
  <2>2. /\ Field(r, f) = {} <=> Field(s, f) = {}
        /\ \A v \in Field(r, f), w \in Field(s, f) : AlikeValues(v, w)
    BY DEF Alike, FieldNames
  <2> QED BY <2>1, <2>2, AlikeTexts
<1>2. PICK t : Texts(Field(r, "id")) = {t} /\ Texts(Field(s, "id")) = {t}
  BY <1>1 DEF FieldNames
<1>3. PICK u : Texts(Field(r, "run")) = {u} /\ Texts(Field(s, "run")) = {u}
  BY <1>1 DEF FieldNames
<1>4. PICK x : Texts(Field(r, "extra")) = {x} /\ Texts(Field(s, "extra")) = {x}
  BY <1>1 DEF FieldNames
<1>5. t # Empty /\ k = StoreKey(t, u, x)
  BY <1>2, <1>3, <1>4, KeyOfFields
<1>6. {t} \ {Empty} = {t}
  BY <1>5
<1>7. CancelKeys(r) = Joined({t}, {u}, {x})
  BY <1>2, <1>3, <1>4, <1>6, KeysOfFields
<1>8. Joined({t}, {u}, {x}) = {StoreKey(t, u, x)}
  BY DEF Joined
<1> QED BY <1>5, <1>7, <1>8

\* The name that a text of one piece stands for.
NameOf(t) == IF t[1].form = "exponent" THEN Digits(t[1].n) ELSE t

\* A field without roundings and colons: its texts are of one piece, and tell its names.
LEMMA PlainTexts ==
  ASSUME NEW values \in SUBSET Value, NEW t \in Texts(values),
         \A v \in values :
           /\ v.json = "number" => v.n \in -Precise..Precise
           /\ v.json = "string" => Len(v.text) = 1 /\ v.text[1].form # "exponent"
  PROVE  t \in Seq(Piece) /\ Len(t) = 1 /\ NameOf(t) \in NamesOf(values)
<1>1. CASE values = {}
  <2>1. t = Empty /\ NamesOf(values) = {Empty}
    BY <1>1 DEF Texts, NamesOf
  <2>2. Empty \in Seq(Piece) /\ Len(Empty) = 1 /\ Empty[1].form # "exponent"
    BY DEF Empty, Piece
  <2> QED BY <2>1, <2>2 DEF NameOf
<1>2. CASE values # {}
  <2>1. PICK v \in values : t = Sprintf(v)
    BY <1>2 DEF Texts
  <2>2. Name(v) \in NamesOf(values)
    BY <1>2 DEF NamesOf
  <2>3. v \in Value
    OBVIOUS
  <2>4. CASE v.json = "number"
    <3>1. v.n \in Int /\ Float64(v.n) = v.n
      BY <2>3, <2>4 DEF Value, Float64
    <3>2. PICK form \in {"digits", "exponent"} : t = <<[form |-> form, n |-> v.n]>>
      BY <2>1, <2>4, <3>1 DEF Sprintf
    <3>3. t \in Seq(Piece) /\ Len(t) = 1
      BY <3>1, <3>2 DEF Piece
    <3>4. NameOf(t) = Digits(v.n)
      BY <3>2 DEF NameOf, Digits
    <3> QED BY <2>2, <2>4, <3>3, <3>4 DEF Name
  <2>5. CASE v.json = "string"
    <3>1. t = v.text /\ Name(v) = v.text
      BY <2>1, <2>5 DEF Sprintf, Name
    <3>2. v.text \in Seq(Piece)
      BY <2>3, <2>5 DEF Value
    <3> QED BY <2>2, <2>5, <3>1, <3>2 DEF NameOf
  <2>6. CASE v.json = "null"
    <3>1. t = Nil /\ Name(v) = Nil
      BY <2>1, <2>6 DEF Sprintf, Name
    <3>2. Nil \in Seq(Piece) /\ Len(Nil) = 1 /\ Nil[1].form # "exponent"
      BY DEF Nil, Piece
    <3> QED BY <2>2, <3>1, <3>2 DEF NameOf
  <2>7. v.json \in {"number", "string", "null"}
    BY <2>3 DEF Value
  <2> QED BY <2>4, <2>5, <2>6, <2>7
<1> QED BY <1>1, <1>2

\* Three texts of one piece are found again in their key.
LEMMA JoinedPieces ==
  ASSUME NEW i \in Seq(Piece), NEW u \in Seq(Piece), NEW x \in Seq(Piece),
         Len(i) = 1, Len(u) = 1, Len(x) = 1
  PROVE  /\ i = <<StoreKey(i, u, x)[1]>> /\ u = <<StoreKey(i, u, x)[2]>>
         /\ x = <<StoreKey(i, u, x)[3]>>
<1>1. i = <<i[1]>> /\ u = <<u[1]>> /\ x = <<x[1]>>
  OBVIOUS
<1> DEFINE iu == i \o u
<1>2. /\ iu \in Seq(Piece) /\ Len(iu) = 2
      /\ \A n \in 1..Len(i) + Len(u) :
           iu[n] = IF n <= Len(i) THEN i[n] ELSE u[n - Len(i)]
  <2>1. /\ i \o u \in Seq(Piece) /\ Len(i \o u) = Len(i) + Len(u)
        /\ \A n \in 1..Len(i) + Len(u) :
             (i \o u)[n] = IF n <= Len(i) THEN i[n] ELSE u[n - Len(i)]
    BY ConcatProperties, Zenon
  <2> QED BY <2>1
<1> HIDE DEF iu
<1>3. \A n \in 1..Len(iu) + Len(x) :
        (iu \o x)[n] = IF n <= Len(iu) THEN iu[n] ELSE x[n - Len(iu)]
  BY <1>2, ConcatProperties, Zenon
<1>4. iu[1] = i[1] /\ iu[2] = u[1]
  BY <1>2
<1> DEFINE iux == iu \o x
<1>5. \A n \in 1..Len(iu) + Len(x) :
        iux[n] = IF n <= Len(iu) THEN iu[n] ELSE x[n - Len(iu)]
  BY <1>3, Zenon
<1>6. StoreKey(i, u, x) = iux
  BY DEF StoreKey, iu
<1> HIDE DEF iux
<1>7. iux[1] = i[1] /\ iux[2] = u[1] /\ iux[3] = x[1]
  BY <1>2, <1>4, <1>5
<1> QED BY <1>1, <1>6, <1>7

\* A row of another job does not lead to it.
LEMMA CancelKeyDiffers ==
  ASSUME NEW r \in KeyRows, NEW s \in KeyRows, NEW k \in StoreKeys(s),
         k \in CancelKeys(r), Plain(r), Plain(s)
  PROVE  SameJob(r, s)
<1>1. PICK i \in Texts(Field(s, "id")), u \in Texts(Field(s, "run")),
           x \in Texts(Field(s, "extra")) : k = StoreKey(i, u, x)
  BY KeyOfFields
<1>2. PICK j \in Texts(Field(r, "id")), v \in Texts(Field(r, "run")),
           y \in Texts(Field(r, "extra")) : k = StoreKey(j, v, y)
  <2>1. k \in StoreKeys(r)
    BY KeysOfFields
  <2> QED BY <2>1, KeyOfFields
<1>3. ASSUME NEW q \in {r, s}, NEW f \in FieldNames, NEW t \in Texts(Field(q, f))
      PROVE  t \in Seq(Piece) /\ Len(t) = 1 /\ NameOf(t) \in NamesOf(Field(q, f))
  <2>1. Field(q, f) \in SUBSET Value
    BY FieldTyped
  <2>2. \A z \in Field(q, f) :
          /\ z.json = "number" => z.n \in -Precise..Precise
          /\ z.json = "string" => Len(z.text) = 1 /\ z.text[1].form # "exponent"
    BY DEF Plain, FieldNames
  <2> QED BY <2>1, <2>2, PlainTexts
<1>4. /\ i \in Seq(Piece) /\ Len(i) = 1 /\ NameOf(i) \in NamesOf(Field(s, "id"))
      /\ u \in Seq(Piece) /\ Len(u) = 1 /\ NameOf(u) \in NamesOf(Field(s, "run"))
      /\ x \in Seq(Piece) /\ Len(x) = 1 /\ NameOf(x) \in NamesOf(Field(s, "extra"))
  BY <1>3 DEF FieldNames
<1>5. /\ j \in Seq(Piece) /\ Len(j) = 1 /\ NameOf(j) \in NamesOf(Field(r, "id"))
      /\ v \in Seq(Piece) /\ Len(v) = 1 /\ NameOf(v) \in NamesOf(Field(r, "run"))
      /\ y \in Seq(Piece) /\ Len(y) = 1 /\ NameOf(y) \in NamesOf(Field(r, "extra"))
  BY <1>3 DEF FieldNames
<1>6. i = <<k[1]>> /\ u = <<k[2]>> /\ x = <<k[3]>>
  BY <1>1, <1>4, JoinedPieces
<1>7. j = <<k[1]>> /\ v = <<k[2]>> /\ y = <<k[3]>>
  BY <1>2, <1>5, JoinedPieces
<1>8. i = j /\ u = v /\ x = y
  BY <1>6, <1>7
<1> QED BY <1>4, <1>5, <1>8 DEF SameJob

--------------------------------------------------------------------------------
(* The life of a job *)

\* A job that has been read has a time to run, which is the limit that was meant; its
\* command has that long from the making of its context on, which comes first.
Timed ==
  /\ now \in Nat /\ StartAt \in Nat
  /\ stage \in {"queued", "starting", "running"} =>
       TTR \in 1..2*Half-1 /\ (meant # None => GetTTRDuration = meant)
  /\ stage \in {"starting", "running"} =>
       began \in Nat /\ began <= now /\ ctxEnd = began + GetTTRDuration
  /\ stage = "running" => began <= StartAt

LEMMA DurationTyped ==
  ASSUME TTR \in 1..2*Half-1
  PROVE  GetTTRDuration \in Int
<1>1. Int64(TTR) \in Int
  BY Int64Typed, Words DEF Int64s
<1>2. Int64(TTR) * NsPerMs \in Int
  BY <1>1, Words
<1> QED BY <1>2, Int64Typed, Words DEF GetTTRDuration, Int64s

LEMMA TimedInit == Init => Timed
BY DEF Init, Timed

LEMMA TimedStep ==
  ASSUME Timed, [Next]_vars
  PROVE  Timed'
<1> USE DEF Timed, commandVars, requestVars
<1>1. CASE StartGenerateJobs
  <2>1. CASE stage' = "skipped"
    BY <2>1, <1>1 DEF StartGenerateJobs
  <2>2. CASE stage' # "skipped"
    <3>1. PICK limits \in LimitRows :
            /\ TTR' \in TTRs(limits, now) /\ meant' = Meant(limits, now)
            /\ stage' = "queued" /\ StartAt' = now /\ now' = now
      BY <2>2, <1>1 DEF StartGenerateJobs
    <3>2. TTR' \in 1..2*Half-1
      BY <3>1, TTRsTyped
    <3>3. meant' # None => GetTTRDuration' = meant'
      BY <3>1, TTRsMeant DEF GetTTRDuration, Int64
    <3> QED BY <3>1, <3>2, <3>3
  <2> QED BY <2>1, <2>2
<1>2. CASE RunPrepares
  <2>1. /\ stage = "queued" /\ stage' = "starting"
        /\ ctxEnd' = prepareContext(now) /\ began' = now /\ now' = now
        /\ StartAt' = StartAt /\ TTR' = TTR /\ meant' = meant
    BY <1>2 DEF RunPrepares
  <2>2. GetTTRDuration' = GetTTRDuration
    BY <2>1 DEF GetTTRDuration, Int64
  <2>3. ctxEnd' = began' + GetTTRDuration'
    BY <2>1, <2>2, Words DEF prepareContext
  <2> QED BY <2>1, <2>2, <2>3
<1>8. CASE RunStarts
  <2>1. /\ stage = "starting" /\ stage' = "running"
        /\ StartAt' = now /\ UNCHANGED <<ctxEnd, began, now, TTR, meant>>
    BY <1>8 DEF RunStarts
  <2>2. GetTTRDuration' = GetTTRDuration
    BY <2>1 DEF GetTTRDuration, Int64
  <2> QED BY <2>1, <2>2
<1>3. CASE CommandEnds
  BY <1>3 DEF CommandEnds, GetTTRDuration, Int64
<1>4. CASE Cleanup
  BY <1>4 DEF Cleanup, StopJob, GetTTRDuration, Int64
<1>5. CASE Cancel
  BY <1>5 DEF Cancel, StopJob, GetTTRDuration, Int64
<1>6. CASE Tick
  BY <1>6 DEF Tick, GetTTRDuration, Int64
<1>7. CASE UNCHANGED vars
  BY <1>7 DEF vars, GetTTRDuration, Int64
<1> QED BY <1>1, <1>2, <1>3, <1>4, <1>5, <1>6, <1>7, <1>8 DEF Next

\* For any rows, any width of the words and any units: every command has a deadline,
\* and a limit that comes alone and can be read counts from the making of its context.
THEOREM DeadlineKept == Spec => []Deadline
<1>1. Timed => Deadline
  <2> SUFFICES ASSUME Timed, stage = "running" PROVE Deadline
    BY DEF Deadline
  <2>1. ctxEnd = began + GetTTRDuration /\ GetTTRDuration \in Int
    BY DurationTyped DEF Timed
  <2>2. ctxEnd # None
    BY <2>1, RequestAssumption DEF Timed
  <2> QED BY <2>1, <2>2 DEF Deadline, Timed
<1> QED BY <1>1, TimedInit, TimedStep, PTL DEF Spec

\* For any rows, any width of the words and any units: the registry takes a running job
\* for timed out only after the context of its command has ended.
THEOREM SweptLater == Spec => []SweptAfterContext
<1>1. Timed => SweptAfterContext
  <2> SUFFICES ASSUME Timed, stage = "running", HitTimeout PROVE now > ctxEnd
    BY DEF SweptAfterContext
  <2>1. GetTTRDuration \in Int
    BY DurationTyped DEF Timed
  <2> QED BY <2>1 DEF Timed, HitTimeout
<1> QED BY <1>1, TimedInit, TimedStep, PTL DEF Spec

--------------------------------------------------------------------------------
(* Types, the key and the environment *)

LEMMA ExactTyped ==
  ASSUME NEW l \in Limit, NEW t \in Nat, Effective(l, t)
  PROVE  Exact(l, t) \in Int
<1> DEFINE n == Name(l.value)[1].n
<1>1. n \in Int /\ l.unit \in {"msec", "sec", "min", "stop"}
  BY EffectiveTyped
<1>2. \A x \in Int : /\ x * NsPerMs \in Int /\ x * (MsPerSec * NsPerMs) \in Int
                     /\ x * (SecPerMin * MsPerSec * NsPerMs) \in Int
  BY Units
<1>3. n - Unix(t) \in Int
  BY <1>1, UnixTyped
<1>4. Exact(l, t) = CASE l.unit = "msec" -> n * NsPerMs
                      [] l.unit = "sec"  -> n * (MsPerSec * NsPerMs)
                      [] l.unit = "min"  -> n * (SecPerMin * MsPerSec * NsPerMs)
                      [] l.unit = "stop" -> (n - Unix(t)) * (MsPerSec * NsPerMs)
  BY DEF Exact
<1> HIDE DEF n
<1>5. CASE l.unit = "msec"
  BY <1>1, <1>2, <1>4, <1>5
<1>6. CASE l.unit = "sec"
  BY <1>1, <1>2, <1>4, <1>6
<1>7. CASE l.unit = "min"
  BY <1>1, <1>2, <1>4, <1>7
<1>8. CASE l.unit = "stop"
  BY <1>2, <1>3, <1>4, <1>8
<1> QED BY <1>1, <1>5, <1>6, <1>7, <1>8

LEMMA MeantTyped ==
  ASSUME NEW limits \in LimitRows, NEW t \in Nat
  PROVE  Meant(limits, t) \in Int \cup {None}
<1>1. CASE Cardinality(limits) = 1 /\ \A l \in limits : Readable(l, t)
  <2>1. limits \subseteq Limit /\ IsFiniteSet(limits)
    BY RequestAssumption
  <2>2. PICK l : limits = {l}
    BY <1>1, <2>1, FS_Singleton
  <2>3. (CHOOSE m \in limits : TRUE) = l /\ l \in Limit /\ Effective(l, t)
    BY <1>1, <2>1, <2>2 DEF Readable
  <2> QED BY <1>1, <2>3, ExactTyped DEF Meant
<1>2. CASE ~(Cardinality(limits) = 1 /\ \A l \in limits : Readable(l, t))
  BY <1>2 DEF Meant
<1> QED BY <1>1, <1>2

\* A registered job has a key of its own row; a command has the environment that
\* MergeEnvVars has made for it.
Made ==
  /\ key # None => row \in KeyRows /\ key \in StoreKeys(row)
  /\ stage = "running" => Env = MergeEnvVars(CmdENV)

\* TypeOK, its parts named.
IsKey(k) == \E i \in KeyTexts \ {Empty}, u, x \in KeyTexts : k = StoreKey(i, u, x)

Stages ==
  {"offered", "skipped", "queued", "starting", "running", "ended", "stopped"}

Typed ==
  /\ stage \in Stages
  /\ key = None \/ IsKey(key)
  /\ TTR \in 0..2*Half-1 /\ StartAt \in 0..MaxNow /\ now \in 0..MaxNow
  /\ ctxEnd \in Int \cup {None} /\ began \in Nat \cup {None}
  /\ meant \in Int \cup {None}
  /\ CmdENV \in Seq(Vars) /\ Env \in Seq(Vars)
  /\ row \in KeyRows \cup {None}

LEMMA TypeInit == Init => Typed
<1> SUFFICES ASSUME Init PROVE Typed
  OBVIOUS
<1>1. /\ Half \in Nat /\ Half >= 1 /\ MaxNow \in Nat /\ << >> \in Seq(Vars)
  BY RequestAssumption
<1> QED BY <1>1 DEF Init, Typed, Stages

LEMMA TypeStep ==
  ASSUME Typed, [Next]_vars
  PROVE  Typed'
<1> USE DEF Stages, commandVars, requestVars
<1>0. Half \in Nat /\ Half >= 1 /\ MaxNow \in Nat
  BY RequestAssumption
<1>1. CASE StartGenerateJobs
  <2>1. /\ stage = "offered" /\ now' = now /\ now \in Nat
        /\ ctxEnd' = ctxEnd /\ began' = began /\ Env' = Env
    BY <1>1, <1>0 DEF StartGenerateJobs, Typed
  <2>2. CASE stage' = "skipped"
    <3>1. UNCHANGED <<key, StartAt, requestVars>>
      BY <2>2, <1>1 DEF StartGenerateJobs
    <3> QED BY <2>1, <2>2, <3>1 DEF Typed
  <2>3. CASE stage' # "skipped"
    <3>1. PICK r \in KeyRows, limits \in LimitRows, env \in EnvRows :
            /\ key' \in StoreKeys(r) /\ TTR' \in TTRs(limits, now)
            /\ CmdENV' \in EnvVars(env) /\ row' = r /\ meant' = Meant(limits, now)
            /\ stage' = "queued" /\ StartAt' = now
      BY <2>3, <1>1 DEF StartGenerateJobs
    <3>2. IsKey(key')
      BY <3>1, KeyTyped DEF IsKey
    <3>3. TTR' \in 0..2*Half-1
      BY <2>1, <3>1, TTRsTyped, <1>0
    <3>4. CmdENV' \in Seq(Vars)
      BY <3>1, EnvVarsTyped
    <3>5. meant' \in Int \cup {None}
      BY <2>1, <3>1, MeantTyped
    <3> QED BY <2>1, <3>1, <3>2, <3>3, <3>4, <3>5 DEF Typed
  <2> QED BY <2>2, <2>3
<1>2. CASE RunPrepares
  <2>1. /\ stage' = "starting" /\ ctxEnd' = prepareContext(now) /\ began' = now
        /\ UNCHANGED <<key, StartAt, TTR, CmdENV, Env, row, meant, now>>
    BY <1>2 DEF RunPrepares
  <2>2. ctxEnd' \in Int \cup {None}
    <3>1. CASE TTR > 0
      <4>1. TTR \in 1..2*Half-1 /\ now \in Int
        BY <3>1, <1>0 DEF Typed
      <4>2. now + GetTTRDuration \in Int
        BY <4>1, DurationTyped
      <4> QED BY <2>1, <3>1, <4>2 DEF prepareContext
    <3>2. CASE ~(TTR > 0)
      BY <2>1, <3>2 DEF prepareContext
    <3> QED BY <3>1, <3>2
  <2>3. began' \in Nat
    BY <2>1, <1>0 DEF Typed
  <2> QED BY <2>1, <2>2, <2>3 DEF Typed
<1>8. CASE RunStarts
  <2>1. /\ stage' = "running" /\ StartAt' = now /\ Env' = MergeEnvVars(CmdENV)
        /\ UNCHANGED <<key, ctxEnd, began, TTR, CmdENV, row, meant, now>>
    BY <1>8 DEF RunStarts
  <2>2. Env' \in Seq(Vars)
    BY <2>1, MergeKeepsFirsts DEF Typed
  <2> QED BY <2>1, <2>2 DEF Typed
<1>3. CASE CommandEnds
  BY <1>3 DEF CommandEnds, Typed
<1>4. CASE Cleanup
  BY <1>4 DEF Cleanup, StopJob, Typed
<1>5. CASE Cancel
  BY <1>5 DEF Cancel, StopJob, Typed
<1>6. CASE Tick
  <2>1. now' \in 0..MaxNow
    BY <1>6, <1>0 DEF Tick, Typed
  <2> QED BY <1>6, <2>1 DEF Tick, Typed
<1>7. CASE UNCHANGED vars
  BY <1>7 DEF vars, Typed
<1> QED BY <1>1, <1>2, <1>3, <1>4, <1>5, <1>6, <1>7, <1>8 DEF Next

LEMMA MadeInit == Init => Made
BY DEF Init, Made

LEMMA MadeStep ==
  ASSUME Made, [Next]_vars
  PROVE  Made'
<1> USE DEF Made, commandVars, requestVars
<1>1. CASE StartGenerateJobs
  <2>1. CASE stage' = "skipped"
    <3>1. UNCHANGED <<key, StartAt, requestVars>>
      BY <2>1, <1>1 DEF StartGenerateJobs
    <3> QED BY <2>1, <3>1
  <2>2. CASE stage' # "skipped"
    <3>1. PICK r \in KeyRows :
            key' \in StoreKeys(r) /\ row' = r /\ stage' = "queued"
      BY <2>2, <1>1 DEF StartGenerateJobs
    <3> QED BY <3>1
  <2> QED BY <2>1, <2>2
<1>2. CASE RunPrepares
  BY <1>2 DEF RunPrepares
<1>8. CASE RunStarts
  <2>1. PICK made : made = MergeEnvVars(CmdENV)
    OBVIOUS
  <2>2. /\ stage' = "running" /\ Env' = made
        /\ key' = key /\ row' = row /\ CmdENV' = CmdENV
    BY <1>8, <2>1 DEF RunStarts
  <2>3. made = MergeEnvVars(CmdENV')
    BY <2>1, <2>2
  <2>4. key' # None => row' \in KeyRows /\ key' \in StoreKeys(row')
    BY <2>2
  <2> QED BY <2>2, <2>3, <2>4
<1>3. CASE CommandEnds
  BY <1>3 DEF CommandEnds
<1>4. CASE Cleanup
  BY <1>4 DEF Cleanup, StopJob
<1>5. CASE Cancel
  BY <1>5 DEF Cancel, StopJob
<1>6. CASE Tick
  BY <1>6 DEF Tick
<1>7. CASE UNCHANGED vars
  BY <1>7 DEF vars
<1> QED BY <1>1, <1>2, <1>3, <1>4, <1>5, <1>6, <1>7, <1>8 DEF Next

\* For any rows and environments: every variable keeps to its type.
THEOREM TypeCorrect == Spec => []TypeOK
<1>1. Typed => TypeOK
  <2>1. Typed => (key = None \/ \E i \in KeyTexts \ {Empty}, u, x \in KeyTexts :
                                   key = StoreKey(i, u, x))
    BY Zenon DEF Typed, IsKey
  <2> QED BY <2>1, Zenon DEF Typed, TypeOK, Stages
<1> QED BY <1>1, TypeInit, TypeStep, PTL DEF Spec

\* For any rows: a row that writes the registered job as its own row did leads the
\* canceller to that job's key and no other, and a row of another job does not lead to
\* it, if in neither a number is rounded or a string has a colon or an exponent.
THEOREM CancelLeadsToJob == Spec => []CancelFinds
<1>1. Made => CancelFinds
  <2> SUFFICES ASSUME Made, key # None, NEW r \in KeyRows
               PROVE  /\ Alike(r, row) => CancelKeys(r) = {key}
                      /\ Plain(r) /\ Plain(row) /\ ~SameJob(r, row) =>
                           key \notin CancelKeys(r)
    BY DEF CancelFinds, Registered
  <2>1. row \in KeyRows /\ key \in StoreKeys(row)
    BY DEF Made
  <2>2. ASSUME Alike(r, row) PROVE CancelKeys(r) = {key}
    BY <2>1, <2>2, CancelKeyMatches
  <2>3. ASSUME Plain(r), Plain(row), ~SameJob(r, row) PROVE key \notin CancelKeys(r)
    BY <2>1, <2>3, CancelKeyDiffers
  <2> QED BY <2>2, <2>3
<1> QED BY <1>1, MadeInit, MadeStep, PTL DEF Spec

\* For any variables that a job, the worker and DefaultPath set: a command reads the
\* job's value of a name, the worker's where the job has none, and a PATH in any case.
THEOREM JobEnvironmentWins == Spec => []JobEnvWins
<1>1. Typed /\ Made => JobEnvWins
  <2>1. ASSUME Typed, Made, stage = "running", NEW k
        PROVE  Getenv(Env, k) =
                 IF FirstOf(CmdENV, k) # None THEN FirstOf(CmdENV, k)
                 ELSE IF FirstOf(Environ, k) # None THEN FirstOf(Environ, k)
                 ELSE FirstOf(<<DefaultPath>>, k)
    <3>1. CmdENV \in Seq(Vars) /\ Env = MergeEnvVars(CmdENV)
      BY <2>1 DEF Typed, Made
    <3> QED BY <3>1, CommandReads
  <2> QED BY <2>1 DEF JobEnvWins
<1> QED BY <1>1, TypeInit, TypeStep, MadeInit, MadeStep, PTL DEF Spec
================================================================================
