--------------------------- MODULE Reports_proofs ----------------------------
(***************************************************************************)
(* Proofs about what the program computes of its inputs: Load, for machine *)
(* words of any width that hold its defaults, and for every environment;   *)
(* the judgments and the collectors' queries, for every row, catalog and   *)
(* LIMIT; the advice on redundant indexes, for any names, tables, shapes   *)
(* and columns; and what is masked of a query, for a text of any tokens    *)
(* and separators, cut anywhere.                                           *)
(***************************************************************************)
EXTENDS Reports, Redaction, DuplicateIndexes, FiniteSetTheorems, WellFoundedInduction, TLAPS

(* A number that a machine word holds does not wrap.                       *)
LEMMA WrapKeepsSmall ==
  ASSUME NEW n \in 0..MaxInt
  PROVE  Wrap(n) = n
<1>1. MaxInt \in Nat
  BY ConfigurationAssumption
<1>2. n + MaxInt + 1 \in 0..(2 * (MaxInt + 1) - 1)
  BY <1>1
<1>3. \A m \in Nat \ {0} : \A k \in 0..(m - 1) : k % m = k
  OBVIOUS
<1>4. (n + MaxInt + 1) % (2 * (MaxInt + 1)) = n + MaxInt + 1
  BY <1>1, <1>2, <1>3
<1> QED
  BY <1>1, <1>4 DEF Wrap

(* Beyond the largest machine word a product no longer means what was      *)
(* written: it is another number, which is why Overlooked is not empty.    *)
LEMMA WrapChangesLarge ==
  ASSUME NEW n \in Nat, n > MaxInt
  PROVE  Wrap(n) # n
<1>1. MaxInt \in Nat
  BY ConfigurationAssumption
<1>2. \A m \in Nat \ {0}, k \in Int : k % m \in 0..(m - 1)
  OBVIOUS
<1>3. (n + MaxInt + 1) % (2 * (MaxInt + 1)) \in 0..(2 * (MaxInt + 1) - 1)
  BY <1>1, <1>2
<1> QED
  BY <1>1, <1>3 DEF Wrap

(* Every default, in its unit, is positive and fits a machine word.        *)
LEMMA DefaultsFit ==
  ASSUME NEW v \in Counts
  PROVE  /\ Default[v] \in Nat \ {0}
         /\ Unit[v] \in Nat \ {0}
         /\ v # "rate" => Default[v] * Unit[v] \in 1..MaxInt
<1>1. /\ MaxInt \in Nat /\ Second \in Nat \ {0} /\ Hour \in Nat \ {0} /\ Megabyte \in Nat \ {0}
      /\ 15 * Second <= MaxInt /\ 72 * Hour <= MaxInt /\ 500 * Megabyte <= MaxInt
  BY ConfigurationAssumption
<1>2. CASE v = "poll interval"
  <2>1. Default[v] = 1 /\ Unit[v] = Second
    BY <1>2 DEF Default, Unit
  <2>2. 1 \in Nat \ {0} /\ 1 * Second \in 1..MaxInt
    BY <1>1
  <2> QED
    BY <1>1, <2>1, <2>2, Zenon
<1>3. CASE v = "rate"
  BY <1>1, <1>3 DEF Default, Unit
<1>4. CASE v = "burst"
  BY <1>1, <1>4 DEF Default, Unit
<1>5. CASE v = "retention"
  BY <1>1, <1>5 DEF Default, Unit
<1>6. CASE v = "record interval"
  <2>1. Default[v] = 15 /\ Unit[v] = Second
    BY <1>6 DEF Default, Unit
  <2>2. 15 \in Nat \ {0} /\ 15 * Second \in 1..MaxInt
    BY <1>1
  <2> QED
    BY <1>1, <2>1, <2>2, Zenon
<1>7. CASE v = "sessions"
  BY <1>1, <1>7 DEF Default, Unit
<1>8. CASE v = "size"
  BY <1>1, <1>8 DEF Default, Unit
<1> QED
  BY <1>2, <1>3, <1>4, <1>5, <1>6, <1>7, <1>8 DEF Counts

(* Load reads every variable that can be wrong, and nothing else.          *)
LEMMA OrderCoversVariables ==
  /\ DOMAIN Order = 1..10
  /\ \A i \in 1..10 : Order[i] \in Variables
  /\ \A v \in Variables : \E i \in 1..10 : Order[i] = v
BY DEF Order, Variables, Counts

(* Where Load refuses something, it names a variable it refuses: the       *)
(* positions it refuses have a least one.                                  *)
LEMMA RefusalIsNamed ==
  ASSUME NEW env, Refused(env) # {}
  PROVE  /\ Min(Refused(env)) \in Refused(env)
         /\ \A i \in Refused(env) : Min(Refused(env)) <= i
         /\ Load(env).error = Order[Min(Refused(env))]
         /\ Load(env).error # "none"
<1>1. Refused(env) \subseteq 1..10
  BY OrderCoversVariables DEF Refused
<1>2. \E i \in Refused(env) : \A j \in Refused(env) : ~(<<j, i>> \in OpToRel(<, Nat))
  <2>1. Refused(env) \subseteq Nat
    BY <1>1
  <2> QED
    BY <2>1, WFMin, NatLessThanWellFounded
<1>3. \E i \in Refused(env) : \A j \in Refused(env) : i <= j
  BY <1>1, <1>2 DEF OpToRel
<1>4. /\ Min(Refused(env)) \in Refused(env)
      /\ \A i \in Refused(env) : Min(Refused(env)) <= i
  BY <1>3 DEF Min
<1>5. Load(env).error = Order[Min(Refused(env))]
  BY DEF Load
<1>6. \A i \in 1..10 : Order[i] # "none"
  BY OrderCoversVariables DEF Variables, Counts
<1> QED
  BY <1>1, <1>4, <1>5, <1>6

(* Load refuses an environment exactly if a check of one of its variables  *)
(* fails, and the one it names is the first in the order it reads them.    *)
LEMMA LoadRefusesWhatFails ==
  ASSUME NEW env
  PROVE  /\ Load(env).error = "none" <=> \A v \in Variables : Accepted(v, env[v])
         /\ \A i \in 1..10 :
              /\ ~Accepted(Order[i], env[Order[i]])
              /\ \A j \in 1..(i - 1) : Accepted(Order[j], env[Order[j]])
              => Load(env).error = Order[i]
<1>1. Load(env).error = "none" <=> Refused(env) = {}
  BY RefusalIsNamed DEF Load
<1>2. Refused(env) = {} <=> \A v \in Variables : Accepted(v, env[v])
  BY OrderCoversVariables DEF Refused
<1>3. ASSUME NEW i \in 1..10, ~Accepted(Order[i], env[Order[i]]),
             \A j \in 1..(i - 1) : Accepted(Order[j], env[Order[j]])
      PROVE  Load(env).error = Order[i]
  <2> DEFINE first == Min(Refused(env))
  <2>1. i \in Refused(env)
    BY <1>3, OrderCoversVariables DEF Refused
  <2>2. /\ first \in Refused(env) /\ first <= i
        /\ Load(env).error = Order[first]
    BY <2>1, RefusalIsNamed
  <2>3. first \in 1..10 /\ ~Accepted(Order[first], env[Order[first]])
    BY <2>2, OrderCoversVariables DEF Refused
  <2>4. first = i
    <3> HIDE DEF first
    <3> QED BY <1>3, <2>2, <2>3
  <2> QED BY <2>2, <2>4
<1> QED
  BY <1>1, <1>2, <1>3

(* Whatever the environment says, a configuration that Load returns is     *)
(* usable unless a product in it overflowed or its rate is NaN             *)
(* (Load and the functions it calls for each variable).                    *)
THEOREM LoadIsUsable ==
  ASSUME NEW env \in [Variables -> Text]
  PROVE  LoadedIsUsable(env)
<1> SUFFICES ASSUME Load(env).error = "none", Overlooked(env) = {}
             PROVE  /\ \A v \in Counts : Load(env).count[v] > 0
                    /\ Load(env).engine \in {Postgres, MySQL}
  BY DEF LoadedIsUsable
<1>1. \A v \in Variables : Accepted(v, env[v])
  BY LoadRefusesWhatFails
<1>2. /\ Load(env).engine = IF env["engine"] = Unset THEN Postgres ELSE env["engine"]
      /\ Load(env).count = [v \in Counts |-> Loaded(v, env[v])]
  BY RefusalIsNamed DEF Load
<1>3. Load(env).engine \in {Postgres, MySQL}
  <2>1. Accepted("engine", env["engine"])
    BY <1>1 DEF Variables
  <2> QED
    BY <1>2, <2>1 DEF Accepted, EngineAccepted
<1>4. ASSUME NEW v \in Counts PROVE Loaded(v, env[v]) > 0
  <2>1. Accepted(v, env[v]) /\ v \in Variables
    BY <1>1 DEF Variables
  <2>2. env[v] = Unset \/ (env[v] \in Int /\ env[v] > 0)
    <3>1. v \notin {"database url", "api key", "engine"}
      BY DEF Counts
    <3>2. env[v] # NaN
      BY DEF Overlooked
    <3> QED
      BY <2>1, <3>1, <3>2 DEF Accepted, RateAccepted, Positive
  <2>3. Written(v, env[v]) \in Nat \ {0}
    BY <2>2, DefaultsFit DEF Written
  <2>4. CASE v = "rate"
    BY <2>3, <2>4 DEF Loaded
  <2>5. CASE v # "rate"
    <3>1. Written(v, env[v]) * Unit[v] \in 1..MaxInt
      <4>1. CASE env[v] = Unset
        BY <2>5, <4>1, DefaultsFit DEF Written
      <4>2. CASE env[v] # Unset
        <5>1. env[v] \in Int /\ env[v] > 0 /\ Written(v, env[v]) = env[v]
          BY <2>2, <4>2 DEF Written
        <5>2. ~(env[v] * Unit[v] > MaxInt)
          BY <2>5, <5>1 DEF Overlooked, TooLarge
        <5>3. \A a \in Int, b \in Nat \ {0} : a > 0 => a * b \in Int /\ a * b > 0
          OBVIOUS
        <5>4. Unit[v] \in Nat \ {0} /\ MaxInt \in Nat
          BY DefaultsFit, ConfigurationAssumption
        <5>5. env[v] * Unit[v] \in Int /\ env[v] * Unit[v] > 0
          BY <5>1, <5>3, <5>4
        <5> QED
          BY <5>1, <5>2, <5>4, <5>5
      <4> QED
        BY <4>1, <4>2
    <3>2. Wrap(Written(v, env[v]) * Unit[v]) = Written(v, env[v]) * Unit[v]
      BY <3>1, WrapKeepsSmall, ConfigurationAssumption
    <3> QED
      BY <2>5, <3>1, <3>2, ConfigurationAssumption DEF Loaded
  <2> QED
    BY <2>4, <2>5
<1> QED
  BY <1>2, <1>3, <1>4
-----------------------------------------------------------------------------
(* The judgments.                                                          *)

LEMMA CandidateRow ==
  ASSUME NEW r \in RowOf("candidate")
  PROVE  /\ r.rows \in Nat /\ r.idxScan \in Nat /\ r.distinct \in Int
         /\ r.seqScan \in Nat /\ 1 + r.seqScan \in DOMAIN Log2
<1>1. /\ r.rows \in Nat /\ r.idxScan \in Nat /\ r.distinct \in Int
      /\ r.seqScan \in SeqScans
  BY DEF RowOf
<1>2. PICK n \in DOMAIN Log2 : r.seqScan = n - 1
  BY <1>1 DEF SeqScans
<1>3. n \in Nat \ {0}
  BY <1>2, LogAssumption
<1>4. r.seqScan \in Nat /\ 1 + r.seqScan = n
  BY <1>2, <1>3
<1> QED BY <1>1, <1>2, <1>4

(* A product of positive numbers that is at least h * x has a factor of at *)
(* least h beside a factor of at most x.                                   *)
LEMMA FactorIsLarge ==
  ASSUME NEW l \in Nat, NEW h \in Nat, NEW s \in Nat, NEW i \in Nat,
         h > 0, s + i > 0, l * s >= h * (s + i)
  PROVE  l >= h
<1> SUFFICES ASSUME l < h
             PROVE  FALSE
  OBVIOUS
<1>1. PICK d \in Nat : h = l + 1 + d
  <2>1. h - l - 1 \in Nat /\ h = l + 1 + (h - l - 1)
    OBVIOUS
  <2> QED BY <2>1
<1>2. d * (s + i) \in Nat /\ l * i \in Nat
  OBVIOUS
<1>3. h * (s + i) = (l * s) + (l * i) + (s + i) + (d * (s + i))
  BY <1>1
<1> QED BY <1>2, <1>3

(* A logarithm that outweighs h for s of s + i scans does so for more: both*)
(* the logarithm and the share grow.                                       *)
LEMMA OutweighsMore ==
  ASSUME NEW l \in Nat, NEW h \in Nat, NEW s \in Nat, NEW i \in Nat,
         NEW m \in Nat, NEW t \in Nat,
         h > 0, s + i > 0, l <= m, s <= t, l * s >= h * (s + i)
  PROVE  m * t >= h * (t + i)
<1>1. PICK d \in Nat : t = s + d
  <2>1. t - s \in Nat /\ t = s + (t - s)
    OBVIOUS
  <2> QED BY <2>1
<1>2. PICK e \in Nat : m = l + e
  <2>1. m - l \in Nat /\ m = l + (m - l)
    OBVIOUS
  <2> QED BY <2>1
<1>3. PICK f \in Nat : l = h + f
  <2>1. l >= h
    BY FactorIsLarge
  <2>2. l - h \in Nat /\ l = h + (l - h)
    BY <2>1
  <2> QED BY <2>2
<1>4. f * s >= h * i
  <2>1. l * s = (h * s) + (f * s) /\ h * (s + i) = (h * s) + (h * i)
    BY <1>3
  <2>2. h * s \in Nat /\ f * s \in Nat /\ h * i \in Nat
    OBVIOUS
  <2> QED BY <2>1, <2>2
<1>5. /\ m * t = (h * t) + (f * s) + (f * d) + (e * t)
      /\ h * (t + i) = (h * t) + (h * i)
  BY <1>1, <1>2, <1>3
<1>6. /\ h * t \in Nat /\ f * s \in Nat /\ f * d \in Nat /\ e * t \in Nat
      /\ h * i \in Nat
  OBVIOUS
<1> QED BY <1>4, <1>5, <1>6

(* A signal that is strong stays so with more sequential scans.            *)
LEMMA StrongSignalStays ==
  ASSUME NEW a \in RowOf("candidate"), NEW b \in RowOf("candidate"),
         b.idxScan = a.idxScan, b.seqScan >= a.seqScan, StrongSignal(a)
  PROVE  StrongSignal(b)
<1> DEFINE i == a.idxScan
           s == a.seqScan
           t == b.seqScan
           l == Log2[1 + s]
           m == Log2[1 + t]
           h == 10 * LogUnit
<1>1. /\ i \in Nat /\ s \in Nat /\ t \in Nat /\ s <= t /\ b.idxScan = i
      /\ 1 + s \in DOMAIN Log2 /\ 1 + t \in DOMAIN Log2
  BY CandidateRow
<1>2. l \in Nat /\ m \in Nat /\ l <= m
  <2>1. 1 + s <= 1 + t
    BY <1>1
  <2> QED BY <1>1, <2>1, LogAssumption
<1>3. h \in Nat /\ h > 0
  BY LogAssumption
<1>4. s + i >= 1000 /\ l * s >= h * (s + i)
  BY DEF StrongSignal, Threshold, TotalScans
<1> HIDE DEF i, s, t, l, m, h
<1>5. t + i >= 1000 /\ s + i > 0
  BY <1>1, <1>4
<1>6. m * t >= h * (t + i)
  BY <1>1, <1>2, <1>3, <1>4, <1>5, OutweighsMore
<1>7. TotalScans(b) = t + i
  BY <1>1 DEF TotalScans, t
<1> QED BY <1>5, <1>6, <1>7 DEF StrongSignal, Threshold, m, t, h

(* The verdict on a candidate: more of its scans sequential, and it is     *)
(* still suggested, and no less confidently.                               *)
LEMMA CandidateStays ==
  ASSUME NEW a \in RowOf("candidate"), NEW b \in RowOf("candidate"),
         Worse("candidate", a, b)
  PROVE  Verdict("candidate", a) <= Verdict("candidate", b)
<1>1. /\ b.idxScan = a.idxScan /\ b.rows = a.rows
      /\ b.distinct = a.distinct /\ b.seqScan >= a.seqScan
  BY DEF Worse
<1>2. /\ a.idxScan \in Nat /\ a.seqScan \in Nat /\ b.seqScan \in Nat
  BY CandidateRow
<1>3. TotalScans(a) \in Nat /\ TotalScans(b) \in Nat /\ TotalScans(a) <= TotalScans(b)
  BY <1>1, <1>2 DEF TotalScans
<1>4. Qualifies(a) => Qualifies(b)
  BY <1>1, <1>2 DEF Qualifies, TotalScans
<1>5. StrongSignal(a) => StrongSignal(b)
  BY <1>1, StrongSignalStays
<1>6. PoorSelectivity(a) <=> PoorSelectivity(b)
  BY <1>1 DEF PoorSelectivity
<1>7. TotalScans(a) >= 100 => TotalScans(b) >= 100
  BY <1>3
<1>8. \A s : Verdict("candidate", s) =
        IF Confidence(s) = "strong" THEN 2 ELSE IF Confidence(s) = "weak" THEN 1 ELSE 0
  BY DEF Verdict
<1>9. \A s : Confidence(s) =
        IF Qualifies(s) /\ StrongSignal(s) /\ ~PoorSelectivity(s) THEN "strong"
        ELSE IF Qualifies(s) /\ TotalScans(s) >= 100 THEN "weak"
        ELSE "insufficient_data"
  BY DEF Confidence
<1>10. CASE Confidence(a) = "strong"
  <2>1. Confidence(b) = "strong"
    BY <1>4, <1>5, <1>6, <1>9, <1>10
  <2> QED BY <1>8, <1>10, <2>1
<1>11. CASE Confidence(a) = "weak"
  <2>1. Confidence(b) \in {"strong", "weak"}
    BY <1>4, <1>7, <1>9, <1>11
  <2> QED BY <1>8, <1>11, <2>1
<1>12. CASE Confidence(a) \notin {"strong", "weak"}
  BY <1>8, <1>12
<1> QED BY <1>10, <1>11, <1>12

LEMMA SaysGrows ==
  ASSUME NEW p, NEW q, p => q
  PROVE  Says(p) <= Says(q)
BY DEF Says

(* A condition that gets worse stays reported, and stays as confidently    *)
(* so, whatever is measured of it (the detectors of the domain).           *)
LEMMA WorseStays ==
  ASSUME NEW kind \in Kinds, NEW a \in RowOf(kind), NEW b \in RowOf(kind)
  PROVE  WorseIsStillReported(kind, a, b)
<1> SUFFICES ASSUME Worse(kind, a, b)
             PROVE  Verdict(kind, a) <= Verdict(kind, b)
  BY DEF WorseIsStillReported
<1>1. CASE kind = "function"
  <2>1. /\ a.calls \in Nat /\ b.calls \in Nat
        /\ a.selfTime \in Nat /\ b.selfTime \in Nat
    BY <1>1 DEF RowOf
  <2>2. b.calls = a.calls /\ b.selfTime >= a.selfTime
    BY <1>1 DEF Worse
  <2>3. FunctionCost(a) => FunctionCost(b)
    BY <2>1, <2>2 DEF FunctionCost
  <2>4. Verdict(kind, a) = Says(FunctionCost(a)) /\ Verdict(kind, b) = Says(FunctionCost(b))
    BY <1>1 DEF Verdict
  <2> QED BY <2>3, <2>4, SaysGrows
<1>2. CASE kind = "physical io"
  <2>1. a.reads \in Nat /\ b.reads \in Nat
    BY <1>2 DEF RowOf
  <2>2. b.reads >= a.reads
    BY <1>2 DEF Worse
  <2>3. PhysicalIO(a) => PhysicalIO(b)
    BY <2>1, <2>2 DEF PhysicalIO
  <2>4. Verdict(kind, a) = Says(PhysicalIO(a)) /\ Verdict(kind, b) = Says(PhysicalIO(b))
    BY <1>2 DEF Verdict
  <2> QED BY <2>3, <2>4, SaysGrows
<1>3. CASE kind = "unused index"
  <2>1. /\ a.scans \in Nat /\ b.scans \in Nat
        /\ a.age \in Nat /\ b.age \in Nat
    BY <1>3 DEF RowOf
  <2>2. b.scans <= a.scans /\ b.age >= a.age
    BY <1>3 DEF Worse
  <2>3. UnusedIndex(a) => UnusedIndex(b)
    BY <2>1, <2>2 DEF UnusedIndex
  <2>4. Verdict(kind, a) = Says(UnusedIndex(a)) /\ Verdict(kind, b) = Says(UnusedIndex(b))
    BY <1>3 DEF Verdict
  <2> QED BY <2>3, <2>4, SaysGrows
<1>4. CASE kind = "vacuum"
  <2>1. /\ a.live \in Nat /\ b.live \in Nat
        /\ a.dead \in Nat /\ b.dead \in Nat
    BY <1>4 DEF RowOf
  <2>2. b.live = a.live /\ b.dead >= a.dead
    BY <1>4 DEF Worse
  <2>3. VacuumHealth(a) => VacuumHealth(b)
    BY <2>1, <2>2 DEF VacuumHealth
  <2>4. Verdict(kind, a) = Says(VacuumHealth(a)) /\ Verdict(kind, b) = Says(VacuumHealth(b))
    BY <1>4 DEF Verdict
  <2> QED BY <2>3, <2>4, SaysGrows
<1>5. CASE kind = "sequence"
  <2>1. /\ a.max \in Int /\ b.max \in Int
        /\ a.current \in Int /\ b.current \in Int
    BY <1>5 DEF RowOf
  <2>2. b.max = a.max /\ b.current >= a.current
    BY <1>5 DEF Worse
  <2>3. SequenceOverflow(a) => SequenceOverflow(b)
    BY <2>1, <2>2 DEF SequenceOverflow
  <2>4. Verdict(kind, a) = Says(SequenceOverflow(a)) /\ Verdict(kind, b) = Says(SequenceOverflow(b))
    BY <1>5 DEF Verdict
  <2> QED BY <2>3, <2>4, SaysGrows
<1>6. CASE kind = "checkpoint"
  <2>1. /\ a.scheduled \in Nat /\ b.scheduled \in Nat
        /\ a.requested \in Nat /\ b.requested \in Nat
    BY <1>6 DEF RowOf
  <2>2. b.scheduled <= a.scheduled /\ b.requested >= a.requested
    BY <1>6 DEF Worse
  <2>3. CheckpointHealth(a) => CheckpointHealth(b)
    BY <2>1, <2>2 DEF CheckpointHealth
  <2>4. Verdict(kind, a) = Says(CheckpointHealth(a)) /\ Verdict(kind, b) = Says(CheckpointHealth(b))
    BY <1>6 DEF Verdict
  <2> QED BY <2>3, <2>4, SaysGrows
<1>7. CASE kind = "saturation"
  <2>1. /\ a.max \in Nat /\ b.max \in Nat
        /\ a.active \in Nat /\ b.active \in Nat
    BY <1>7 DEF RowOf
  <2>2. b.max = a.max /\ b.active >= a.active
    BY <1>7 DEF Worse
  <2>3. ConnectionSaturation(a) => ConnectionSaturation(b)
    BY <2>1, <2>2 DEF ConnectionSaturation
  <2>4. Verdict(kind, a) = Says(ConnectionSaturation(a)) /\ Verdict(kind, b) = Says(ConnectionSaturation(b))
    BY <1>7 DEF Verdict
  <2> QED BY <2>3, <2>4, SaysGrows
<1>8. CASE kind = "pagination"
  <2>1. /\ a.calls \in Nat /\ b.calls \in Nat
        /\ a.mean \in Nat /\ b.mean \in Nat
        /\ a.deviation \in Nat /\ b.deviation \in Nat
        /\ a.rows \in Nat /\ b.rows \in Nat
    BY <1>8 DEF RowOf
  <2>2. /\ b.calls = a.calls /\ b.mean = a.mean
        /\ b.deviation >= a.deviation /\ b.rows <= a.rows
    BY <1>8 DEF Worse
  <2>3. Pagination(a) => Pagination(b)
    BY <2>1, <2>2 DEF Pagination
  <2>4. Verdict(kind, a) = Says(Pagination(a)) /\ Verdict(kind, b) = Says(Pagination(b))
    BY <1>8 DEF Verdict
  <2> QED BY <2>3, <2>4, SaysGrows
<1>9. CASE kind = "idle in transaction"
  <2>1. a.measure \in Nat /\ b.measure \in Nat
    BY <1>9 DEF RowOf
  <2>2. b.measure >= a.measure
    BY <1>9 DEF Worse
  <2>3. IdleInTransaction(a) => IdleInTransaction(b)
    BY <2>1, <2>2 DEF IdleInTransaction
  <2>4. Verdict(kind, a) = Says(IdleInTransaction(a)) /\ Verdict(kind, b) = Says(IdleInTransaction(b))
    BY <1>9 DEF Verdict
  <2> QED BY <2>3, <2>4, SaysGrows
<1>10. CASE kind = "long query"
  <2>1. a.measure \in Nat /\ b.measure \in Nat
    BY <1>10 DEF RowOf
  <2>2. b.measure >= a.measure
    BY <1>10 DEF Worse
  <2>3. LongRunningQuery(a) => LongRunningQuery(b)
    BY <2>1, <2>2 DEF LongRunningQuery
  <2>4. Verdict(kind, a) = Says(LongRunningQuery(a)) /\ Verdict(kind, b) = Says(LongRunningQuery(b))
    BY <1>10 DEF Verdict
  <2> QED BY <2>3, <2>4, SaysGrows
<1>11. CASE kind = "lock wait"
  <2>1. a.measure \in Nat /\ b.measure \in Nat
    BY <1>11 DEF RowOf
  <2>2. b.measure >= a.measure
    BY <1>11 DEF Worse
  <2>3. LockWait(a) => LockWait(b)
    BY <2>1, <2>2 DEF LockWait
  <2>4. Verdict(kind, a) = Says(LockWait(a)) /\ Verdict(kind, b) = Says(LockWait(b))
    BY <1>11 DEF Verdict
  <2> QED BY <2>3, <2>4, SaysGrows
<1>12. CASE kind = "prepared transaction"
  <2>1. a.measure \in Nat /\ b.measure \in Nat
    BY <1>12 DEF RowOf
  <2>2. b.measure >= a.measure
    BY <1>12 DEF Worse
  <2>3. PreparedTransaction(a) => PreparedTransaction(b)
    BY <2>1, <2>2 DEF PreparedTransaction
  <2>4. Verdict(kind, a) = Says(PreparedTransaction(a)) /\ Verdict(kind, b) = Says(PreparedTransaction(b))
    BY <1>12 DEF Verdict
  <2> QED BY <2>3, <2>4, SaysGrows
<1>13. CASE kind = "replication lag"
  <2>1. a.measure \in Nat /\ b.measure \in Nat
    BY <1>13 DEF RowOf
  <2>2. b.measure >= a.measure
    BY <1>13 DEF Worse
  <2>3. ReplicationLag(a) => ReplicationLag(b)
    BY <2>1, <2>2 DEF ReplicationLag
  <2>4. Verdict(kind, a) = Says(ReplicationLag(a)) /\ Verdict(kind, b) = Says(ReplicationLag(b))
    BY <1>13 DEF Verdict
  <2> QED BY <2>3, <2>4, SaysGrows
<1>14. CASE kind = "replication slot"
  <2>1. a.measure \in Nat /\ b.measure \in Nat
    BY <1>14 DEF RowOf
  <2>2. b.measure >= a.measure
    BY <1>14 DEF Worse
  <2>3. ReplicationSlot(a) => ReplicationSlot(b)
    BY <2>1, <2>2 DEF ReplicationSlot
  <2>4. Verdict(kind, a) = Says(ReplicationSlot(a)) /\ Verdict(kind, b) = Says(ReplicationSlot(b))
    BY <1>14 DEF Verdict
  <2> QED BY <2>3, <2>4, SaysGrows
<1>15. CASE kind = "candidate"
  BY <1>15, CandidateStays
<1> QED BY <1>1, <1>2, <1>3, <1>4, <1>5, <1>6, <1>7, <1>8,
         <1>9, <1>10, <1>11, <1>12, <1>13, <1>14, <1>15 DEF Kinds
-----------------------------------------------------------------------------
(* The collectors.                                                         *)

LEMMA LesserOf ==
  ASSUME NEW m \in Nat, NEW n \in Nat
  PROVE  Min({m, n}) = IF m <= n THEN m ELSE n
<1> DEFINE lesser == IF m <= n THEN m ELSE n
<1>1. lesser \in {m, n} /\ \A y \in {m, n} : lesser <= y
  OBVIOUS
<1>2. \A x \in {m, n} : (\A y \in {m, n} : x <= y) => x = lesser
  OBVIOUS
<1> QED BY <1>1, <1>2 DEF Min

(* A query whose order puts nothing above what is to be reported but what  *)
(* is to be reported as well, reads it all or nothing else.                *)
LEMMA TopHoldsReported ==
  ASSUME NEW selected, IsFiniteSet(selected), NEW above,
         NEW reported \in SUBSET selected, NEW read \in Top(selected, above),
         \A r \in reported, s \in selected : <<r, s>> \notin above => s \in reported
  PROVE  reported \subseteq read \/ (read \subseteq reported /\ Cardinality(read) = Limit)
<1>1. /\ read \in SUBSET selected
      /\ Cardinality(read) = Min({Limit, Cardinality(selected)})
      /\ \A r \in read, s \in selected \ read : <<s, r>> \notin above
  BY DEF Top
<1>2. SUFFICES ASSUME NEW r \in reported, r \notin read
               PROVE  read \subseteq reported /\ Cardinality(read) = Limit
  OBVIOUS
<1>3. read \subseteq reported
  BY <1>1, <1>2
<1>4. Cardinality(read) = Limit
  <2>1. Cardinality(selected) \in Nat /\ Limit \in Nat
    BY FS_CardinalityType, LimitAssumption
  <2>2. Cardinality(read) # Cardinality(selected)
    BY <1>1, <1>2, FS_Subset
  <2> QED BY <1>1, <2>1, <2>2, LesserOf
<1> QED BY <1>3, <1>4

(* Whatever a query reads of a catalog, its LIMIT leaves out nothing that  *)
(* would be reported but when all it reads is reported (the collectors of  *)
(* function costs, physical reads and unused indexes).                     *)
LEMMA NoneCrowdedOut ==
  ASSUME NEW kind \in Aligned, NEW names, IsFiniteSet(names),
         NEW catalog \in [names -> RowOf(kind)], OfOneDatabase(kind, catalog)
  PROVE  NothingIsCrowdedOut(kind, catalog)
<1> DEFINE reported == {r \in DOMAIN catalog : Verdict(kind, catalog[r]) > 0}
<1> SUFFICES ASSUME NEW read \in Fetch(kind, catalog)
             PROVE  reported \subseteq read \/ (read \subseteq reported /\ Cardinality(read) = Limit)
  BY DEF NothingIsCrowdedOut
<1>1. DOMAIN catalog = names /\ \A r \in names : catalog[r] \in RowOf(kind)
  OBVIOUS
<1>2. \A p : Says(p) > 0 <=> p
  BY DEF Says
<1>3. CASE kind = "function"
  <2> DEFINE above == {p \in Pairs(catalog) : catalog[p[1]].selfTime * catalog[p[2]].calls
                                                > catalog[p[2]].selfTime * catalog[p[1]].calls}
             selected == Called(catalog)
  <2>1. read \in Top(selected, above)
    BY <1>3 DEF Fetch, FetchFunctionStats
  <2>2. \A r \in names : catalog[r].calls \in Nat /\ catalog[r].selfTime \in Nat
    BY <1>1, <1>3 DEF RowOf
  <2>3. \A r \in names : r \in reported <=> FunctionCost(catalog[r])
    <3>1. ASSUME NEW r \in names
          PROVE  Verdict(kind, catalog[r]) = Says(FunctionCost(catalog[r]))
      BY <1>3 DEF Verdict
    <3> QED BY <1>1, <1>2, <3>1
  <2>4. /\ selected \in SUBSET names /\ reported \in SUBSET selected
        /\ \A r \in selected : catalog[r].calls >= 100
    BY <1>1, <2>3 DEF Called, FunctionCost
  <2>5. ASSUME NEW r \in reported, NEW s \in selected, <<r, s>> \notin above
        PROVE  s \in reported
    <3> DEFINE x == catalog[r].selfTime
               c == catalog[r].calls
               y == catalog[s].selfTime
               d == catalog[s].calls
    <3>1. x \in Nat /\ c \in Nat /\ y \in Nat /\ d \in Nat
      BY <2>2, <2>4
    <3>2. c >= 100 /\ x >= 5 * c /\ d >= 100
      BY <2>3, <2>4 DEF FunctionCost
    <3>3. ~(x * d > y * c)
      BY <1>1, <2>4, <2>5 DEF Pairs
    <3>4. y >= 5 * d
      <4> HIDE DEF x, c, y, d
      <4>1. SUFFICES ASSUME y < 5 * d
                     PROVE  FALSE
        BY <3>1
      <4>2. y * c < (5 * d) * c
        BY <3>1, <3>2, <4>1
      <4>3. (5 * c) * d <= x * d
        BY <3>1, <3>2
      <4>4. (5 * d) * c = (5 * c) * d
        BY <3>1
      <4>5. y * c \in Int /\ x * d \in Int /\ (5 * c) * d \in Int
        BY <3>1
      <4> QED BY <3>3, <4>2, <4>3, <4>4, <4>5
    <3> QED BY <2>3, <2>4, <3>2, <3>4 DEF FunctionCost
  <2>6. IsFiniteSet(selected)
    BY <2>4, FS_Subset
  <2> HIDE DEF reported, above, selected
  <2> QED BY <2>1, <2>4, <2>5, <2>6, TopHoldsReported
<1>4. CASE kind = "physical io"
  <2> DEFINE above == {p \in Pairs(catalog) : catalog[p[1]].reads > catalog[p[2]].reads}
  <2>1. read \in Top(names, above)
    BY <1>1, <1>4 DEF Fetch, FetchPhysicalIO
  <2>2. \A r \in names : catalog[r].reads \in Nat
    BY <1>1, <1>4 DEF RowOf
  <2>3. \A r \in names : r \in reported <=> PhysicalIO(catalog[r])
    <3>1. ASSUME NEW r \in names
          PROVE  Verdict(kind, catalog[r]) = Says(PhysicalIO(catalog[r]))
      BY <1>4 DEF Verdict
    <3> QED BY <1>1, <1>2, <3>1
  <2>4. reported \in SUBSET names
    BY <1>1
  <2>5. ASSUME NEW r \in reported, NEW s \in names, <<r, s>> \notin above
        PROVE  s \in reported
    <3>1. ~(catalog[r].reads > catalog[s].reads)
      BY <1>1, <2>4, <2>5 DEF Pairs
    <3>2. catalog[r].reads >= 1000
      BY <2>3, <2>4 DEF PhysicalIO
    <3> QED BY <2>2, <2>3, <2>4, <3>1, <3>2 DEF PhysicalIO
  <2> HIDE DEF reported, above
  <2> QED BY <2>1, <2>4, <2>5, TopHoldsReported
<1>5. CASE kind = "unused index"
  <2> DEFINE above == {p \in Pairs(catalog) : catalog[p[1]].size > catalog[p[2]].size}
             selected == {r \in DOMAIN catalog : catalog[r].scans <= 50}
  <2>1. read \in Top(selected, above)
    BY <1>5 DEF Fetch, FetchUnusedIndexes
  <2>2. \A r \in names : r \in reported <=> UnusedIndex(catalog[r])
    <3>1. ASSUME NEW r \in names
          PROVE  Verdict(kind, catalog[r]) = Says(UnusedIndex(catalog[r]))
      BY <1>5 DEF Verdict
    <3> QED BY <1>1, <1>2, <3>1
  <2>3. reported \in SUBSET selected /\ selected \in SUBSET names
    BY <1>1, <2>2 DEF UnusedIndex
  <2>4. ASSUME NEW r \in reported, NEW s \in selected
        PROVE  s \in reported
    <3>1. catalog[s].age = catalog[r].age
      BY <1>1, <1>5, <2>3 DEF OfOneDatabase
    <3> QED BY <2>2, <2>3, <3>1 DEF UnusedIndex
  <2>5. IsFiniteSet(selected)
    BY <2>3, FS_Subset
  <2> HIDE DEF reported, above, selected
  <2> QED BY <2>1, <2>3, <2>4, <2>5, TopHoldsReported
<1> QED BY <1>3, <1>4, <1>5 DEF Aligned
-----------------------------------------------------------------------------
(* Every input. A step either takes one, or the input stays.               *)
LEMMA OneInput ==
  ASSUME [ReportsNext]_input
  PROVE  LoadEnvironment \/ Judge \/ Read \/ input' = input
BY DEF ReportsNext

(* Whatever the environment, Load refuses it or returns a configuration    *)
(* the rest of the program can run with, unless a product in it overflowed *)
(* or its rate is NaN (Load in config.go).                                 *)
THEOREM ConfigurationUsable == ReportsSpec => []ConfigurationIsUsable
<1>1. ReportsInit => ConfigurationIsUsable
  BY DEF ReportsInit, ConfigurationIsUsable
<1>2. ConfigurationIsUsable /\ [ReportsNext]_input => ConfigurationIsUsable'
  <2> SUFFICES ASSUME ConfigurationIsUsable, [ReportsNext]_input
               PROVE  ConfigurationIsUsable'
    OBVIOUS
  <2>1. CASE LoadEnvironment
    <3>1. PICK env \in Environments : input' = [of |-> "environment", env |-> env]
      BY <2>1 DEF LoadEnvironment
    <3>2. env \in [Variables -> Text]
      BY ReportsAssumption
    <3>3. LoadedIsUsable(env)
      BY <3>2, LoadIsUsable
    <3>4. input'.env = env
      BY <3>1
    <3> QED BY <3>3, <3>4 DEF ConfigurationIsUsable
  <2>2. CASE Judge \/ Read
    <3>1. input'.of # "environment"
      BY <2>2 DEF Judge, Read
    <3> QED BY <3>1 DEF ConfigurationIsUsable
  <2>3. CASE input' = input
    BY <2>3 DEF ConfigurationIsUsable
  <2> QED BY <2>1, <2>2, <2>3, OneInput
<1> QED BY <1>1, <1>2, PTL DEF ReportsSpec

(* No condition loses its advisory, or its confidence, by getting worse    *)
(* (the fifteen detectors).                                                *)
THEOREM AdvisoriesStay == ReportsSpec => []WorseStaysReported
<1>1. ReportsInit => WorseStaysReported
  BY DEF ReportsInit, WorseStaysReported
<1>2. WorseStaysReported /\ [ReportsNext]_input => WorseStaysReported'
  <2> SUFFICES ASSUME WorseStaysReported, [ReportsNext]_input
               PROVE  WorseStaysReported'
    OBVIOUS
  <2>1. CASE Judge
    <3>1. PICK kind \in Kinds : \E row, worse \in Rows[kind] :
             input' = [of |-> "row", kind |-> kind, row |-> row, worse |-> worse]
      BY <2>1 DEF Judge
    <3>2. PICK row \in Rows[kind], worse \in Rows[kind] :
             input' = [of |-> "row", kind |-> kind, row |-> row, worse |-> worse]
      BY <3>1
    <3>3. row \in RowOf(kind) /\ worse \in RowOf(kind)
      BY ReportsAssumption
    <3>4. WorseIsStillReported(kind, row, worse)
      BY <3>3, WorseStays
    <3>5. input'.kind = kind /\ input'.row = row /\ input'.worse = worse
      BY <3>2
    <3> QED BY <3>4, <3>5 DEF WorseStaysReported
  <2>2. CASE LoadEnvironment \/ Read
    <3>1. input'.of # "row"
      BY <2>2 DEF LoadEnvironment, Read
    <3> QED BY <3>1 DEF WorseStaysReported
  <2>3. CASE input' = input
    BY <2>3 DEF WorseStaysReported
  <2> QED BY <2>1, <2>2, <2>3, OneInput
<1> QED BY <1>1, <1>2, PTL DEF ReportsSpec

(* No LIMIT hides what the judgment would have reported behind what it     *)
(* would not, whatever the catalog holds (FetchFunctionStats,              *)
(* FetchPhysicalIO, FetchUnusedIndexes and their detectors).               *)
THEOREM NothingIsLeftOut == ReportsSpec => []NothingCrowdedOut
<1>1. ReportsInit => NothingCrowdedOut
  BY DEF ReportsInit, NothingCrowdedOut
<1>2. NothingCrowdedOut /\ [ReportsNext]_input => NothingCrowdedOut'
  <2> SUFFICES ASSUME NothingCrowdedOut, [ReportsNext]_input
               PROVE  NothingCrowdedOut'
    OBVIOUS
  <2>1. CASE Read
    <3>1. PICK kind \in Aligned : \E catalog \in [Object -> Rows[kind]] :
             /\ OfOneDatabase(kind, catalog)
             /\ input' = [of |-> "catalog", kind |-> kind, catalog |-> catalog]
      BY <2>1 DEF Read
    <3>2. PICK catalog \in [Object -> Rows[kind]] :
             /\ OfOneDatabase(kind, catalog)
             /\ input' = [of |-> "catalog", kind |-> kind, catalog |-> catalog]
      BY <3>1
    <3>3. catalog \in [Object -> RowOf(kind)] /\ IsFiniteSet(Object)
      <4>1. Rows[kind] \subseteq RowOf(kind)
        BY ReportsAssumption DEF Aligned, Kinds
      <4> QED BY <3>2, <4>1, ReportsAssumption
    <3>4. NothingIsCrowdedOut(kind, catalog)
      BY <3>2, <3>3, NoneCrowdedOut
    <3>5. input'.kind = kind /\ input'.catalog = catalog
      BY <3>2
    <3> QED BY <3>4, <3>5 DEF NothingCrowdedOut
  <2>2. CASE LoadEnvironment \/ Judge
    <3>1. input'.of # "catalog"
      BY <2>2 DEF LoadEnvironment, Judge
    <3> QED BY <3>1 DEF NothingCrowdedOut
  <2>3. CASE input' = input
    BY <2>3 DEF NothingCrowdedOut
  <2> QED BY <2>1, <2>2, <2>3, OneInput
<1> QED BY <1>1, <1>2, PTL DEF ReportsSpec
-----------------------------------------------------------------------------
(* The advice on redundant indexes.                                        *)

(* An index has a list of columns.                                         *)
LEMMA ColumnsType ==
  ASSUME NEW index \in Index
  PROVE  /\ Columns(index) \in Seq(Column)
         /\ index.name \in Int
         /\ index.unique \in BOOLEAN
<1>1. index.keys \in Seq(Column) /\ index.included \in Seq(Column)
  BY IndexAssumption DEF Index
<1>2. Columns(index) \in Seq(Column)
  BY <1>1 DEF Columns
<1>3. index.name \in Int /\ index.unique \in BOOLEAN
  BY IndexAssumption DEF Index
<1> QED BY <1>2, <1>3

(* Two indexes never make each other redundant ...                         *)
LEMMA RedundantAsymmetric ==
  ASSUME NEW x \in Index, NEW y \in Index, Redundant(x, y)
  PROVE  ~Redundant(y, x)
<1> SUFFICES ASSUME Redundant(y, x) PROVE FALSE
  OBVIOUS
<1>1. ~x.unique /\ ~y.unique
  BY DEF Redundant
<1>2. Len(Columns(x)) = Len(Columns(y))
  <2>1. Len(Columns(x)) \in Nat /\ Len(Columns(y)) \in Nat
    BY ColumnsType
  <2> QED BY <2>1 DEF Redundant, ColumnsCovered
<1>3. y.name < x.name /\ x.name < y.name
  BY <1>1, <1>2 DEF Redundant, PreferOther
<1>4. x.name \in Int /\ y.name \in Int
  BY ColumnsType
<1> QED BY <1>3, <1>4

(* ... and what makes redundant an index that makes x redundant, makes x   *)
(* redundant.                                                              *)
LEMMA RedundantTransitive ==
  ASSUME NEW x \in Index, NEW y \in Index, NEW z \in Index,
         Redundant(x, y), Redundant(y, z), x.name # z.name
  PROVE  Redundant(x, z)
<1>1. SameShape(x, z)
  BY DEF Redundant, SameShape
<1> DEFINE cx == Columns(x)
           cy == Columns(y)
           cz == Columns(z)
<1>2. cx \in Seq(Column) /\ cy \in Seq(Column) /\ cz \in Seq(Column)
  BY ColumnsType
<1>3. /\ Len(cx) <= Len(cy) /\ Len(cy) <= Len(cz)
      /\ \A n \in 1..Len(cx) : cy[n] = cx[n]
      /\ \A n \in 1..Len(cy) : cz[n] = cy[n]
  BY DEF Redundant, ColumnsCovered
<1>4. /\ Len(cx) <= Len(cz)
      /\ \A n \in 1..Len(cx) : cz[n] = cx[n]
  <2> HIDE DEF cx, cy, cz
  <2> QED BY <1>2, <1>3
<1>5. ColumnsCovered(x, z)
  BY <1>4 DEF ColumnsCovered
<1>6. PreferOther(x, z)
  <2>1. /\ ~x.unique /\ ~y.unique
        /\ Len(cy) # Len(cx) \/ y.name < x.name
        /\ Len(cz) # Len(cy) \/ z.unique \/ z.name < y.name
    BY DEF Redundant, PreferOther
  <2>2. x.name \in Int /\ y.name \in Int /\ z.name \in Int
    BY ColumnsType
  <2>3. Len(cz) # Len(cx) \/ z.unique \/ z.name < x.name
    <3> HIDE DEF cx, cy, cz
    <3> QED BY <1>2, <1>3, <2>1, <2>2
  <2> QED BY <2>1, <2>3 DEF PreferOther
<1> QED BY <1>1, <1>5, <1>6 DEF Redundant
-----------------------------------------------------------------------------
(* The inductive invariant: whatever was dropped is made redundant by an   *)
(* index that is still there, and whatever was reported by one that was    *)
(* there at some time.                                                     *)
NamesUnique == \A i, j \in known : i.name = j.name => i = j
ReportGrounded == \A i \in report : \E j \in known : Redundant(i, j)
DroppedCovered == \A i \in known \ indexes : \E j \in indexes : Redundant(i, j)

IndexInv ==
    /\ TypeOK
    /\ indexes \subseteq known
    /\ report \subseteq known
    /\ NamesUnique
    /\ ReportGrounded
    /\ DroppedCovered

LEMMA IndexInitInv == Init => IndexInv
BY DEF Init, IndexInv, TypeOK, NamesUnique, ReportGrounded, DroppedCovered

LEMMA FetchReportInv == IndexInv /\ FetchReport => IndexInv'
<1> SUFFICES ASSUME IndexInv, FetchReport PROVE IndexInv'
  OBVIOUS
<1>1. TypeOK' /\ (indexes \subseteq known)' /\ (report \subseteq known)'
  BY DEF IndexInv, TypeOK, FetchReport, DetectDuplicateIndexes
<1>2. NamesUnique' /\ DroppedCovered'
  BY DEF IndexInv, FetchReport, NamesUnique, DroppedCovered, Redundant, SameShape,
         ColumnsCovered, PreferOther, Columns
<1>3. ReportGrounded'
  BY DEF IndexInv, FetchReport, DetectDuplicateIndexes, ReportGrounded
<1> QED BY <1>1, <1>2, <1>3 DEF IndexInv

LEMMA CreateInv ==
  ASSUME NEW index \in Index, IndexInv, Create(index)
  PROVE  IndexInv'
<1>1. TypeOK' /\ (indexes \subseteq known)' /\ (report \subseteq known)'
  BY DEF IndexInv, TypeOK, Create
<1>2. NamesUnique'
  BY DEF IndexInv, Create, NamesUnique
<1>3. ReportGrounded'
  BY DEF IndexInv, Create, ReportGrounded
<1>4. DroppedCovered'
  BY DEF IndexInv, Create, DroppedCovered
<1> QED BY <1>1, <1>2, <1>3, <1>4 DEF IndexInv

(* What covers for a dropped index is what covered for it when it was      *)
(* reported, or whatever has come to cover for that.                       *)
LEMMA DropInv ==
  ASSUME NEW index \in Index, IndexInv, Drop(index)
  PROVE  IndexInv'
<1> USE DEF IndexInv
<1>1. TypeOK' /\ (indexes \subseteq known)' /\ (report \subseteq known)' /\ NamesUnique'
  BY DEF TypeOK, Drop, NamesUnique
<1>2. ReportGrounded'
  BY DEF Drop, ReportGrounded
<1>3. known \subseteq Index /\ indexes' = indexes \ {index} /\ known' = known /\ index \in known
  BY DEF TypeOK, Drop
<1>4. PICK keeper \in indexes' : Redundant(index, keeper)
  <2>1. PICK c \in known : Redundant(index, c)
    BY DEF Drop, ReportGrounded
  <2>2. CASE c \in indexes
    BY <1>3, <2>1, <2>2 DEF Redundant
  <2>3. CASE c \notin indexes
    <3>1. PICK j \in indexes : Redundant(c, j)
      BY <2>3 DEF DroppedCovered
    <3>2. j # index
      BY <1>3, <2>1, <3>1, RedundantAsymmetric
    <3>3. j.name # index.name
      BY <1>3, <3>2 DEF NamesUnique
    <3>4. Redundant(index, j)
      BY <1>3, <2>1, <3>1, <3>3, RedundantTransitive
    <3> QED BY <1>3, <3>2, <3>4
  <2> QED BY <2>2, <2>3
<1>5. ASSUME NEW i \in known \ indexes'
      PROVE  \E j \in indexes' : Redundant(i, j)
  <2>1. CASE i = index
    BY <1>4, <2>1
  <2>2. CASE i # index
    <3>1. PICK j \in indexes : Redundant(i, j)
      BY <1>3, <1>5, <2>2 DEF DroppedCovered
    <3>2. CASE j # index
      BY <1>3, <3>1, <3>2
    <3>3. CASE j = index
      <4>1. i # keeper
        BY <1>5
      <4>2. i.name # keeper.name
        BY <1>3, <4>1 DEF NamesUnique
      <4> QED BY <1>3, <1>4, <3>1, <3>3, <4>2, RedundantTransitive
    <3> QED BY <3>2, <3>3
  <2> QED BY <2>1, <2>2
<1>6. DroppedCovered'
  BY <1>3, <1>5 DEF DroppedCovered
<1> QED BY <1>1, <1>2, <1>6

LEMMA IndexSpecInv == Spec => []IndexInv
<1>1. IndexInv /\ [Next]_vars => IndexInv'
  <2> SUFFICES ASSUME IndexInv, [Next]_vars PROVE IndexInv'
    OBVIOUS
  <2>1. CASE FetchReport
    BY <2>1, FetchReportInv
  <2>2. ASSUME NEW index \in Index, Drop(index) \/ Create(index)
        PROVE  IndexInv'
    BY <2>2, DropInv, CreateInv
  <2>3. CASE UNCHANGED vars
    BY <2>3 DEF vars, IndexInv, TypeOK, NamesUnique, ReportGrounded, DroppedCovered
  <2> QED BY <2>1, <2>2, <2>3 DEF Next
<1> QED BY <1>1, IndexInitInv, PTL DEF Spec
-----------------------------------------------------------------------------
(* Type correctness, for any names, tables, shapes and column lists.       *)
THEOREM IndexTypeOK == Spec => []TypeOK
<1>1. IndexInv => TypeOK
  BY DEF IndexInv
<1> QED BY <1>1, IndexSpecInv, PTL

(* Where no index stores columns beside its key, the advice of             *)
(* DetectDuplicateIndexes can be followed in any order and at any time     *)
(* without losing a lookup or a constraint.                                *)
THEOREM AdviceIsSafe ==
  ASSUME Included = {<<>>}
  PROVE  Spec => []NoLookupLost
<1>1. ASSUME NEW index \in Index
      PROVE  Columns(index) = index.keys
  BY IndexAssumption DEF Index, Columns
<1>2. ASSUME NEW i \in Index, NEW j \in Index, Redundant(i, j)
      PROVE  ~i.unique /\ Answers(j, i)
  BY <1>1, <1>2 DEF Redundant, SameShape, ColumnsCovered, Answers
<1>3. ASSUME NEW i \in Index
      PROVE  Answers(i, i)
  BY IndexAssumption DEF Answers, Index
<1>4. IndexInv => NoLookupLost
  BY <1>2, <1>3 DEF IndexInv, TypeOK, DroppedCovered, NoLookupLost
<1> QED BY <1>4, IndexSpecInv, PTL

(* Under the same condition the advice is complete: no redundant index     *)
(* goes unreported.                                                        *)
THEOREM AdviceIsComplete ==
  ASSUME Included = {<<>>}
  PROVE  Spec => []NothingToSpare
<1>1. ASSUME NEW index \in Index
      PROVE  Columns(index) = index.keys
  BY IndexAssumption DEF Index, Columns
<1>2. ASSUME NEW i \in Index, NEW j \in Index, i.name # j.name, ~i.unique, Answers(j, i)
      PROVE  Redundant(i, j) \/ Redundant(j, i)
  <2>1. SameShape(i, j) /\ SameShape(j, i) /\ ColumnsCovered(i, j)
    BY <1>1, <1>2 DEF Answers, SameShape, ColumnsCovered
  <2>2. CASE PreferOther(i, j)
    BY <1>2, <2>1, <2>2 DEF Redundant
  <2>3. CASE ~PreferOther(i, j)
    <3>1. Len(Columns(j)) = Len(Columns(i)) /\ ~j.unique /\ i.name < j.name
      BY <1>2, <2>3, ColumnsType DEF PreferOther
    <3>2. ColumnsCovered(j, i)
      BY <2>1, <3>1 DEF ColumnsCovered
    <3> QED BY <1>2, <2>1, <3>1, <3>2 DEF Redundant, PreferOther
  <2> QED BY <2>2, <2>3
<1>3. IndexInv => NothingToSpare
  BY <1>2 DEF IndexInv, TypeOK, NamesUnique, NothingToSpare, DetectDuplicateIndexes
<1> QED BY <1>3, IndexSpecInv, PTL
-----------------------------------------------------------------------------
(***************************************************************************)
(* Redaction.  The scan does not know of tokens: it judges by the symbols  *)
(* at its position.  The inductive invariant says what the text before it  *)
(* is in terms of the author's tokens (TextInv), where a turn of either    *)
(* loop begins (PositionInv), and that what is written so far is what is   *)
(* due for the positions passed (OutputInv).                               *)
(***************************************************************************)

(* A position lies between two tokens if what stands there ends one.       *)
Between(p) ==
    /\ p \in 1..Len(query)
    /\ query[p] \in Separators
    /\ \A piece \in pieces : p \notin Places(piece)

(* The text is its pieces, each behind the last and ended by a separator.  *)
TextInv ==
    /\ query \in Seq(Symbols)
    /\ \A piece \in pieces :
          /\ piece.from \in Nat \ {0}
          /\ piece.token \in Literals \union Others
          /\ \A m \in 1..Len(piece.token) : query[piece.from + m - 1] = piece.token[m]
          /\ piece.from = 1 \/ Between(piece.from - 1)
          /\ Between(Last(piece) + 1)
    /\ \A p \in 1..Len(query) : Between(p) \/ \E piece \in pieces : p \in Places(piece)
    /\ \A one, other \in pieces : one # other => Places(one) \intersect Places(other) = {}
    /\ Len(query) = 0 \/ Between(Len(query))

CutText == TextInv /\ length \in 0..Len(query)

(* Nothing is left from p on but what opens a literal that is cut, or the  *)
(* mark and sign of its exponent.                                          *)
Harmless(p) ==
    \E piece \in pieces :
        /\ IsLiteral(piece) /\ p \in Places(piece)
        /\ length < Last(piece)
        /\ p - piece.from + 1 \notin Secret(piece.token)
Leftover(p) == \A k \in p..length : Harmless(k)

(* Where a turn of the loop begins: at a token, in a name, or between two. *)
AtRest(p) ==
    \/ Leftover(p)
    \/ Between(p)
    \/ \E piece \in pieces : piece.from = p
    \/ \E piece \in pieces : ~IsLiteral(piece) /\ IsName(piece.token) /\ p \in Places(piece)

(* Where a turn of the inner loop begins: in a string, behind what opened  *)
(* it, and not between the two quotes of a pair.                           *)
InString(p) ==
    \E piece \in pieces : \E opening \in {1, 2} : \E firsts \in SUBSET (1..Len(piece.token)) :
        /\ IsLiteral(piece)
        /\ IsStringWith(piece.token, opening, firsts)
        /\ p \in (piece.from + opening)..Last(piece)
        /\ p - piece.from \notin firsts

PositionInv ==
    /\ mode \in {"writing", "scan", "quote", "done"}
    /\ length \in 0..Len(query)
    /\ position \in 1..(length + 1)
    /\ mode = "writing" => length = 0
    /\ mode = "scan" => AtRest(position)
    /\ mode = "quote" => Leftover(position) \/ InString(position)
    /\ mode = "done" => position > length

(* What is written so far is what is due for the positions passed.         *)
OutputInv ==
    /\ kept \subseteq 1..(position - 1) /\ masks \subseteq 1..(position - 1)
    /\ \A piece \in pieces :
          IsLiteral(piece) /\ Last(piece) <= length /\ piece.from < position =>
              /\ Places(piece) \intersect masks = {piece.from}
              /\ Places(piece) \intersect kept = {}
    /\ \A p \in 1..(position - 1) :
          (\A piece \in pieces : IsLiteral(piece) => p \notin Places(piece)) =>
              p \in kept /\ p \notin masks
    /\ CutTextLeaksNothing

RedactionInv == TextInv /\ PositionInv /\ OutputInv
-----------------------------------------------------------------------------
(* A set of natural numbers that is not empty has a least element.         *)
LEMMA LeastOf ==
  ASSUME NEW S \in SUBSET Nat, S # {}
  PROVE  Min(S) \in S /\ \A y \in S : Min(S) <= y
<1> DEFINE Initial == {0..s : s \in S}
<1>1. Initial \subseteq FiniteSubsetsOf(Nat)
  <2> SUFFICES ASSUME NEW s \in S
               PROVE  0..s \in FiniteSubsetsOf(Nat)
    OBVIOUS
  <2>1. s \in Nat /\ 0..s \in SUBSET Nat
    OBVIOUS
  <2>2. IsFiniteSet(0..s)
    BY <2>1, FS_Interval
  <2> QED BY <2>1, <2>2 DEF FiniteSubsetsOf
<1>2. PICK f \in Initial : \A g \in Initial : <<g, f>> \notin StrictSubsetOrdering(Nat)
  <2>1. Initial # {}
    OBVIOUS
  <2> HIDE DEF Initial
  <2> QED BY <1>1, <2>1, FS_StrictSubsetOrderingWellFounded, WFMin
<1>3. PICK x \in S : f = 0..x
  OBVIOUS
<1>4. ASSUME NEW y \in S, y < x
      PROVE  FALSE
  <2>1. 0..y \in Initial /\ 0..y \subseteq 0..x /\ x \in 0..x /\ x \notin 0..y
    BY <1>4
  <2>2. <<0..y, 0..x>> \in StrictSubsetOrdering(Nat)
    BY <2>1 DEF StrictSubsetOrdering
  <2> QED BY <1>2, <1>3, <2>1, <2>2
<1>5. \E y \in S : \A z \in S : y <= z
  BY <1>4
<1> QED BY <1>5 DEF Min

(* The kinds of characters: which of them overlap.                         *)
LEMMA CharacterKinds ==
  /\ Digits \subseteq IdentChars /\ Digits \subseteq MantissaChars /\ Digits \subseteq RadixChars
  /\ StringPrefixes \subseteq IdentChars /\ RadixPrefixes \subseteq IdentChars
  /\ "0" \in Digits
  /\ \A c \in StringPrefixes \union RadixPrefixes \union Signs \union {"e", "$", "'", "end"} :
        c \notin Digits /\ c \notin MantissaChars
  /\ \A c \in Signs \union {"$", "'", ".", "end"} : c \notin IdentChars
  /\ \A c \in {"$", "'", ".", "end"} : c \notin RadixChars
  /\ \A c \in Separators \union {"end"} :
        /\ c \notin IdentChars /\ c \notin Digits /\ c \notin MantissaChars /\ c \notin RadixChars
        /\ c \notin {"$", "'", ".", "e"}
  /\ "e" \notin Signs /\ "end" \notin Signs /\ "e" \notin RadixPrefixes
<1>1. \A c \in Separators : c \notin IdentChars /\ c \notin {"$", "'", "."}
  BY RedactionAssumption
<1>2. MantissaChars \subseteq IdentChars \union {"."} /\ RadixChars \subseteq IdentChars
      /\ Digits \subseteq IdentChars /\ "e" \in IdentChars
  BY DEF MantissaChars, RadixChars, Digits, IdentChars, HexDigits
<1>3. \A c \in Separators \union {"end"} :
        /\ c \notin IdentChars /\ c \notin {"$", "'", ".", "e"}
  BY <1>1, <1>2 DEF IdentChars, HexDigits, StringPrefixes, RadixPrefixes, Digits
<1>4. \A c \in Separators \union {"end"} :
        /\ c \notin IdentChars /\ c \notin Digits /\ c \notin MantissaChars /\ c \notin RadixChars
        /\ c \notin {"$", "'", ".", "e"}
  BY <1>2, <1>3
<1> QED
  BY <1>4 DEF Digits, HexDigits, StringPrefixes, RadixPrefixes, IdentChars, Signs, MantissaChars,
              RadixChars

(* A run ends at the first character that is not of its kind.              *)
LEMMA RunEndIs ==
  ASSUME length \in Nat, NEW p \in 1..(length + 1), NEW chars, "end" \notin chars
  PROVE  /\ RunEnd(p, chars) \in p..(length + 1)
         /\ At(RunEnd(p, chars)) \notin chars
         /\ \A k \in p..(RunEnd(p, chars) - 1) : At(k) \in chars
<1> DEFINE Stops == {j \in p..(length + 1) : At(j) \notin chars}
<1>1. length + 1 \in Stops
  BY DEF At
<1>2. Stops \in SUBSET Nat /\ Stops # {}
  BY <1>1
<1>3. Min(Stops) \in Stops /\ \A y \in Stops : Min(Stops) <= y
  <2> HIDE DEF Stops
  <2> QED BY <1>2, LeastOf
<1>4. RunEnd(p, chars) = Min(Stops)
  BY DEF RunEnd
<1> HIDE DEF RunEnd
<1> QED BY <1>3, <1>4

(* Where a run ends is known by what stands there and before.              *)
LEMMA RunEndsAt ==
  ASSUME length \in Nat, NEW p \in 1..(length + 1), NEW chars, "end" \notin chars,
         NEW e \in p..(length + 1), At(e) \notin chars, \A k \in p..(e - 1) : At(k) \in chars
  PROVE  RunEnd(p, chars) = e
<1> DEFINE r == RunEnd(p, chars)
<1>1. r \in p..(length + 1) /\ At(r) \notin chars /\ \A k \in p..(r - 1) : At(k) \in chars
  BY RunEndIs
<1> HIDE DEF r
<1>2. ~(r < e) /\ ~(e < r)
  BY <1>1
<1>3. r = e
  BY <1>1, <1>2
<1> QED BY <1>3 DEF r

(* Every turn moves on, and not beyond the end of the text.                *)
LEMMA DelimiterMovesOn ==
  ASSUME length \in Nat, NEW p \in 1..length, IsDollarQuote(p)
  PROVE  /\ DelimiterEnd(p) \in (p + 1)..length
         /\ At(DelimiterEnd(p)) = "$"
         /\ \A k \in (p + 1)..(DelimiterEnd(p) - 1) : At(k) \in IdentChars
         /\ SkipDollarQuote(p) \in (p + 1)..(length + 1)
         /\ Occurrences(p) # {} =>
              /\ SkipDollarQuote(p) = Min(Occurrences(p)) + (DelimiterEnd(p) - p) + 1
              /\ Min(Occurrences(p)) \in Occurrences(p)
              /\ \A k \in Occurrences(p) : Min(Occurrences(p)) <= k
         /\ Occurrences(p) = {} => SkipDollarQuote(p) = length + 1
<1>1. /\ DelimiterEnd(p) \in (p + 1)..(length + 1)
      /\ \A k \in (p + 1)..(DelimiterEnd(p) - 1) : At(k) \in IdentChars
  <2>1. p + 1 \in 1..(length + 1) /\ "end" \notin IdentChars
    BY CharacterKinds
  <2> QED BY <2>1, RunEndIs DEF DelimiterEnd
<1>2. At(DelimiterEnd(p)) = "$"
  BY DEF IsDollarQuote, OpensDollarQuote
<1>3. DelimiterEnd(p) \in (p + 1)..length
  BY <1>1, <1>2 DEF At
<1>4. Occurrences(p) \in SUBSET Nat
      /\ \A k \in Occurrences(p) : k \in (DelimiterEnd(p) + 1)..(length - (DelimiterEnd(p) - p))
  BY <1>3 DEF Occurrences
<1>5. CASE Occurrences(p) = {}
  BY <1>1, <1>2, <1>3, <1>5 DEF SkipDollarQuote
<1>6. CASE Occurrences(p) # {}
  <2>1. /\ Min(Occurrences(p)) \in Occurrences(p)
        /\ \A k \in Occurrences(p) : Min(Occurrences(p)) <= k
    BY <1>4, <1>6, LeastOf
  <2>2. SkipDollarQuote(p) = Min(Occurrences(p)) + (DelimiterEnd(p) - p) + 1
    BY <1>6 DEF SkipDollarQuote
  <2> QED BY <1>1, <1>2, <1>3, <1>4, <1>6, <2>1, <2>2
<1> QED BY <1>5, <1>6

(* An exponent is skipped within the text, or there is none.               *)
LEMMA ExponentMovesOn ==
  ASSUME length \in Nat, NEW mantissa \in 1..(length + 1)
  PROVE  ScanExponent(mantissa) \in mantissa..(length + 1)
<1> DEFINE mark == IF At(mantissa + 1) \in Signs THEN 2 ELSE 1
<1>1. CASE At(mantissa) = "e" /\ At(mantissa + mark) \in Digits
  <2>1. mark \in {1, 2}
    OBVIOUS
  <2> HIDE DEF mark
  <2>2. mantissa + mark \in 1..(length + 1)
    BY <1>1, <2>1, CharacterKinds DEF At
  <2>3. RunEnd(mantissa + mark, Digits) \in (mantissa + mark)..(length + 1)
    BY <2>2, RunEndIs, CharacterKinds
  <2>4. ScanExponent(mantissa) = RunEnd(mantissa + mark, Digits)
    BY <1>1 DEF ScanExponent, mark
  <2> QED BY <2>1, <2>3, <2>4
<1>2. CASE ~(At(mantissa) = "e" /\ At(mantissa + mark) \in Digits)
  <2>1. ScanExponent(mantissa) = mantissa
    BY <1>2 DEF ScanExponent
  <2> QED BY <2>1
<1> QED BY <1>1, <1>2

(* A number takes at least its first digit, and ends within the text.      *)
LEMMA NumberMovesOn ==
  ASSUME length \in Nat, NEW p \in 1..length, At(p) \in Digits
  PROVE  ScanNumericLiteral(p) \in (p + 1)..(length + 1)
<1>1. CASE At(p) = "0" /\ At(p + 1) \in RadixPrefixes
  <2>1. p + 2 \in 1..(length + 1)
    <3>1. At(p + 1) # "end"
      BY <1>1, CharacterKinds
    <3> QED BY <3>1 DEF At
  <2>2. RunEnd(p + 2, RadixChars) \in (p + 2)..(length + 1)
    BY <2>1, RunEndIs, CharacterKinds
  <2> QED BY <1>1, <2>2 DEF ScanNumericLiteral
<1>2. CASE ~(At(p) = "0" /\ At(p + 1) \in RadixPrefixes)
  <2> DEFINE mantissa == RunEnd(p, MantissaChars)
  <2>1. mantissa \in p..(length + 1) /\ At(mantissa) \notin MantissaChars
    BY RunEndIs, CharacterKinds
  <2>2. mantissa \in (p + 1)..(length + 1)
    BY <2>1, CharacterKinds
  <2> HIDE DEF mantissa
  <2>3. ScanExponent(mantissa) \in mantissa..(length + 1)
    BY <2>2, ExponentMovesOn
  <2>4. ScanNumericLiteral(p) = ScanExponent(mantissa)
    BY <1>2 DEF ScanNumericLiteral, mantissa
  <2> QED BY <2>2, <2>3, <2>4
<1> QED BY <1>1, <1>2
(***************************************************************************)
(* What stands in and around a token.                                      *)
(***************************************************************************)
LEMMA Texts ==
  ASSUME CutText
  PROVE  Len(query) \in Nat /\ length \in Nat
BY DEF CutText, TextInv

(* Between two tokens stands a separator, unless the text is cut before.   *)
LEMMA AtBetween ==
  ASSUME CutText, NEW p, Between(p)
  PROVE  p \in 1..Len(query) /\ At(p) \in Separators \union {"end"}
BY DEF Between, At, CutText

(* The symbols of a token, and what stands beside it.                      *)
LEMMA Token ==
  ASSUME CutText, NEW c \in pieces
  PROVE  /\ c.from \in Nat \ {0}
         /\ c.token \in Literals \union Others
         /\ Len(c.token) \in Nat
         /\ Last(c) = c.from + Len(c.token) - 1
         /\ Last(c) < Len(query)
         /\ Between(Last(c) + 1)
         /\ \A m \in 1..Len(c.token) : c.from + m - 1 <= length => At(c.from + m - 1) = c.token[m]
         /\ At(c.from - 1) \notin IdentChars
         /\ At(Last(c) + 1) \in Separators \union {"end"}
<1>1. /\ c.from \in Nat \ {0}
      /\ c.token \in Literals \union Others
      /\ \A m \in 1..Len(c.token) : query[c.from + m - 1] = c.token[m]
      /\ c.from = 1 \/ Between(c.from - 1)
      /\ Between(Last(c) + 1)
  BY DEF CutText, TextInv
<1>2. Len(c.token) \in Nat
  <2>1. c.token \in Seq(Symbols)
    BY <1>1, RedactionAssumption
  <2> QED BY <2>1
<1>3. Last(c) = c.from + Len(c.token) - 1
  BY DEF Last
<1>4. Last(c) + 1 \in 1..Len(query) /\ At(Last(c) + 1) \in Separators \union {"end"}
  BY <1>1, AtBetween
<1>5. Len(query) \in Nat /\ length \in Nat
  BY Texts
<1>6. \A m \in 1..Len(c.token) : c.from + m - 1 <= length => At(c.from + m - 1) = c.token[m]
  <2> SUFFICES ASSUME NEW m \in 1..Len(c.token), c.from + m - 1 <= length
               PROVE  At(c.from + m - 1) = c.token[m]
    OBVIOUS
  <2>1. c.from + m - 1 \in 1..length
    BY <1>1, <1>2, <1>5
  <2> QED BY <1>1, <2>1 DEF At
<1>7. At(c.from - 1) \notin IdentChars
  <2>1. CASE c.from = 1
    BY <2>1, CharacterKinds DEF At
  <2>2. CASE Between(c.from - 1)
    BY <2>2, AtBetween, CharacterKinds
  <2> QED BY <1>1, <2>1, <2>2
<1> QED
  BY <1>1, <1>2, <1>3, <1>4, <1>5, <1>6, <1>7

(* The numbers a token is reasoned about with.                             *)
LEMMA Extent ==
  ASSUME CutText, NEW c \in pieces
  PROVE  /\ c.from \in Nat \ {0}
         /\ Len(c.token) \in Nat
         /\ Last(c) = c.from + Len(c.token) - 1
BY Token

(* What the scan reads within a token: its symbol, or the end of the text. *)
LEMMA SymbolOf ==
  ASSUME CutText, NEW c \in pieces, NEW p \in Places(c)
  PROVE  /\ p \in Nat \ {0}
         /\ p - c.from + 1 \in 1..Len(c.token)
         /\ p <= length => At(p) = c.token[p - c.from + 1]
<1> DEFINE m == p - c.from + 1
<1>1. p \in Nat \ {0} /\ m \in 1..Len(c.token) /\ c.from + m - 1 = p
  BY Extent DEF Places
<1> HIDE DEF m
<1>2. c.from + m - 1 <= length => At(c.from + m - 1) = c.token[m]
  BY <1>1, Token
<1>3. p <= length => At(p) = c.token[m]
  BY <1>1, <1>2
<1> QED BY <1>1, <1>3 DEF m

(* Behind a token, and behind what ends it, a turn of the loop begins.     *)
LEMMA RestsBehind ==
  ASSUME CutText, NEW p \in 1..length,
         Between(p) \/ \E c \in pieces : p = Last(c)
  PROVE  AtRest(p + 1)
<1>1. CASE p = length
  <2>1. \A k \in (p + 1)..length : FALSE
    BY <1>1, Texts
  <2> QED BY <2>1 DEF AtRest, Leftover
<1>2. CASE \E c \in pieces : p = Last(c)
  BY <1>2, Token DEF AtRest
<1>3. CASE Between(p) /\ p # length
  <2>1. p + 1 \in 1..Len(query)
    BY <1>3, Texts DEF CutText
  <2>2. CASE Between(p + 1)
    BY <2>2 DEF AtRest
  <2>3. ASSUME NEW c \in pieces, p + 1 \in Places(c)
        PROVE  c.from = p + 1
    <3>1. p \notin Places(c)
      BY <1>3 DEF Between
    <3>2. c.from \in Nat \ {0} /\ Last(c) \in Int
      BY Token
    <3> QED BY <2>1, <2>3, <3>1, <3>2 DEF Places
  <2> QED BY <2>1, <2>2, <2>3 DEF CutText, TextInv, AtRest
<1> QED BY <1>1, <1>2, <1>3

(* A literal is a string, a dollar quote or a number.                      *)
LEMMA LiteralShape ==
  ASSUME CutText, NEW c \in pieces, IsLiteral(c)
  PROVE  \/ IsString(c.token) \/ IsDollarQuoted(c.token)
         \/ IsRadixNumber(c.token) \/ IsDecimal(c.token)
BY RedactionAssumption DEF IsLiteral

(* Any other token is a name or a placeholder.                             *)
LEMMA OtherShape ==
  ASSUME CutText, NEW c \in pieces, ~IsLiteral(c)
  PROVE  IsName(c.token) \/ IsPlaceholderToken(c.token)
BY RedactionAssumption DEF IsLiteral, CutText, TextInv

(* No literal is empty.                                                    *)
LEMMA LiteralBegins ==
  ASSUME CutText, NEW c \in pieces, IsLiteral(c)
  PROVE  c.from \in Places(c)
<1>1. Len(c.token) >= 1
  <2>1. Len(c.token) \in Nat
    BY Token
  <2>2. CASE IsString(c.token)
    BY <2>1, <2>2 DEF IsString, IsStringWith
  <2>3. CASE IsDollarQuoted(c.token)
    BY <2>1, <2>3 DEF IsDollarQuoted
  <2>4. CASE IsRadixNumber(c.token)
    BY <2>1, <2>4 DEF IsRadixNumber
  <2>5. CASE IsDecimal(c.token)
    BY <2>1, <2>5 DEF IsDecimal
  <2> QED BY <2>2, <2>3, <2>4, <2>5, LiteralShape
<1> QED BY <1>1, Token DEF Places
-----------------------------------------------------------------------------
(***************************************************************************)
(* What may be written.                                                    *)
(***************************************************************************)

(* Of which symbols of a literal Secret speaks.                            *)
LEMMA SecretIsIn ==
  ASSUME NEW token, NEW m \in Secret(token)
  PROVE  /\ m \in 1..Len(token)
         /\ token[1] = "$" => \E k \in 2..(m - 1) : token[k] = "$"
         /\ token[1] # "$" /\ token[1] \in Digits =>
               IsRadixNumber(token) \/ token[m] \notin Signs \union {"e"}
         /\ token[1] # "$" /\ token[1] \notin Digits => \E k \in 1..(m - 1) : token[k] = "'"
<1>1. CASE token[1] = "$"
  <2>1. Secret(token) = {k \in 1..Len(token) : \E j \in 2..(k - 1) : token[j] = "$"}
    BY <1>1, CharacterKinds DEF Secret
  <2> QED BY <1>1, <2>1
<1>2. CASE token[1] # "$" /\ token[1] \in Digits
  <2>1. Secret(token) = {k \in 1..Len(token) :
                           IsRadixNumber(token) \/ token[k] \notin Signs \union {"e"}}
    BY <1>2 DEF Secret
  <2> QED BY <1>2, <2>1
<1>3. CASE token[1] # "$" /\ token[1] \notin Digits
  <2>1. Secret(token) = {k \in 1..Len(token) : \E j \in 1..(k - 1) : token[j] = "'"}
    BY <1>3 DEF Secret
  <2> QED BY <1>3, <2>1
<1> QED BY <1>1, <1>2, <1>3

Copyable(p) ==
    \A piece \in pieces :
        IsLiteral(piece) /\ p \in Places(piece) =>
            length < Last(piece) /\ p - piece.from + 1 \notin Secret(piece.token)

Maskable(p) ==
    \E piece \in pieces :
        /\ IsLiteral(piece) /\ p \in Places(piece)
        /\ piece.from = position \/ length < Last(piece)

(* Copying what may be copied leaves the output as it has to be.           *)
LEMMA CopyKeepsOutput ==
  ASSUME RedactionInv, position <= length, NEW next \in (position + 1)..(length + 1), Copy(next),
         \A p \in position..(next - 1) : Copyable(p)
  PROVE  OutputInv'
<1>1. /\ kept' = kept \union position..(next - 1) /\ masks' = masks /\ position' = next
      /\ pieces' = pieces /\ length' = length
  BY DEF Copy
<1>2. /\ CutText /\ OutputInv /\ length \in Nat
      /\ position \in 1..(length + 1)
  BY Texts DEF RedactionInv, PositionInv, CutText
<1>3. /\ kept' \subseteq 1..(position' - 1) /\ masks' \subseteq 1..(position' - 1)
  BY <1>1, <1>2 DEF OutputInv
<1>4. ASSUME NEW c \in pieces, IsLiteral(c), Last(c) <= length, c.from < next
      PROVE  Places(c) \intersect masks = {c.from} /\ Places(c) \intersect kept' = {}
  <2>1. \A p \in position..(next - 1) : p \notin Places(c)
    <3>1. ~(length < Last(c))
      BY <1>2, <1>4, Token
    <3> QED BY <1>4, <3>1 DEF Copyable
  <2>2. c.from \in Places(c) /\ c.from \in Nat
    BY <1>2, <1>4, Token, LiteralBegins
  <2>3. c.from < position
    BY <1>2, <1>4, <2>1, <2>2
  <2>4. Places(c) \intersect masks = {c.from} /\ Places(c) \intersect kept = {}
    BY <1>2, <1>4, <2>3 DEF OutputInv
  <2> QED BY <1>1, <2>1, <2>4
<1>5. ASSUME NEW p \in 1..(next - 1), \A c \in pieces : IsLiteral(c) => p \notin Places(c)
      PROVE  p \in kept' /\ p \notin masks
  BY <1>1, <1>2, <1>5 DEF OutputInv
<1>6. ASSUME NEW c \in pieces, IsLiteral(c), NEW m \in Secret(c.token)
      PROVE  c.from + m - 1 \notin kept'
  <2>1. m \in 1..Len(c.token) /\ Len(c.token) \in Nat /\ c.from \in Nat \ {0}
        /\ Last(c) = c.from + Len(c.token) - 1
    BY <1>2, <1>6, SecretIsIn, Token
  <2>2. c.from + m - 1 \in Places(c) /\ (c.from + m - 1) - c.from + 1 = m
    BY <2>1 DEF Places
  <2>3. c.from + m - 1 \notin kept
    BY <1>2, <1>6 DEF OutputInv, CutTextLeaksNothing
  <2>4. c.from + m - 1 \notin position..(next - 1)
    <3> SUFFICES ASSUME c.from + m - 1 \in position..(next - 1)
                 PROVE  FALSE
      OBVIOUS
    <3>1. Copyable(c.from + m - 1)
      OBVIOUS
    <3> QED BY <1>6, <2>2, <3>1 DEF Copyable
  <2> QED BY <1>1, <2>3, <2>4
<1> QED
  BY <1>1, <1>3, <1>4, <1>5, <1>6 DEF OutputInv, CutTextLeaksNothing

(* So does a mask for what may be masked.                                  *)
LEMMA MaskKeepsOutput ==
  ASSUME RedactionInv, position <= length, NEW next \in (position + 1)..(length + 1),
         WriteMask(next), \A p \in position..(next - 1) : Maskable(p)
  PROVE  OutputInv'
<1>1. /\ kept' = kept /\ masks' = masks \union {position} /\ position' = next
      /\ pieces' = pieces /\ length' = length
  BY DEF WriteMask
<1>2. /\ CutText /\ OutputInv /\ length \in Nat
      /\ position \in 1..(length + 1)
  BY Texts DEF RedactionInv, PositionInv, CutText
<1>3. /\ kept' \subseteq 1..(position' - 1) /\ masks' \subseteq 1..(position' - 1)
  BY <1>1, <1>2 DEF OutputInv
<1>4. ASSUME NEW c \in pieces, IsLiteral(c), Last(c) <= length, c.from < next
      PROVE  Places(c) \intersect masks' = {c.from} /\ Places(c) \intersect kept = {}
  <2>1. /\ c.from \in Places(c) /\ c.from \in Nat /\ ~(length < Last(c))
    BY <1>2, <1>4, Token, LiteralBegins
  <2>2. ASSUME NEW p \in position..(next - 1), p \in Places(c)
        PROVE  c.from = position
    <3>1. PICK d \in pieces : p \in Places(d) /\ (d.from = position \/ length < Last(d))
      BY DEF Maskable
    <3>2. d = c
      BY <1>2, <2>2, <3>1 DEF CutText, TextInv
    <3> QED BY <2>1, <3>1, <3>2
  <2>3. CASE c.from < position
    <3>1. position \notin Places(c)
      BY <1>2, <2>1, <2>2, <2>3
    <3>2. Places(c) \intersect masks = {c.from} /\ Places(c) \intersect kept = {}
      BY <1>2, <1>4, <2>3 DEF OutputInv
    <3> QED BY <1>1, <3>1, <3>2
  <2>4. CASE ~(c.from < position)
    <3>1. c.from = position
      BY <1>2, <1>4, <2>1, <2>2, <2>4
    <3>2. Places(c) \intersect masks = {} /\ Places(c) \intersect kept = {}
      BY <1>2, <3>1 DEF OutputInv, Places
    <3> QED BY <1>1, <2>1, <3>1, <3>2
  <2> QED BY <2>3, <2>4
<1>5. ASSUME NEW p \in 1..(next - 1), \A c \in pieces : IsLiteral(c) => p \notin Places(c)
      PROVE  p \in kept /\ p \notin masks'
  <2>1. p < position
    BY <1>2, <1>5 DEF Maskable
  <2> QED BY <1>1, <1>2, <1>5, <2>1 DEF OutputInv
<1> QED
  BY <1>1, <1>2, <1>3, <1>4, <1>5 DEF OutputInv, CutTextLeaksNothing
-----------------------------------------------------------------------------
(***************************************************************************)
(* One turn of the loop, and of the inner one.                             *)
(***************************************************************************)
LEMMA SameText ==
  ASSUME RedactionInv, UNCHANGED <<query, pieces, length>>, position' \in 1..(length + 1),
         \/ mode' = "scan" /\ AtRest(position')
         \/ mode' = "quote" /\ (Leftover(position') \/ InString(position'))
         \/ mode' = "done" /\ position' > length
  PROVE  TextInv' /\ PositionInv'
<1>1. query' = query /\ pieces' = pieces /\ length' = length
  OBVIOUS
<1>2. TextInv'
  BY <1>1 DEF RedactionInv, TextInv, Between
<1>3. PositionInv'
  <2>1. length' \in 0..Len(query')
    BY <1>1 DEF RedactionInv, PositionInv
  <2>2. AtRest(position') => AtRest(position)'
    BY <1>1 DEF AtRest, Leftover, Harmless, Between
  <2>3. Leftover(position') => Leftover(position)'
    BY <1>1 DEF Leftover, Harmless
  <2>4. InString(position') => InString(position)'
    BY <1>1 DEF InString
  <2> QED BY <1>1, <2>1, <2>2, <2>3, <2>4 DEF PositionInv
<1> QED BY <1>2, <1>3

(* A turn that copies, and stops where a turn may begin, keeps the         *)
(* invariant.                                                              *)
LEMMA CopyKeeps ==
  ASSUME RedactionInv, Scanning("scan"), NEW next \in (position + 1)..(length + 1), Copy(next),
         UNCHANGED mode, \A p \in position..(next - 1) : Copyable(p), AtRest(next)
  PROVE  RedactionInv'
<1>1. OutputInv'
  BY CopyKeepsOutput DEF Scanning
<1>2. position' = next /\ mode' = "scan" /\ position' \in 1..(length + 1)
      /\ UNCHANGED <<query, pieces, length>>
  BY Texts DEF Scanning, Copy, RedactionInv, PositionInv
<1> QED BY <1>1, <1>2, SameText DEF RedactionInv

(* So does a turn that writes a mask.                                      *)
LEMMA MaskKeeps ==
  ASSUME RedactionInv, Scanning("scan"), NEW next \in (position + 1)..(length + 1),
         WriteMask(next), \A p \in position..(next - 1) : Maskable(p),
         \/ mode' = "scan" /\ AtRest(next)
         \/ mode' = "quote" /\ (Leftover(next) \/ InString(next))
  PROVE  RedactionInv'
<1>1. OutputInv'
  BY MaskKeepsOutput DEF Scanning
<1>2. position' = next /\ position' \in 1..(length + 1) /\ UNCHANGED <<query, pieces, length>>
  BY Texts DEF Scanning, WriteMask, RedactionInv, PositionInv
<1> QED BY <1>1, <1>2, SameText DEF RedactionInv

(* In the leftover of a cut literal whatever the scan takes it for does no *)
(* harm.                                                                   *)
LEMMA Leftovers ==
  ASSUME CutText, position \in 1..(length + 1), Leftover(position)
  PROVE  /\ \A p \in position..length : Copyable(p) /\ Maskable(p)
         /\ \A p \in position..(length + 1) : Leftover(p) /\ AtRest(p)
<1>1. length \in Nat
  BY Texts
<1>2. ASSUME NEW p \in position..length
      PROVE  Copyable(p) /\ Maskable(p)
  <2>1. PICK d \in pieces : /\ IsLiteral(d) /\ p \in Places(d) /\ length < Last(d)
                            /\ p - d.from + 1 \notin Secret(d.token)
    BY DEF Leftover, Harmless
  <2>2. \A c \in pieces : p \in Places(c) => c = d
    BY <2>1 DEF CutText, TextInv
  <2> QED BY <2>1, <2>2 DEF Copyable, Maskable
<1>3. ASSUME NEW p \in position..(length + 1)
      PROVE  Leftover(p) /\ AtRest(p)
  BY <1>1 DEF Leftover, AtRest
<1> QED BY <1>2, <1>3

(* Every way through the loop, whatever stands at the position.            *)
LEMMA TurnMovesOn ==
  ASSUME RedactionInv, Scan, mode = "scan", position <= length
  PROVE  \E next \in (position + 1)..(length + 1) :
            \/ Copy(next) /\ UNCHANGED mode
            \/ WriteMask(next) /\ mode' \in {"scan", "quote"}
<1>1. length \in Nat /\ position \in 1..length /\ position + 1 \in 1..(length + 1)
  BY Texts DEF RedactionInv, PositionInv, CutText
<1>2. CASE SkipPlaceholder
  <2>1. RunEnd(position + 1, Digits) \in (position + 1)..(length + 1)
    BY <1>1, RunEndIs, CharacterKinds
  <2> QED BY <1>2, <2>1 DEF SkipPlaceholder
<1>3. CASE MaskDollarQuote
  <2>1. SkipDollarQuote(position) \in (position + 1)..(length + 1)
    BY <1>1, <1>3, DelimiterMovesOn DEF MaskDollarQuote
  <2> QED BY <1>3, <2>1 DEF MaskDollarQuote
<1>4. CASE MaskPrefixedString
  <2>1. At(position + 1) # "end"
    BY <1>4, CharacterKinds DEF MaskPrefixedString, IsPrefixedString
  <2>2. position + 2 \in (position + 1)..(length + 1)
    BY <1>1, <2>1 DEF At
  <2> QED BY <1>4, <2>2 DEF MaskPrefixedString
<1>5. CASE MaskString
  BY <1>1, <1>5 DEF MaskString
<1>6. CASE MaskNumber
  <2>1. ScanNumericLiteral(position) \in (position + 1)..(length + 1)
    BY <1>1, <1>6, NumberMovesOn DEF MaskNumber, IsNumber
  <2> QED BY <1>6, <2>1 DEF MaskNumber
<1>7. CASE CopySymbol
  BY <1>1, <1>7 DEF CopySymbol
<1>8. ~Finish /\ ~SkipDoubledQuote /\ ~CloseString /\ ~SkipQuoted /\ ~TextEndsInString
  BY <1>1 DEF Finish, SkipDoubledQuote, CloseString, SkipQuoted, TextEndsInString, Scanning
<1> QED BY <1>2, <1>3, <1>4, <1>5, <1>6, <1>7, <1>8 DEF Scan

(* A turn in the leftover of a cut literal keeps the invariant.            *)
LEMMA LeftoverTurn ==
  ASSUME RedactionInv, Scan, mode = "scan", position <= length, Leftover(position)
  PROVE  RedactionInv'
<1>1. length \in Nat /\ position \in 1..length /\ CutText
  BY Texts DEF RedactionInv, PositionInv, CutText
<1>2. PICK next \in (position + 1)..(length + 1) :
            \/ Copy(next) /\ UNCHANGED mode
            \/ WriteMask(next) /\ mode' \in {"scan", "quote"}
  BY TurnMovesOn
<1>3. /\ \A p \in position..(next - 1) : Copyable(p) /\ Maskable(p)
      /\ Leftover(next) /\ AtRest(next)
  BY <1>1, Leftovers
<1> QED BY <1>2, <1>3, CopyKeeps, MaskKeeps DEF Scanning

(* What stands at the position decides the way through the loop.           *)
LEMMA TurnIs ==
  ASSUME length \in Nat, position \in Nat, Scan, Scanning("scan")
  PROVE  /\ IsPlaceholder(position) => SkipPlaceholder
         /\ IsDollarQuote(position) => MaskDollarQuote
         /\ IsPrefixedString(position) => MaskPrefixedString
         /\ IsPlainString(position) => MaskString
         /\ IsNumber(position) => MaskNumber
         /\ ~(\/ IsPlaceholder(position) \/ IsDollarQuote(position) \/ IsPrefixedString(position)
              \/ IsPlainString(position) \/ IsNumber(position)) => CopySymbol
<1> DEFINE c == At(position)
<1>1. ~Finish /\ ~SkipDoubledQuote /\ ~CloseString /\ ~SkipQuoted /\ ~TextEndsInString
  BY DEF Finish, SkipDoubledQuote, CloseString, SkipQuoted, TextEndsInString, Scanning
<1>2. /\ IsPlaceholder(position) => c = "$"
      /\ IsDollarQuote(position) => c = "$" /\ ~IsPlaceholder(position)
      /\ IsPrefixedString(position) => c \in StringPrefixes
      /\ IsPlainString(position) => c = "'"
      /\ IsNumber(position) => c \in Digits
  BY DEF IsPlaceholder, IsDollarQuote, IsPrefixedString, IsPlainString, IsNumber
<1>3. /\ c \in StringPrefixes => c # "$" /\ c # "'" /\ c \notin Digits
      /\ c \in Digits => c # "$" /\ c # "'"
      /\ "$" # "'"
  BY CharacterKinds
<1>4. /\ SkipPlaceholder => IsPlaceholder(position)
      /\ MaskDollarQuote => IsDollarQuote(position)
      /\ MaskPrefixedString => IsPrefixedString(position)
      /\ MaskString => IsPlainString(position)
      /\ MaskNumber => IsNumber(position)
      /\ CopySymbol =>
           ~(\/ IsPlaceholder(position) \/ IsDollarQuote(position) \/ IsPrefixedString(position)
             \/ IsPlainString(position) \/ IsNumber(position))
  BY DEF SkipPlaceholder, MaskDollarQuote, MaskPrefixedString, MaskString, MaskNumber, CopySymbol
<1>5. \/ SkipPlaceholder \/ MaskDollarQuote \/ MaskPrefixedString \/ MaskString \/ MaskNumber
      \/ CopySymbol
  BY <1>1 DEF Scan
<1> HIDE DEF c
<1> QED BY <1>2, <1>3, <1>4, <1>5

(* A symbol that opens nothing is copied.                                  *)
LEMMA QuietTurn ==
  ASSUME RedactionInv, Scan, Scanning("scan"),
         ~IsPlaceholder(position), ~IsDollarQuote(position), ~IsPrefixedString(position),
         ~IsPlainString(position), ~IsNumber(position),
         Copyable(position), AtRest(position + 1)
  PROVE  RedactionInv'
<1>1. length \in Nat /\ position \in 1..length
  BY Texts DEF RedactionInv, PositionInv, CutText, Scanning
<1>2. CopySymbol
  BY <1>1, TurnIs
<1>3. position + 1 \in (position + 1)..(length + 1)
      /\ \A p \in position..((position + 1) - 1) : p = position
  BY <1>1
<1>4. Copy(position + 1) /\ UNCHANGED mode
  BY <1>2 DEF CopySymbol
<1>5. \A p \in position..((position + 1) - 1) : Copyable(p)
  BY <1>3
<1> QED BY <1>3, <1>4, <1>5, CopyKeeps

(* A turn at a separator: it is copied.                                    *)
LEMMA TurnBetween ==
  ASSUME RedactionInv, Scan, Scanning("scan"), Between(position)
  PROVE  RedactionInv'
<1>1. CutText /\ length \in Nat /\ position \in 1..length
  BY Texts DEF RedactionInv, PositionInv, CutText, Scanning
<1>2. At(position) \in Separators \union {"end"}
  BY <1>1, AtBetween
<1>3. /\ At(position) # "$" /\ At(position) # "'" /\ At(position) \notin Digits
      /\ At(position) \notin StringPrefixes
  BY <1>2, CharacterKinds
<1>4. Copyable(position)
  BY DEF Copyable, Between
<1>5. AtRest(position + 1)
  BY <1>1, RestsBehind
<1> QED
  BY <1>3, <1>4, <1>5, QuietTurn
     DEF IsPlaceholder, IsDollarQuote, IsPrefixedString, IsPlainString, IsNumber

(* The positions of a token that is no literal may be copied.              *)
LEMMA OtherIsCopyable ==
  ASSUME CutText, NEW c \in pieces, ~IsLiteral(c), NEW p \in Places(c)
  PROVE  Copyable(p)
BY DEF CutText, TextInv, Copyable

(* A turn in a name: neither a prefix nor a digit in it is taken for a     *)
(* literal.                                                                *)
LEMMA TurnInName ==
  ASSUME RedactionInv, Scan, Scanning("scan"),
         NEW c \in pieces, ~IsLiteral(c), IsName(c.token), position \in Places(c)
  PROVE  RedactionInv'
<1>1. CutText /\ length \in Nat /\ position \in 1..length
  BY Texts DEF RedactionInv, PositionInv, CutText, Scanning
<1> DEFINE m == position - c.from + 1
           t == c.token
<1>2. /\ c.from \in Nat \ {0} /\ Len(t) \in Nat
      /\ Last(c) = c.from + Len(t) - 1
      /\ Between(Last(c) + 1)
      /\ \A k \in 1..Len(t) : c.from + k - 1 <= length => At(c.from + k - 1) = t[k]
      /\ At(c.from - 1) \notin IdentChars
      /\ At(Last(c) + 1) \in Separators \union {"end"}
  BY <1>1, Token
<1>3. m \in 1..Len(t) /\ position = c.from + m - 1
  <2>1. m \in 1..Len(t)
    BY <1>1, SymbolOf
  <2> QED BY <1>1, <2>1, Extent
<1>4. At(position) = t[m]
  BY <1>1, SymbolOf
<1>5. /\ t[m] \in IdentChars \union {"."}
      /\ m = 1 => t[m] \notin Digits
      /\ t[m] \in Digits => t[m - 1] \in IdentChars
  BY <1>3, CharacterKinds DEF IsName
<1> HIDE DEF m
<1>6. At(position) # "$" /\ At(position) # "'"
  BY <1>4, <1>5, CharacterKinds
<1>7. At(position) \in Digits => InIdentifier(position)
  <2> SUFFICES ASSUME At(position) \in Digits
               PROVE  At(position - 1) \in IdentChars
    BY DEF InIdentifier
  <2>1. m # 1 /\ t[m - 1] \in IdentChars
    BY <1>4, <1>5
  <2>2. position # c.from
    BY <1>1, <1>3, <2>1, Extent
  <2>3. position - 1 \in Places(c) /\ (position - 1) - c.from + 1 = m - 1 /\ position - 1 <= length
    BY <1>1, <1>3, <2>2, Extent DEF Places
  <2>4. At(position - 1) = t[(position - 1) - c.from + 1]
    BY <1>1, <2>3, SymbolOf
  <2> QED BY <2>1, <2>3, <2>4
<1>8. At(position + 1) # "'"
  <2>1. CASE m = Len(t)
    <3>1. position + 1 = Last(c) + 1
      BY <1>2, <1>3, <2>1
    <3> QED BY <1>2, <3>1, CharacterKinds
  <2>2. CASE m # Len(t) /\ position < length
    <3>1. m + 1 \in 2..Len(t) /\ c.from + (m + 1) - 1 = position + 1 /\ position + 1 <= length
      BY <1>1, <1>2, <1>3, <2>2
    <3>2. m + 1 \in 1..Len(t)
      BY <3>1, <1>2, <1>3
    <3>3. At(position + 1) = t[m + 1]
      BY <1>2, <3>1, <3>2
    <3>4. t[m + 1] \in IdentChars \union {"."}
      BY <3>1 DEF IsName
    <3> QED BY <3>3, <3>4, CharacterKinds
  <2>3. CASE position >= length
    BY <1>1, <2>3 DEF At
  <2> QED BY <1>1, <2>1, <2>2, <2>3
<1>9. AtRest(position + 1)
  <2>1. CASE position = Last(c)
    BY <1>1, <2>1, RestsBehind
  <2>2. CASE position # Last(c)
    <3>1. /\ position \in Nat /\ Last(c) \in Int /\ c.from \in Nat
          /\ c.from <= position /\ position <= Last(c)
      BY <1>1, <1>2, <1>3
    <3>2. position + 1 \in Places(c)
      BY <2>2, <3>1 DEF Places
    <3> QED BY <3>2 DEF AtRest
  <2> QED BY <2>1, <2>2
<1>10. Copyable(position)
  BY <1>1, OtherIsCopyable
<1> QED
  BY <1>6, <1>7, <1>8, <1>9, <1>10, QuietTurn
     DEF IsPlaceholder, IsDollarQuote, IsPrefixedString, IsPlainString, IsNumber

(* A turn at a placeholder: it is copied to its end.                       *)
LEMMA TurnAtPlaceholder ==
  ASSUME RedactionInv, Scan, Scanning("scan"),
         NEW c \in pieces, ~IsLiteral(c), IsPlaceholderToken(c.token), position = c.from
  PROVE  RedactionInv'
<1>1. CutText /\ length \in Nat /\ position \in 1..length
  BY Texts DEF RedactionInv, PositionInv, CutText, Scanning
<1> DEFINE t == c.token
<1>2. /\ c.from \in Nat \ {0} /\ Len(t) \in Nat
      /\ Last(c) = c.from + Len(t) - 1
      /\ \A k \in 1..Len(t) : c.from + k - 1 <= length => At(c.from + k - 1) = t[k]
      /\ At(Last(c) + 1) \in Separators \union {"end"}
  BY <1>1, Token
<1>3. Len(t) > 1 /\ t[1] = "$" /\ \A m \in 2..Len(t) : t[m] \in Digits
  BY DEF IsPlaceholderToken
<1>4. At(position) = "$"
  <2>1. 1 \in 1..Len(t) /\ c.from + 1 - 1 = position
    BY <1>1, <1>2, <1>3
  <2> QED BY <1>1, <1>2, <1>3, <2>1
<1>5. CASE position = length
  <2>1. ~IsPlaceholder(position)
    BY <1>1, <1>5, CharacterKinds DEF IsPlaceholder, At
  <2>2. ~IsDollarQuote(position)
    BY <1>1, <1>5, DelimiterMovesOn
  <2>3. AtRest(position + 1)
    BY <1>1, <1>5 DEF AtRest, Leftover
  <2>4. Copyable(position)
    BY <1>1, <1>2, <1>3, OtherIsCopyable DEF Places
  <2>5. ~IsPrefixedString(position) /\ ~IsPlainString(position) /\ ~IsNumber(position)
    BY <1>4, CharacterKinds DEF IsPrefixedString, IsPlainString, IsNumber
  <2> QED BY <2>1, <2>2, <2>3, <2>4, <2>5, QuietTurn
<1>6. CASE position # length
  <2> DEFINE e == IF Last(c) < length THEN Last(c) + 1 ELSE length + 1
  <2>1. /\ e \in (position + 1)..(length + 1)
        /\ \A p \in position..(e - 1) : p \in Places(c)
        /\ \A p \in (position + 1)..(e - 1) : At(p) \in Digits
        /\ e = length + 1 \/ e = Last(c) + 1
    <3>1. e \in (position + 1)..(length + 1) /\ e - 1 <= Last(c) /\ e - 1 <= length
          /\ (e = length + 1 \/ e = Last(c) + 1)
      BY <1>1, <1>2, <1>3
    <3> HIDE DEF e
    <3>2. \A p \in position..(e - 1) : p \in Places(c)
      BY <1>1, <1>2, <3>1 DEF Places
    <3>3. ASSUME NEW p \in (position + 1)..(e - 1)
          PROVE  At(p) \in Digits
      <4>1. p \in Nat /\ p >= position + 1 /\ p <= Last(c) /\ p <= length
        BY <1>1, <1>2, <3>1
      <4>2. PICK m : m = p - c.from + 1
        OBVIOUS
      <4>3. c.from \in Nat /\ Len(t) \in Nat /\ c.from + 1 <= p /\ p <= c.from + Len(t) - 1
        BY <1>2, <4>1
      <4>4. m \in 2..Len(t) /\ c.from + m - 1 = p
        <5> HIDE DEF t
        <5>1. m \in Int /\ 2 <= m /\ m <= Len(t)
          BY <4>1, <4>2, <4>3
        <5>2. c.from + m - 1 = p
          BY <4>1, <4>2, <4>3
        <5> QED BY <4>3, <5>1, <5>2
      <4>5. m \in 1..Len(t)
        BY <4>4
      <4>6. At(p) = t[m]
        BY <1>2, <4>1, <4>4, <4>5
      <4> QED BY <1>3, <4>4, <4>6
    <3> QED BY <3>1, <3>2, <3>3
  <2>2. At(e) \notin Digits
    <3>1. CASE e = length + 1
      BY <1>1, <3>1, CharacterKinds DEF At
    <3>2. CASE e = Last(c) + 1
      BY <1>2, <3>2, CharacterKinds
    <3> QED BY <2>1, <3>1, <3>2
  <2>3. AtRest(e)
    <3>1. CASE e = length + 1
      BY <1>1, <3>1 DEF AtRest, Leftover
    <3>2. CASE e = Last(c) + 1 /\ e # length + 1
      <4>1. Last(c) \in 1..length
        BY <1>1, <1>2, <1>3, <2>1, <3>2
      <4> QED BY <1>1, <3>2, <4>1, RestsBehind
    <3> QED BY <2>1, <3>1, <3>2
  <2> HIDE DEF e
  <2>4. RunEnd(position + 1, Digits) = e
    <3>1. position + 1 \in 1..(length + 1) /\ "end" \notin Digits
      BY <1>1, CharacterKinds
    <3> QED BY <1>1, <2>1, <2>2, <3>1, RunEndsAt
  <2>5. IsPlaceholder(position)
    <3>1. 2 \in 1..Len(t) /\ c.from + 2 - 1 = position + 1 /\ position + 1 <= length
      BY <1>1, <1>2, <1>3, <1>6
    <3>2. At(position + 1) = t[2] /\ t[2] \in Digits
      BY <1>2, <1>3, <3>1
    <3> QED BY <1>4, <3>2 DEF IsPlaceholder
  <2>6. Copy(e) /\ UNCHANGED mode
    BY <1>1, <2>4, <2>5, TurnIs DEF SkipPlaceholder
  <2>7. \A p \in position..(e - 1) : Copyable(p)
    BY <1>1, <2>1, OtherIsCopyable
  <2> QED BY <2>1, <2>3, <2>6, <2>7, CopyKeeps
<1> QED BY <1>5, <1>6
(***************************************************************************)
(* At a literal.                                                           *)
(***************************************************************************)
LEMMA CutIsHarmless ==
  ASSUME CutText, NEW c \in pieces, IsLiteral(c), length < Last(c), NEW p \in Places(c),
         p - c.from + 1 \notin Secret(c.token)
  PROVE  Harmless(p) /\ Copyable(p)
BY DEF CutText, TextInv, Harmless, Copyable

(* Scanning stops at the end of what there is of a token.                  *)
LEMMA EndOfToken ==
  ASSUME CutText, NEW c \in pieces, c.from <= length,
         Len(c.token) >= 1
  PROVE  \E e \in (c.from + 1)..(length + 1) :
            /\ e = IF Last(c) < length THEN Last(c) + 1 ELSE length + 1
            /\ \A p \in c.from..(e - 1) : p \in Places(c) /\ p <= length
            /\ At(e) \in Separators \union {"end"}
            /\ AtRest(e)
            /\ Last(c) <= length => e = Last(c) + 1
<1> DEFINE e == IF Last(c) < length THEN Last(c) + 1 ELSE length + 1
<1>1. /\ length \in Nat /\ c.from \in Nat \ {0} /\ Last(c) \in Nat /\ c.from <= Last(c)
      /\ At(Last(c) + 1) \in Separators \union {"end"}
  BY Texts, Token, Extent
<1>2. /\ e \in (c.from + 1)..(length + 1)
      /\ e - 1 <= Last(c) /\ e - 1 <= length
      /\ \/ e = length + 1
         \/ e = Last(c) + 1 /\ Last(c) \in 1..length
      /\ Last(c) <= length => e = Last(c) + 1
  BY <1>1
<1>3. e = IF Last(c) < length THEN Last(c) + 1 ELSE length + 1
  OBVIOUS
<1> HIDE DEF e
<1>4. \A p \in c.from..(e - 1) : p \in Places(c) /\ p <= length
  BY <1>1, <1>2 DEF Places
<1>5. At(e) \in Separators \union {"end"}
  BY <1>1, <1>2 DEF At
<1>6. AtRest(e)
  <2>1. CASE e = length + 1
    BY <1>1, <2>1 DEF AtRest, Leftover
  <2>2. CASE e = Last(c) + 1 /\ Last(c) \in 1..length
    BY <2>2, RestsBehind
  <2> QED BY <1>2, <2>1, <2>2
<1> QED BY <1>2, <1>3, <1>4, <1>5, <1>6

(* A turn at a string: its mask is written and the inner loop begins       *)
(* behind the quote that opens it.                                         *)
LEMMA TurnAtString ==
  ASSUME RedactionInv, Scan, Scanning("scan"),
         NEW c \in pieces, IsLiteral(c), IsString(c.token), position = c.from
  PROVE  RedactionInv'
<1>1. CutText /\ length \in Nat /\ position \in 1..length
  BY Texts DEF RedactionInv, PositionInv, CutText, Scanning
<1> DEFINE t == c.token
<1>2. PICK opening \in {1, 2}, firsts \in SUBSET (1..Len(t)) : IsStringWith(t, opening, firsts)
  BY DEF IsString
<1>3. /\ c.from \in Nat \ {0} /\ Len(t) \in Nat /\ Last(c) = c.from + Len(t) - 1
      /\ opening < Len(t)
  BY <1>1, <1>2, Extent DEF IsStringWith
<1>4. InString(c.from + opening)
  <2>1. c.from + opening \in (c.from + opening)..Last(c)
    BY <1>3
  <2>2. (c.from + opening) - c.from \notin firsts
    BY <1>2, <1>3 DEF IsStringWith
  <2> QED BY <1>2, <2>1, <2>2 DEF InString
<1>5. \A p \in position..(c.from + opening - 1) : p \in Places(c)
  BY <1>1, <1>3 DEF Places
<1>6. At(position) = t[1]
  <2>1. position \in Places(c) /\ position - c.from + 1 = 1
    BY <1>1, <1>3 DEF Places
  <2> QED BY <1>1, <2>1, SymbolOf
<1>7. \A p \in position..(c.from + opening - 1) : Maskable(p)
  BY <1>5 DEF Maskable
<1>8. CASE opening = 1
  <2>1. t[1] = "'"
    BY <1>2, <1>8 DEF IsStringWith
  <2>2. WriteMask(position + 1) /\ mode' = "quote"
    BY <1>1, <1>6, <2>1, TurnIs DEF IsPlainString, MaskString
  <2>3. position + 1 \in (position + 1)..(length + 1) /\ c.from + opening = position + 1
    BY <1>1, <1>8
  <2>4. InString(position + 1)
    BY <1>4, <2>3, Zenon
  <2>5. \A p \in position..((position + 1) - 1) : Maskable(p)
    BY <1>1, <1>7, <1>8
  <2> QED BY <2>2, <2>3, <2>4, <2>5, MaskKeeps
<1>9. CASE opening = 2
  <2>1. t[1] \in StringPrefixes /\ t[2] = "'"
    BY <1>2, <1>9 DEF IsStringWith
  <2>2. t[1] # "$" /\ t[1] # "'" /\ t[1] \notin Digits
    BY <2>1, CharacterKinds
  <2>3. CASE position = length
    <3>1. length < Last(c)
      BY <1>1, <1>3, <1>9, <2>3
    <3>2. 1 \notin Secret(t)
      <4> SUFFICES ASSUME 1 \in Secret(t)
                   PROVE  FALSE
        OBVIOUS
      <4>1. \E k \in 1..(1 - 1) : t[k] = "'"
        BY <2>2, SecretIsIn
      <4> QED BY <4>1
    <3>3. Copyable(position)
      <4>1. position \in Places(c) /\ position - c.from + 1 = 1
        BY <1>1, <1>3 DEF Places
      <4> QED BY <1>1, <3>1, <3>2, <4>1, CutIsHarmless
    <3>4. AtRest(position + 1)
      BY <1>1, <2>3 DEF AtRest, Leftover
    <3>5. At(position + 1) # "'"
      BY <1>1, <2>3 DEF At
    <3> QED
      BY <1>6, <2>2, <3>3, <3>4, <3>5, QuietTurn
         DEF IsPlaceholder, IsDollarQuote, IsPrefixedString, IsPlainString, IsNumber
  <2>4. CASE position # length
    <3>1. position + 1 \in Places(c) /\ position + 1 <= length /\ (position + 1) - c.from + 1 = 2
      BY <1>1, <1>3, <1>9, <2>4 DEF Places
    <3>2. At(position + 1) = "'"
      BY <1>1, <2>1, <3>1, SymbolOf
    <3>3. ~InIdentifier(position)
      BY <1>1, Token DEF InIdentifier
    <3>4. WriteMask(position + 2) /\ mode' = "quote"
      BY <1>1, <1>6, <2>1, <3>2, <3>3, TurnIs DEF IsPrefixedString, MaskPrefixedString
    <3>5. position + 2 \in (position + 1)..(length + 1) /\ c.from + opening = position + 2
      BY <1>1, <1>9, <3>1
    <3>6. InString(position + 2)
      BY <1>4, <3>5, Zenon
    <3>7. \A p \in position..((position + 2) - 1) : Maskable(p)
      BY <1>1, <1>7, <1>9
    <3> QED BY <3>4, <3>5, <3>6, <3>7, MaskKeeps
  <2> QED BY <2>3, <2>4
<1> QED BY <1>8, <1>9

(* A literal whose mask is written, with what there is of it skipped.      *)
LEMMA LiteralSkipped ==
  ASSUME RedactionInv, Scanning("scan"), NEW c \in pieces, IsLiteral(c), position = c.from,
         NEW next \in (position + 1)..(length + 1), WriteMask(next), UNCHANGED mode,
         next - 1 <= Last(c), AtRest(next)
  PROVE  RedactionInv'
<1>1. CutText /\ length \in Nat /\ position \in 1..length
  BY Texts DEF RedactionInv, PositionInv, CutText, Scanning
<1>2. \A p \in position..(next - 1) : p \in Places(c)
  BY <1>1, Extent DEF Places
<1>3. \A p \in position..(next - 1) : Maskable(p)
  BY <1>2 DEF Maskable
<1>4. mode' = "scan"
  BY DEF Scanning
<1> QED BY <1>3, <1>4, MaskKeeps

(* The closing delimiter is found where the author put it, or not at all.  *)
LEMMA DelimiterFound ==
  ASSUME CutText, NEW c \in pieces, NEW d \in Nat
  PROVE  d \in 2..Len(c.token) /\ IsDollarQuotedWith(c.token, d) /\ c.from + d - 1 <= length =>
           /\ IsDollarQuote(c.from)
           /\ SkipDollarQuote(c.from) = IF Last(c) <= length THEN Last(c) + 1 ELSE length + 1
<1> DEFINE t == c.token
           size == Len(c.token)
           first == c.from
           last == Last(c)
           e == first + d - 1
<1>0. SUFFICES ASSUME d \in 2..size, IsDollarQuotedWith(t, d), first + d - 1 <= length
               PROVE  /\ IsDollarQuote(first)
                      /\ SkipDollarQuote(first) = IF last <= length THEN last + 1 ELSE length + 1
  OBVIOUS
<1>1. /\ length \in Nat /\ first \in Nat \ {0} /\ size \in Nat /\ last = first + size - 1
      /\ d >= 2 /\ d <= size
  BY <1>0, Texts, Extent
<1>p. ASSUME NEW p \in first..last
      PROVE  p <= length => At(p) = t[p - first + 1]
  <2>1. p \in Places(c)
    BY DEF Places
  <2> QED BY <2>1, SymbolOf
<1>q. \A m \in 1..size : query[first + m - 1] = t[m]
  BY DEF CutText, TextInv
<1>2. /\ 2 * d <= size
      /\ t[1] = "$" /\ t[d] = "$"
      /\ \A k \in 2..(d - 1) : t[k] \in IdentChars
      /\ t[2] \notin Digits
      /\ \A m \in (d + 1)..(size - d + 1) : Repeats(t, d, m) <=> m = size - d + 1
  BY <1>0 DEF IsDollarQuotedWith
<1> HIDE DEF t, size, first, last
<1>3. e \in (first + 1)..length /\ e - first = d - 1 /\ first \in 1..length
      /\ first - first + 1 = 1 /\ e - first + 1 = d /\ e <= last
  BY <1>0, <1>1
<1>4. \A p \in first..e : At(p) = t[p - first + 1]
  BY <1>p, <1>1, <1>3
<1>5. At(first) = "$" /\ At(e) = "$" /\ \A p \in (first + 1)..(e - 1) : At(p) \in IdentChars
  <2>1. At(first) = t[first - first + 1] /\ At(e) = t[e - first + 1]
    BY <1>1, <1>3, <1>4
  <2>3. ASSUME NEW p \in (first + 1)..(e - 1)
        PROVE  At(p) \in IdentChars
    <3>1. p \in first..e /\ p - first + 1 \in 2..(d - 1)
      BY <1>1, <1>3
    <3> QED BY <1>2, <1>4, <3>1
  <2> QED BY <1>2, <1>3, <2>1, <2>3
<1> HIDE DEF e
<1>6. DelimiterEnd(first) = e
  <2>1. first + 1 \in 1..(length + 1) /\ e \in (first + 1)..(length + 1)
        /\ "end" \notin IdentChars /\ At(e) \notin IdentChars
    BY <1>1, <1>3, <1>5, CharacterKinds
  <2>2. RunEnd(first + 1, IdentChars) = e
    BY <1>1, <1>5, <2>1, RunEndsAt
  <2> QED BY <2>2 DEF DelimiterEnd
<1>7. IsDollarQuote(first)
  <2>1. At(first + 1) = t[2]
    <3>1. first + 1 \in first..e /\ (first + 1) - first + 1 = 2
      BY <1>1, <1>3
    <3>2. At(first + 1) = t[(first + 1) - first + 1]
      BY <1>4, <3>1
    <3> QED BY <3>1, <3>2
  <2> QED BY <1>2, <1>5, <1>6, <2>1 DEF IsDollarQuote, IsPlaceholder, OpensDollarQuote
<1> DEFINE Closing(k) == \A m \in 0..(d - 1) : query[k + m] = query[first + m]
<1>9. Occurrences(first) = {k \in (e + 1)..(length - (d - 1)) : Closing(k)}
  BY <1>3, <1>6 DEF Occurrences
<1>10. ASSUME NEW k \in (e + 1)..(last - d + 1)
       PROVE  Closing(k) <=> k = last - d + 1
  <2> DEFINE n == k - first + 1
  <2>1. n \in (d + 1)..(size - d + 1) /\ k = first + n - 1
        /\ (n = size - d + 1 <=> k = last - d + 1)
    BY <1>1, <1>3
  <2> HIDE DEF n
  <2>2. ASSUME NEW m \in 0..(d - 1)
        PROVE  query[k + m] = t[n + (m + 1) - 1] /\ query[first + m] = t[m + 1]
    <3>1. n + m \in 1..size /\ m + 1 \in 1..size /\ n + (m + 1) - 1 = n + m
          /\ first + (n + m) - 1 = k + m /\ first + (m + 1) - 1 = first + m
      BY <1>1, <1>2, <2>1
    <3>2. query[first + (n + m) - 1] = t[n + m] /\ query[first + (m + 1) - 1] = t[m + 1]
      BY <1>q, <3>1
    <3> QED BY <3>1, <3>2
  <2>3. Closing(k) <=> \A m \in 0..(d - 1) : t[n + (m + 1) - 1] = t[m + 1]
    BY <2>2
  <2>4. (\A m \in 0..(d - 1) : t[n + (m + 1) - 1] = t[m + 1]) <=> Repeats(t, d, n)
    <3>1. ASSUME \A m \in 0..(d - 1) : t[n + (m + 1) - 1] = t[m + 1], NEW j \in 1..d
          PROVE  t[n + j - 1] = t[j]
      <4>1. j - 1 \in 0..(d - 1) /\ (j - 1) + 1 = j
        OBVIOUS
      <4> QED BY <3>1, <4>1
    <3>2. ASSUME Repeats(t, d, n), NEW m \in 0..(d - 1)
          PROVE  t[n + (m + 1) - 1] = t[m + 1]
      <4>1. m + 1 \in 1..d
        OBVIOUS
      <4> QED BY <3>2, <4>1 DEF Repeats
    <3> QED BY <3>1, <3>2 DEF Repeats
  <2> HIDE DEF Closing
  <2> QED BY <1>2, <2>1, <2>3, <2>4
<1> HIDE DEF Closing
<1>11. CASE last <= length
  <2> DEFINE final == last - d + 1
  <2>1. final \in (e + 1)..(last - d + 1) /\ final \in (e + 1)..(length - (d - 1)) /\ final \in Int
    BY <1>1, <1>2, <1>3, <1>11
  <2>2. final \in Occurrences(first)
    BY <1>9, <1>10, <2>1
  <2>3. \A k \in Occurrences(first) : k \in Int /\ (k <= final => k = final)
    BY <1>1, <1>3, <1>9, <1>10
  <2>4. /\ Min(Occurrences(first)) \in Occurrences(first)
        /\ Min(Occurrences(first)) <= final
        /\ SkipDollarQuote(first) = Min(Occurrences(first)) + (e - first) + 1
    BY <1>1, <1>3, <1>6, <1>7, <2>2, DelimiterMovesOn
  <2>5. Min(Occurrences(first)) = final
    BY <2>3, <2>4
  <2>6. SkipDollarQuote(first) = final + (d - 1) + 1
    BY <1>3, <2>4, <2>5
  <2>7. SkipDollarQuote(first) = last + 1
    BY <1>1, <2>6
  <2> QED BY <1>7, <1>11, <2>7
<1>12. CASE ~(last <= length)
  <2>1. Occurrences(first) = {}
    <3> SUFFICES ASSUME NEW k \in (e + 1)..(length - (d - 1)), Closing(k)
                 PROVE  FALSE
      BY <1>9
    <3>1. k \in (e + 1)..(last - d + 1) /\ k # last - d + 1
      BY <1>1, <1>3, <1>12
    <3> QED BY <1>10, <3>1
  <2>2. SkipDollarQuote(first) = length + 1
    BY <1>1, <1>3, <1>7, <2>1, DelimiterMovesOn
  <2> QED BY <1>7, <1>12, <2>2
<1> QED BY <1>11, <1>12

(* A turn at a dollar quote: it is masked, or its delimiter itself is cut  *)
(* and only symbols that are not secret are copied.                        *)
LEMMA TurnAtDollarQuote ==
  ASSUME RedactionInv, Scan, Scanning("scan"),
         NEW c \in pieces, IsLiteral(c), IsDollarQuoted(c.token), position = c.from
  PROVE  RedactionInv'
<1>1. CutText /\ length \in Nat /\ position \in 1..length
  BY Texts DEF RedactionInv, PositionInv, CutText, Scanning
<1> DEFINE t == c.token
<1>2. PICK d \in 2..Len(t) : IsDollarQuotedWith(t, d)
  BY DEF IsDollarQuoted
<1>3. /\ Len(t) \in Nat /\ Last(c) = c.from + Len(t) - 1
      /\ 2 * d <= Len(t)
  BY <1>1, <1>2, Extent DEF IsDollarQuotedWith
<1>4. /\ t[1] = "$" /\ t[2] \notin Digits
      /\ \A k \in 2..(d - 1) : t[k] \in IdentChars
  BY <1>2 DEF IsDollarQuotedWith
<1>5. CASE c.from + d - 1 <= length
  <2> DEFINE next == SkipDollarQuote(position)
  <2>1. /\ IsDollarQuote(position)
        /\ next = IF Last(c) <= length THEN Last(c) + 1 ELSE length + 1
    BY <1>1, <1>2, <1>3, <1>5, DelimiterFound
  <2>2. WriteMask(next) /\ UNCHANGED mode
    BY <1>1, <2>1, TurnIs DEF MaskDollarQuote
  <2> HIDE DEF next
  <2>3. next \in (position + 1)..(length + 1) /\ next - 1 <= Last(c)
    <3>1. length \in Nat /\ position \in 1..length /\ Last(c) \in Int /\ position < Last(c)
      BY <1>1, <1>3
    <3>2. CASE Last(c) <= length
      BY <2>1, <3>1, <3>2
    <3>3. CASE ~(Last(c) <= length)
      BY <2>1, <3>1, <3>3
    <3> QED BY <3>2, <3>3
  <2>4. AtRest(next)
    <3>1. CASE Last(c) <= length
      <4>1. Last(c) \in 1..length
        BY <1>1, <1>3, <3>1
      <4> QED BY <1>1, <2>1, <3>1, <4>1, RestsBehind
    <3>2. CASE ~(Last(c) <= length)
      BY <1>1, <2>1, <3>2 DEF AtRest, Leftover
    <3> QED BY <3>1, <3>2
  <2> QED BY <2>2, <2>3, <2>4, LiteralSkipped
<1>6. CASE ~(c.from + d - 1 <= length)
  <2>1. length < Last(c)
    BY <1>1, <1>3, <1>6
  <2>2. ASSUME NEW p \in position..length
        PROVE  /\ p \in Places(c) /\ p - c.from + 1 \in 1..(d - 1)
               /\ At(p) = t[p - c.from + 1]
               /\ Harmless(p) /\ Copyable(p)
    <3> DEFINE m == p - c.from + 1
    <3>1. p \in Places(c) /\ m \in 1..(d - 1) /\ p <= length
      BY <1>1, <1>3, <1>6, <2>1 DEF Places
    <3>2. At(p) = t[m]
      BY <1>1, <3>1, SymbolOf
    <3> HIDE DEF m
    <3>3. m \notin Secret(t)
      <4> SUFFICES ASSUME m \in Secret(t)
                   PROVE  FALSE
        OBVIOUS
      <4>1. PICK k \in 2..(m - 1) : t[k] = "$"
        BY <1>4, SecretIsIn
      <4>2. k \in 2..(d - 1)
        BY <3>1
      <4> QED BY <1>4, <4>1, <4>2, CharacterKinds
    <3>4. Harmless(p) /\ Copyable(p)
      BY <1>1, <2>1, <3>1, <3>3, CutIsHarmless DEF m
    <3> QED BY <3>1, <3>2, <3>4 DEF m
  <2>3. At(position) = "$"
    <3>1. position \in position..length /\ position - c.from + 1 = 1
      BY <1>1
    <3>2. At(position) = t[position - c.from + 1]
      BY <2>2, <3>1
    <3> QED BY <1>4, <3>1, <3>2
  <2>4. ~IsPlaceholder(position)
    <3>1. CASE position = length
      BY <1>1, <3>1, CharacterKinds DEF IsPlaceholder, At
    <3>2. CASE position # length
      <4>1. position + 1 \in position..length /\ (position + 1) - c.from + 1 = 2
        BY <1>1, <3>2
      <4>2. At(position + 1) = t[(position + 1) - c.from + 1]
        BY <2>2, <4>1
      <4> QED BY <1>4, <4>1, <4>2 DEF IsPlaceholder
    <3> QED BY <3>1, <3>2
  <2>5. ~IsDollarQuote(position)
    <3> SUFFICES ASSUME IsDollarQuote(position)
                 PROVE  FALSE
      OBVIOUS
    <3> DEFINE e == DelimiterEnd(position)
    <3>1. e \in (position + 1)..length /\ At(e) = "$"
      BY <1>1, DelimiterMovesOn
    <3> HIDE DEF e
    <3>2. e \in position..length
      BY <1>1, <3>1
    <3>3. e - c.from + 1 \in 1..(d - 1) /\ At(e) = t[e - c.from + 1]
      BY <2>2, <3>2
    <3>4. e - c.from + 1 \in 2..(d - 1)
      BY <1>1, <3>1, <3>3
    <3> QED BY <1>4, <3>1, <3>3, <3>4, CharacterKinds
  <2>6. ~IsPrefixedString(position) /\ ~IsPlainString(position) /\ ~IsNumber(position)
    BY <2>3, CharacterKinds DEF IsPrefixedString, IsPlainString, IsNumber
  <2>7. AtRest(position + 1)
    BY <1>1, <2>2 DEF AtRest, Leftover
  <2>8. Copyable(position)
    BY <1>1, <2>2
  <2> QED BY <2>4, <2>5, <2>6, <2>7, <2>8, QuietTurn
<1> QED BY <1>5, <1>6

(* A number in another radix is skipped to its end, or to that of the      *)
(* text.                                                                   *)
LEMMA RadixNumberSkipped ==
  ASSUME CutText, NEW c \in pieces, c.from <= length, IsRadixNumber(c.token)
  PROVE  /\ At(c.from) \in Digits
         /\ ScanNumericLiteral(c.from) \in (c.from + 1)..(length + 1)
         /\ ScanNumericLiteral(c.from) - 1 <= Last(c)
         /\ AtRest(ScanNumericLiteral(c.from))
<1> DEFINE t == c.token
           size == Len(c.token)
           first == c.from
           last == Last(c)
<1>1. /\ size > 1 /\ t[1] = "0" /\ t[2] \in RadixPrefixes
      /\ \A m \in 3..size : t[m] \in RadixChars
  BY DEF IsRadixNumber
<1>2. /\ length \in Nat /\ first \in Nat \ {0} /\ size \in Nat /\ last = first + size - 1
      /\ first <= length
  BY Texts, Extent
<1>3. ASSUME NEW p \in first..last
      PROVE  p <= length => At(p) = t[p - first + 1]
  <2>1. p \in Places(c)
    BY DEF Places
  <2> QED BY <2>1, SymbolOf
<1>4. PICK e \in (first + 1)..(length + 1) :
            /\ e = IF last < length THEN last + 1 ELSE length + 1
            /\ At(e) \in Separators \union {"end"}
            /\ AtRest(e)
  BY <1>1, <1>2, EndOfToken
<1> HIDE DEF t, size, first, last
<1>5. At(first) = "0" /\ At(first) \in Digits
  <2>1. At(first) = t[first - first + 1] /\ first - first + 1 = 1
    BY <1>1, <1>2, <1>3
  <2> QED BY <1>1, <2>1, CharacterKinds
<1>6. ScanNumericLiteral(first) \in (first + 1)..(length + 1)
  BY <1>2, <1>5, NumberMovesOn
<1>7. ScanNumericLiteral(first) = e
  <2>1. CASE first = length
    BY <1>1, <1>2, <1>4, <1>6, <2>1
  <2>2. CASE first # length
    <3>1. first + 1 \in first..last /\ first + 1 <= length /\ (first + 1) - first + 1 = 2
          /\ e \in (first + 2)..(length + 1) /\ first + 2 \in 1..(length + 1) /\ e - 1 <= last
      BY <1>1, <1>2, <1>4, <2>2
    <3>2. At(first + 1) = t[(first + 1) - first + 1]
      BY <1>3, <3>1
    <3>3. At(first + 1) \in RadixPrefixes
      BY <1>1, <3>1, <3>2
    <3>4. ASSUME NEW p \in (first + 2)..(e - 1)
          PROVE  At(p) \in RadixChars
      <4>1. p \in first..last /\ p <= length /\ p - first + 1 \in 3..size
        BY <1>2, <1>4, <3>1
      <4> QED BY <1>1, <1>3, <4>1
    <3>5. At(e) \notin RadixChars /\ "end" \notin RadixChars
      BY <1>4, CharacterKinds
    <3>6. RunEnd(first + 2, RadixChars) = e
      BY <1>2, <3>1, <3>4, <3>5, RunEndsAt
    <3> QED BY <1>5, <3>3, <3>6 DEF ScanNumericLiteral
  <2> QED BY <2>1, <2>2
<1>8. e - 1 <= last
  BY <1>1, <1>2, <1>4
<1> QED BY <1>4, <1>5, <1>6, <1>7, <1>8 DEF first, last

(* So is a decimal; if it is cut in its exponent only the mark and the     *)
(* sign are left.                                                          *)
LEMMA DecimalSkipped ==
  ASSUME CutText, NEW c \in pieces, IsLiteral(c), c.from <= length,
         NEW mantissa \in 1..Len(c.token), IsDecimalWith(c.token, mantissa)
  PROVE  /\ At(c.from) \in Digits
         /\ ScanNumericLiteral(c.from) \in (c.from + 1)..(length + 1)
         /\ ScanNumericLiteral(c.from) - 1 <= Last(c)
         /\ AtRest(ScanNumericLiteral(c.from))
<1> DEFINE t == c.token
           size == Len(c.token)
           first == c.from
           last == Last(c)
<1>1. /\ t[1] \in Digits
      /\ \A m \in 1..mantissa : t[m] \in MantissaChars
      /\ mantissa < size => t[mantissa + 1] = "e"
  BY DEF IsDecimalWith
<1>2. /\ length \in Nat /\ first \in Nat \ {0} /\ size \in Nat /\ last = first + size - 1
      /\ first <= length /\ mantissa \in 1..size
  BY Texts, Extent
<1>3. ASSUME NEW p \in first..last
      PROVE  p <= length => At(p) = t[p - first + 1]
  <2>1. p \in Places(c)
    BY DEF Places
  <2> QED BY <2>1, SymbolOf
<1>4. PICK e \in (first + 1)..(length + 1) :
            /\ e = IF last < length THEN last + 1 ELSE length + 1
            /\ At(e) \in Separators \union {"end"}
            /\ AtRest(e)
  BY <1>2, EndOfToken
<1>w. mantissa < size =>
        \E mark \in {1, 2} :
          /\ mark = 2 => t[mantissa + 2] \in Signs
          /\ mantissa + mark < size
          /\ \A m \in (mantissa + mark + 1)..size : t[m] \in Digits
  BY DEF IsDecimalWith
<1>h. ASSUME NEW p \in first..last, length < last, t[p - first + 1] \in Signs \union {"e"}
      PROVE  Harmless(p)
  <2>1. p \in Places(c)
    BY DEF Places
  <2>2. ~IsRadixNumber(t)
    <3>1. 2 <= size => t[2] \in MantissaChars \union {"e"}
      <4>1. CASE mantissa = 1
        BY <1>1, <1>2, <4>1
      <4>2. CASE mantissa # 1
        <5>1. 2 \in 1..mantissa
          BY <1>2, <4>2
        <5> QED BY <1>1, <5>1
      <4> QED BY <4>1, <4>2
    <3> QED BY <1>2, <3>1, CharacterKinds DEF IsRadixNumber
  <2>3. p - first + 1 \notin Secret(t)
    BY <1>1, <1>h, <2>2, SecretIsIn, CharacterKinds
  <2> QED BY <1>h, <2>1, <2>3, CutIsHarmless
<1>t. ASSUME NEW p \in 1..(length + 1), \A k \in p..length : Harmless(k)
      PROVE  AtRest(p)
  BY <1>t DEF AtRest, Leftover
<1> HIDE DEF t, size, first, last
<1> DEFINE end == first + mantissa
<1>5. At(first) \in Digits
  <2>1. At(first) = t[first - first + 1] /\ first - first + 1 = 1
    BY <1>2, <1>3
  <2> QED BY <1>1, <2>1
<1>6. ScanNumericLiteral(first) \in (first + 1)..(length + 1)
  BY <1>2, <1>5, NumberMovesOn
<1>7. e - 1 <= last
  BY <1>2, <1>4
<1>8. \A p \in first..(end - 1) : p <= length => At(p) \in MantissaChars
  <2> SUFFICES ASSUME NEW p \in first..(end - 1), p <= length
               PROVE  At(p) \in MantissaChars
    OBVIOUS
  <2>1. p \in first..last /\ p - first + 1 \in 1..mantissa
    BY <1>2
  <2> QED BY <1>1, <1>3, <2>1
<1>9. end \in first..(last + 1) /\ end # first
      /\ (mantissa < size => end \in first..last /\ end - first + 1 = mantissa + 1)
      /\ (mantissa = size => end = last + 1)
  BY <1>2
<1> HIDE DEF end

(* Behind the mantissa stands the mark of an exponent, or the literal ends. *)
<1>10. end <= length => At(end) \in Separators \union {"end", "e"}
                        /\ (At(end) = "e" <=> mantissa < size)
  <2> SUFFICES ASSUME end <= length
               PROVE  At(end) \in Separators \union {"end", "e"}
                      /\ (At(end) = "e" <=> mantissa < size)
    OBVIOUS
  <2>1. CASE mantissa < size
    BY <1>1, <1>3, <1>9, <2>1
  <2>2. CASE mantissa = size
    <3>1. e = end
      BY <1>2, <1>4, <1>9, <2>2
    <3> QED BY <1>4, <2>2, <3>1, <1>2, CharacterKinds
  <2> QED BY <1>2, <2>1, <2>2
<1>11. ScanNumericLiteral(first) = ScanExponent(RunEnd(first, MantissaChars))
  <2> SUFFICES ASSUME At(first + 1) \in RadixPrefixes
               PROVE  FALSE
    BY DEF ScanNumericLiteral
  <2>1. At(first + 1) # "end"
    BY CharacterKinds
  <2>2. first + 1 <= length
    BY <1>2, <2>1 DEF At
  <2>3. CASE end = first + 1
    BY <1>10, <2>2, <2>3, CharacterKinds
  <2>4. CASE end # first + 1
    <3>1. first + 1 \in first..(end - 1)
      BY <1>2, <1>9, <2>4
    <3> QED BY <1>8, <2>2, <3>1, CharacterKinds
  <2> QED BY <2>3, <2>4
<1>12. CASE length < end
  <2>1. RunEnd(first, MantissaChars) = length + 1
    <3>1. /\ length + 1 \in first..(length + 1) /\ first \in 1..(length + 1)
          /\ \A p \in first..((length + 1) - 1) : p \in first..(end - 1) /\ p <= length
      BY <1>2, <1>9, <1>12
    <3>2. At(length + 1) \notin MantissaChars /\ "end" \notin MantissaChars
      BY <1>2, CharacterKinds DEF At
    <3> QED BY <1>2, <1>8, <3>1, <3>2, RunEndsAt
  <2>2. ScanNumericLiteral(first) = length + 1
    <3>1. At(length + 1) # "e"
      BY <1>2, CharacterKinds DEF At
    <3> QED BY <1>11, <2>1, <3>1 DEF ScanExponent
  <2>3. AtRest(length + 1)
    <3>1. length + 1 \in 1..(length + 1) /\ \A k \in (length + 1)..length : FALSE
      BY <1>2
    <3> QED BY <1>t, <3>1
  <2>4. (length + 1) - 1 <= last
    BY <1>2, <1>9, <1>12
  <2> QED BY <1>5, <1>6, <2>2, <2>3, <2>4 DEF first, last
<1>13. CASE end <= length
  <2>1. RunEnd(first, MantissaChars) = end
    <3>1. end \in first..(length + 1) /\ first \in 1..(length + 1)
          /\ \A p \in first..(end - 1) : p <= length
      BY <1>2, <1>9, <1>13
    <3>2. At(end) \notin MantissaChars /\ "end" \notin MantissaChars
      BY <1>10, <1>13, CharacterKinds
    <3> QED BY <1>2, <1>8, <3>1, <3>2, RunEndsAt
  <2>2. ScanNumericLiteral(first) = ScanExponent(end)
    BY <1>11, <2>1
  <2>3. CASE mantissa = size
    <3>1. ScanNumericLiteral(first) = end
      BY <1>2, <1>10, <1>13, <2>2, <2>3 DEF ScanExponent
    <3>2. e = end
      BY <1>2, <1>4, <1>9, <1>13, <2>3
    <3> QED BY <1>4, <1>5, <1>6, <1>7, <3>1, <3>2 DEF first, last
  <2>4. CASE mantissa < size
    <3>1. PICK mark \in {1, 2} :
            /\ mark = 2 => t[mantissa + 2] \in Signs
            /\ mantissa + mark < size
            /\ \A m \in (mantissa + mark + 1)..size : t[m] \in Digits
      BY <1>w, <2>4
    <3>2. At(end) = "e"
      BY <1>10, <1>13, <2>4
    <3>3. mark \in 1..2 /\ end = first + mantissa /\ end + mark \in first..last
      BY <1>2, <3>1 DEF end
    <3>4. ASSUME NEW p \in (end + mark)..last, p <= length
          PROVE  At(p) \in Digits
      <4>1. p \in first..last /\ p - first + 1 \in (mantissa + mark + 1)..size
        BY <1>2, <1>9, <3>3
      <4> QED BY <1>3, <3>1, <3>4, <4>1
    <3>5. mark = 2 /\ end + 1 <= length => At(end + 1) = t[mantissa + 2]
      <4>1. end + 1 \in first..last /\ (end + 1) - first + 1 = mantissa + 2
        BY <1>2, <3>3
      <4> QED BY <1>3, <4>1
    <3> DEFINE found == IF At(end + 1) \in Signs THEN 2 ELSE 1
    <3>6. ScanExponent(end) =
            IF At(end + found) \in Digits THEN RunEnd(end + found, Digits) ELSE end
      BY <3>2 DEF ScanExponent
    <3>7. CASE end + mark <= length
      <4>1. found = mark
        <5>1. CASE mark = 1
          <6>1. end + 1 \in (end + mark)..last /\ end + 1 <= length
            BY <1>2, <3>3, <3>7, <5>1
          <6> QED BY <3>4, <5>1, <6>1, CharacterKinds
        <5>2. CASE mark = 2
          <6>1. end + 1 <= length
            BY <1>2, <3>3, <3>7, <5>2
          <6> QED BY <3>1, <3>5, <5>2, <6>1
        <5> QED BY <3>1, <5>1, <5>2
      <4> HIDE DEF found
      <4>2. end + mark \in (end + mark)..last /\ end + mark \in 1..(length + 1)
            /\ e \in (end + mark)..(length + 1)
            /\ \A p \in (end + mark)..(e - 1) : p \in (end + mark)..last /\ p <= length
        BY <1>2, <1>4, <3>3, <3>7
      <4>3. At(end + mark) \in Digits
        BY <3>4, <3>7, <4>2
      <4>4. \A p \in (end + mark)..(e - 1) : At(p) \in Digits
        BY <3>4, <4>2
      <4>5. At(e) \notin Digits /\ "end" \notin Digits
        BY <1>4, CharacterKinds
      <4>6. RunEnd(end + mark, Digits) = e
        BY <1>2, <4>2, <4>4, <4>5, RunEndsAt
      <4>7. ScanNumericLiteral(first) = e
        BY <2>2, <3>6, <4>1, <4>3, <4>6
      <4> QED BY <1>4, <1>5, <1>6, <1>7, <4>7 DEF first, last
    <3>8. CASE length < end + mark
      <4>1. At(end + found) \notin Digits
        <5>1. CASE end = length
          <6>1. At(end + 1) = "end"
            BY <1>2, <5>1 DEF At
          <6>2. found = 1
            BY <6>1, CharacterKinds
          <6> QED BY <6>1, <6>2, CharacterKinds
        <5>2. CASE end # length
          <6>1. mark = 2 /\ end + 1 = length
            BY <1>2, <1>9, <1>13, <3>3, <3>8, <5>2
          <6>2. found = 2
            BY <1>2, <3>1, <3>5, <6>1
          <6>3. At(end + 2) = "end"
            BY <1>2, <1>9, <6>1 DEF At
          <6> QED BY <6>2, <6>3, CharacterKinds
        <5> QED BY <5>1, <5>2
      <4> HIDE DEF found
      <4>2. ScanNumericLiteral(first) = end
        BY <2>2, <3>6, <4>1
      <4>3. ASSUME NEW k \in end..length
            PROVE  Harmless(k)
        <5>1. k \in first..last /\ length < last /\ k <= length
          BY <1>2, <1>9, <3>3, <3>8
        <5>2. At(k) = t[k - first + 1]
          BY <1>3, <5>1
        <5>3. At(k) \in Signs \union {"e"}
          <6>1. CASE k = end
            BY <3>2, <6>1
          <6>2. CASE k # end
            <7>1. mark = 2 /\ k = end + 1
              BY <1>2, <1>9, <3>3, <3>8, <6>2
            <7> QED BY <3>1, <3>5, <5>1, <7>1
          <6> QED BY <6>1, <6>2
        <5> QED BY <1>h, <5>1, <5>2, <5>3
      <4>4. end \in 1..(length + 1) /\ end - 1 <= last
        BY <1>2, <1>9, <1>13
      <4>5. AtRest(end)
        BY <1>t, <4>3, <4>4
      <4> QED BY <1>5, <1>6, <4>2, <4>4, <4>5 DEF first, last
    <3> QED BY <1>2, <3>3, <3>7, <3>8
  <2> QED BY <1>2, <2>3, <2>4
<1> QED BY <1>2, <1>9, <1>12, <1>13

(* A turn at a number: it is masked.                                       *)
LEMMA TurnAtNumber ==
  ASSUME RedactionInv, Scan, Scanning("scan"), NEW c \in pieces, IsLiteral(c),
         IsRadixNumber(c.token) \/ IsDecimal(c.token), position = c.from
  PROVE  RedactionInv'
<1>1. CutText /\ length \in Nat /\ position \in 1..length
  BY Texts DEF RedactionInv, PositionInv, CutText, Scanning
<1> DEFINE next == ScanNumericLiteral(position)
<1>2. /\ At(position) \in Digits
      /\ next \in (position + 1)..(length + 1) /\ next - 1 <= Last(c) /\ AtRest(next)
  <2>1. CASE IsRadixNumber(c.token)
    BY <1>1, <2>1, RadixNumberSkipped
  <2>2. CASE IsDecimal(c.token)
    BY <1>1, <2>2, DecimalSkipped DEF IsDecimal
  <2> QED BY <2>1, <2>2
<1>3. IsNumber(position)
  BY <1>1, <1>2, Token DEF IsNumber, InIdentifier
<1>4. WriteMask(next) /\ UNCHANGED mode
  BY <1>1, <1>3, TurnIs DEF MaskNumber
<1> HIDE DEF next
<1> QED BY <1>2, <1>4, LiteralSkipped

(* A turn of the outer loop.                                               *)
LEMMA OuterTurn ==
  ASSUME RedactionInv, Scan, Scanning("scan")
  PROVE  RedactionInv'
<1>1. CutText /\ AtRest(position) /\ mode = "scan" /\ position <= length
  BY DEF RedactionInv, PositionInv, CutText, Scanning
<1>2. CASE Leftover(position)
  BY <1>1, <1>2, LeftoverTurn
<1>3. CASE Between(position)
  BY <1>3, TurnBetween
<1>4. ASSUME NEW c \in pieces, c.from = position
      PROVE  RedactionInv'
  <2>1. CASE IsLiteral(c)
    BY <1>1, <1>4, <2>1, LiteralShape, TurnAtString, TurnAtDollarQuote, TurnAtNumber
  <2>2. CASE ~IsLiteral(c) /\ IsName(c.token)
    <3>1. Len(c.token) >= 1
      <4>1. c.token \in Seq(Symbols)
        BY <1>1, Token, RedactionAssumption
      <4> QED BY <2>2, <4>1 DEF IsName
    <3>2. position \in Places(c)
      BY <1>1, <1>4, <3>1, Extent DEF Places
    <3> QED BY <2>2, <3>2, TurnInName
  <2>3. CASE ~IsLiteral(c) /\ IsPlaceholderToken(c.token)
    BY <1>4, <2>3, TurnAtPlaceholder
  <2> QED BY <1>1, <2>1, <2>2, <2>3, OtherShape
<1>5. ASSUME NEW c \in pieces, ~IsLiteral(c), IsName(c.token), position \in Places(c)
      PROVE  RedactionInv'
  BY <1>5, TurnInName
<1> QED BY <1>1, <1>2, <1>3, <1>4, <1>5 DEF AtRest

(***************************************************************************)
(* The inner loop.                                                         *)
(***************************************************************************)
Passable(p) ==
    /\ \E piece \in pieces : IsLiteral(piece) /\ p \in Places(piece)
    /\ \A piece \in pieces : IsLiteral(piece) /\ piece.from = p => length < Last(piece)

(* A turn of the inner loop over what may be passed keeps the invariant.   *)
LEMMA SkippingKeeps ==
  ASSUME RedactionInv, NEW next \in position..(length + 1), NEW then, SkipInString(next, then),
         \A p \in position..(next - 1) : Passable(p),
         \/ then = "scan" /\ AtRest(next)
         \/ then = "quote" /\ (Leftover(next) \/ InString(next))
  PROVE  RedactionInv'
<1>1. /\ UNCHANGED <<query, pieces, length, kept, masks>>
      /\ position' = next /\ mode' = then
  BY DEF SkipInString
<1>2. /\ CutText /\ OutputInv /\ length \in Nat /\ position \in 1..(length + 1)
  BY Texts DEF RedactionInv, PositionInv, CutText
<1>3. TextInv' /\ PositionInv'
  <2>1. position' \in 1..(length + 1)
    BY <1>1, <1>2
  <2> QED BY <1>1, <2>1, SameText
<1>4. /\ kept \subseteq 1..(next - 1) /\ masks \subseteq 1..(next - 1)
  BY <1>2 DEF OutputInv
<1>5. ASSUME NEW c \in pieces, IsLiteral(c), Last(c) <= length, c.from < next
      PROVE  Places(c) \intersect masks = {c.from} /\ Places(c) \intersect kept = {}
  <2>1. ~(length < Last(c)) /\ c.from \in Nat
    BY <1>2, <1>5, Extent
  <2>2. c.from < position
    BY <1>2, <1>5, <2>1 DEF Passable
  <2> QED BY <1>2, <1>5, <2>2 DEF OutputInv
<1>6. ASSUME NEW p \in 1..(next - 1), \A c \in pieces : IsLiteral(c) => p \notin Places(c)
      PROVE  p \in kept /\ p \notin masks
  <2>1. p < position
    BY <1>2, <1>6 DEF Passable
  <2> QED BY <1>2, <1>6, <2>1 DEF OutputInv
<1>7. OutputInv'
  BY <1>1, <1>2, <1>4, <1>5, <1>6 DEF OutputInv, CutTextLeaksNothing
<1> QED BY <1>3, <1>7 DEF RedactionInv

(* Every turn of the inner loop.                                           *)
LEMMA InnerTurnMovesOn ==
  ASSUME length \in Nat, position \in 1..(length + 1), Scan, mode = "quote"
  PROVE  \/ position > length /\ SkipInString(position, "scan")
         \/ /\ position <= length
            /\ \/ /\ At(position) = "'" /\ At(position + 1) = "'" /\ position + 1 <= length
                  /\ SkipInString(position + 2, "quote")
               \/ /\ At(position) = "'" /\ At(position + 1) # "'"
                  /\ SkipInString(position + 1, "scan")
               \/ At(position) # "'" /\ SkipInString(position + 1, "quote")
<1>1. ~SkipPlaceholder /\ ~MaskDollarQuote /\ ~MaskPrefixedString /\ ~MaskString /\ ~MaskNumber
      /\ ~CopySymbol /\ ~Finish
  BY DEF SkipPlaceholder, MaskDollarQuote, MaskPrefixedString, MaskString, MaskNumber, CopySymbol,
         Finish, Scanning
<1>2. SkipDoubledQuote \/ CloseString \/ SkipQuoted \/ TextEndsInString
  BY <1>1 DEF Scan
<1>3. CASE SkipDoubledQuote
  <2>1. position <= length /\ At(position) = "'" /\ At(position + 1) = "'"
        /\ SkipInString(position + 2, "quote")
    BY <1>3 DEF SkipDoubledQuote, Scanning, IsDoubledQuote
  <2>2. At(position + 1) # "end"
    BY <2>1, CharacterKinds
  <2>3. position + 1 <= length
    BY <2>2 DEF At
  <2> QED BY <2>1, <2>3
<1>4. CASE CloseString
  BY <1>4 DEF CloseString, Scanning, IsDoubledQuote
<1>5. CASE SkipQuoted
  BY <1>5 DEF SkipQuoted, Scanning
<1>6. CASE TextEndsInString
  BY <1>6 DEF TextEndsInString
<1> QED BY <1>2, <1>3, <1>4, <1>5, <1>6

(* What is left of a cut literal may be passed.                            *)
LEMMA LeftoverPassable ==
  ASSUME CutText, NEW p, Harmless(p)
  PROVE  Passable(p)
<1>1. PICK d \in pieces : IsLiteral(d) /\ p \in Places(d) /\ length < Last(d)
  BY DEF Harmless
<1>2. ASSUME NEW c \in pieces, IsLiteral(c), c.from = p
      PROVE  length < Last(c)
  <2>1. p \in Places(c)
    BY <1>2, LiteralBegins
  <2>2. c = d
    BY <1>1, <2>1 DEF CutText, TextInv
  <2> QED BY <1>1, <2>2
<1> QED BY <1>1, <1>2 DEF Passable

(* So may what a literal has behind its first symbol.                      *)
LEMMA InsidePassable ==
  ASSUME CutText, NEW d \in pieces, IsLiteral(d), NEW p \in Places(d), p # d.from
  PROVE  Passable(p)
<1>1. ASSUME NEW c \in pieces, IsLiteral(c), c.from = p
      PROVE  FALSE
  <2>1. p \in Places(c)
    BY <1>1, LiteralBegins
  <2>2. c = d
    BY <2>1 DEF CutText, TextInv
  <2> QED BY <1>1, <2>2
<1> QED BY <1>1 DEF Passable

(* A turn of the inner loop, at a quote, at a pair of them or at any other *)
(* symbol, keeps the invariant.                                            *)
LEMMA InnerTurn ==
  ASSUME RedactionInv, Scan, mode = "quote"
  PROVE  RedactionInv'
<1>1. CutText /\ length \in Nat /\ position \in 1..(length + 1)
  BY Texts DEF RedactionInv, PositionInv, CutText
<1>2. CASE Leftover(position)
  <2>1. \A p \in position..length : Passable(p)
    BY <1>1, <1>2, LeftoverPassable DEF Leftover
  <2>2. \A p \in position..(length + 1) : Leftover(p) /\ AtRest(p)
    BY <1>1, <1>2, Leftovers
  <2>3. PICK next \in position..(length + 1), then \in {"scan", "quote"} : SkipInString(next, then)
    BY <1>1, InnerTurnMovesOn
  <2>4. /\ \A p \in position..(next - 1) : Passable(p)
        /\ Leftover(next) /\ AtRest(next)
    BY <1>1, <2>1, <2>2
  <2> QED BY <2>3, <2>4, SkippingKeeps
<1>3. CASE InString(position)
  <2>0. PICK c \in pieces : \E opening \in {1, 2} : \E firsts \in SUBSET (1..Len(c.token)) :
               /\ IsLiteral(c)
               /\ IsStringWith(c.token, opening, firsts)
               /\ position \in (c.from + opening)..Last(c)
               /\ position - c.from \notin firsts
    BY <1>3 DEF InString
  <2>1. PICK opening \in {1, 2}, firsts \in SUBSET (1..Len(c.token)) :
               /\ IsLiteral(c)
               /\ IsStringWith(c.token, opening, firsts)
               /\ position \in (c.from + opening)..Last(c)
               /\ position - c.from \notin firsts
    BY <2>0
  <2> DEFINE t == c.token
             size == Len(c.token)
             first == c.from
             last == Last(c)
             m == position - first + 1
  <2>2. /\ first \in Nat \ {0} /\ size \in Nat /\ last = first + size - 1 /\ opening \in 1..2
        /\ position \in (first + opening)..last
        /\ At(last + 1) \in Separators \union {"end"}
    BY <1>1, <2>1, Extent, Token
  <2>3. /\ t[size] = "'"
        /\ firsts \subseteq (opening + 1)..(size - 2)
        /\ \A k \in firsts : k + 1 \notin firsts
        /\ \A k \in (opening + 1)..(size - 1) : t[k] = "'" <=> k \in firsts \/ k - 1 \in firsts
    BY <2>1 DEF IsStringWith
  <2>4. ASSUME NEW p \in first..last
        PROVE  p <= length => At(p) = t[p - first + 1]
    <3>1. p \in Places(c)
      BY DEF Places
    <3> QED BY <1>1, <3>1, SymbolOf
  <2>5. ASSUME NEW p \in (first + 1)..last
        PROVE  Passable(p)
    <3>1. p \in Places(c) /\ p # c.from
      BY <2>2 DEF Places
    <3> QED BY <1>1, <2>1, <3>1, InsidePassable
  <2>6. ASSUME NEW p \in (first + opening)..last, p - first \notin firsts
        PROVE  InString(p)
    BY <2>1, <2>6 DEF InString
  <2>7. last \in 1..length => AtRest(last + 1)
    BY <1>1, RestsBehind
  <2>8. AtRest(length + 1)
    BY <1>1 DEF AtRest, Leftover
  <2>9. position - first \notin firsts
    BY <2>1
  <2> HIDE DEF t, size, first, last
  <2>10. m \in (opening + 1)..size /\ m - 1 \notin firsts /\ m = position - first + 1
    BY <1>1, <2>2, <2>9
  <2> HIDE DEF m
  <2>11. position <= length => At(position) = t[m]
    <3>1. position \in first..last
      BY <1>1, <2>2
    <3> QED BY <2>4, <2>10, <3>1
  <2>12. CASE position > length /\ SkipInString(position, "scan")
    <3>1. position = length + 1 /\ position \in position..(length + 1)
          /\ \A p \in position..(position - 1) : FALSE
      BY <1>1, <2>12
    <3> QED BY <2>8, <2>12, <3>1, SkippingKeeps
  <2>13. CASE position <= length /\ At(position) # "'" /\ SkipInString(position + 1, "quote")
    <3>1. m # size /\ m \notin firsts
      BY <2>2, <2>3, <2>10, <2>11, <2>13
    <3>2. position + 1 \in (first + opening)..last /\ (position + 1) - first = m
          /\ position + 1 \in position..(length + 1)
          /\ \A p \in position..((position + 1) - 1) : p \in (first + 1)..last
      BY <1>1, <2>2, <2>10, <2>13, <3>1
    <3>3. InString(position + 1)
      BY <2>6, <3>1, <3>2
    <3> QED BY <2>5, <2>13, <3>2, <3>3, SkippingKeeps
  <2>14. CASE /\ position + 1 <= length /\ At(position) = "'" /\ At(position + 1) = "'"
              /\ SkipInString(position + 2, "quote")
    <3>1. m # size
      <4> SUFFICES ASSUME m = size
                   PROVE  FALSE
        OBVIOUS
      <4>1. position + 1 = last + 1
        BY <1>1, <2>2, <2>10
      <4> QED BY <2>2, <2>14, <4>1, CharacterKinds
    <3>2. m \in (opening + 1)..(size - 1)
      BY <2>2, <2>10, <3>1
    <3>3. m \in firsts
      <4>1. t[m] = "'"
        BY <1>1, <2>11, <2>14
      <4> QED BY <2>3, <2>10, <3>2, <4>1
    <3>4. m + 1 \notin firsts /\ m <= size - 2
      BY <2>2, <2>3, <3>3
    <3>5. position + 2 \in (first + opening)..last /\ (position + 2) - first = m + 1
          /\ position + 2 \in position..(length + 1)
          /\ \A p \in position..((position + 2) - 1) : p \in (first + 1)..last
      BY <1>1, <2>2, <2>10, <2>14, <3>4
    <3>6. InString(position + 2)
      BY <2>6, <3>4, <3>5
    <3> QED BY <2>5, <2>14, <3>5, <3>6, SkippingKeeps
  <2>15. CASE /\ position <= length /\ At(position) = "'" /\ At(position + 1) # "'"
              /\ SkipInString(position + 1, "scan")
    <3>1. AtRest(position + 1)
      <4>1. CASE m = size
        <5>1. last \in 1..length /\ position + 1 = last + 1
          BY <1>1, <2>2, <2>10, <2>15, <4>1
        <5> QED BY <2>7, <5>1, Zenon
      <4>2. CASE m # size
        <5>1. m \in (opening + 1)..(size - 1) /\ t[m] = "'"
          BY <2>2, <2>10, <2>11, <2>15, <4>2
        <5>2. m \in firsts
          BY <2>3, <2>10, <5>1
        <5>3. m + 1 \in (opening + 1)..(size - 1) /\ (m + 1) - 1 = m
          BY <2>2, <2>3, <5>1, <5>2
        <5>4. t[m + 1] = "'"
          BY <2>3, <5>2, <5>3
        <5>5. position = length
          <6> SUFFICES ASSUME position # length
                       PROVE  FALSE
            OBVIOUS
          <6>1. position + 1 \in first..last /\ position + 1 <= length
                /\ (position + 1) - first + 1 = m + 1
            BY <1>1, <2>2, <2>10, <2>15, <5>3
          <6> QED BY <2>4, <2>15, <5>4, <6>1
        <5> QED BY <2>8, <5>5
      <4> QED BY <4>1, <4>2
    <3>2. position + 1 \in position..(length + 1)
          /\ \A p \in position..((position + 1) - 1) : p \in (first + 1)..last
      BY <1>1, <2>2, <2>15
    <3> QED BY <2>5, <2>15, <3>1, <3>2, SkippingKeeps
  <2> QED BY <1>1, <2>12, <2>13, <2>14, <2>15, InnerTurnMovesOn
<1> QED BY <1>2, <1>3 DEF RedactionInv, PositionInv
-----------------------------------------------------------------------------
(***************************************************************************)
(* Writing, and the whole.                                                 *)
(***************************************************************************)
LEMMA WritingKeeps ==
  ASSUME RedactionInv, NEW token \in Literals \union Others, NEW gap \in Gaps,
         Write(token, gap)
  PROVE  RedactionInv'
<1>s. PICK size : size = Len(query)
  OBVIOUS
<1> DEFINE n == Len(token)
           g == Len(gap)
           new == [from |-> size + 1, token |-> token]
<1>1. /\ TextInv /\ query \in Seq(Symbols) /\ token \in Seq(Symbols)
      /\ gap \in Seq(Symbols) /\ gap \in Seq(Separators) /\ g \in Nat \ {0}
      /\ size \in Nat /\ n \in Nat /\ length = 0 /\ position = 1 /\ mode = "writing"
  BY <1>s, RedactionAssumption DEF RedactionInv, PositionInv, TextInv, Write
<1>2. /\ query' = query \o token \o gap /\ pieces' = pieces \union {new}
      /\ length' = 0 /\ position' = 1 /\ mode' = "writing" /\ kept' = kept /\ masks' = masks
  BY <1>s, <1>1 DEF Write
<1>3. /\ query' \in Seq(Symbols) /\ Len(query') = size + n + g
      /\ \A p \in 1..size : query'[p] = query[p]
      /\ \A m \in 1..n : query'[size + m] = token[m]
      /\ \A m \in 1..g : query'[size + n + m] = gap[m]
  BY <1>s, <1>1, <1>2
<1>4. /\ new.from = size + 1 /\ new.token = token /\ Last(new) = size + n
      /\ Places(new) = (size + 1)..(size + n)
  <2>1. new.from = size + 1 /\ new.token = token
    OBVIOUS
  <2> HIDE DEF new
  <2>2. Last(new) = (size + 1) + n - 1
    BY <2>1 DEF Last
  <2> QED BY <1>1, <2>1, <2>2 DEF Places
<1>5. ASSUME NEW c \in pieces
      PROVE  /\ c.from \in Nat \ {0} /\ c.token \in Literals \union Others
             /\ Len(c.token) \in Nat /\ Last(c) = c.from + Len(c.token) - 1 /\ Last(c) < size
             /\ Places(c) \subseteq 1..size
  <2>1. c.from \in Nat \ {0} /\ c.token \in Literals \union Others /\ Between(Last(c) + 1)
    BY <1>1 DEF TextInv
  <2>2. Len(c.token) \in Nat
    <3>1. c.token \in Seq(Symbols)
      BY <2>1, RedactionAssumption
    <3> QED BY <3>1
  <2>3. Last(c) = c.from + Len(c.token) - 1
    BY DEF Last
  <2>4. Last(c) + 1 \in 1..size
    BY <1>s, <2>1 DEF Between
  <2>5. Last(c) < size
    BY <1>1, <2>1, <2>2, <2>3, <2>4
  <2> QED BY <1>1, <2>1, <2>2, <2>3, <2>5 DEF Places
<1> HIDE DEF new, n, g
<1>6. ASSUME NEW p \in 1..size, Between(p)
      PROVE  Between(p)'
  <2>1. p \in 1..Len(query') /\ query'[p] \in Separators
    BY <1>s, <1>1, <1>3, <1>6 DEF Between
  <2>2. p \notin Places(new)
    BY <1>1, <1>4
  <2> QED BY <1>2, <1>6, <2>1, <2>2 DEF Between
<1>7. ASSUME NEW m \in 1..g
      PROVE  Between(size + n + m)'
  <2>1. gap[m] \in Separators
    BY <1>1 DEF g
  <2>2. size + n + m \in 1..Len(query')
    BY <1>1, <1>3
  <2>3. query'[size + n + m] \in Separators
    BY <1>3, <2>1
  <2>4. \A c \in pieces' : size + n + m \notin Places(c)
    BY <1>1, <1>2, <1>4, <1>5
  <2> QED BY <2>2, <2>3, <2>4 DEF Between
<1>8. TextInv'
  <2>1. ASSUME NEW c \in pieces
        PROVE  /\ \A m \in 1..Len(c.token) : query'[c.from + m - 1] = c.token[m]
               /\ c.from = 1 \/ Between(c.from - 1)'
               /\ Between(Last(c) + 1)'
    <3>1. /\ \A m \in 1..Len(c.token) : query[c.from + m - 1] = c.token[m]
          /\ c.from = 1 \/ Between(c.from - 1)
          /\ Between(Last(c) + 1)
      BY <1>1 DEF TextInv
    <3>2. \A m \in 1..Len(c.token) : c.from + m - 1 \in 1..size
      BY <1>1, <1>5
    <3>3. (c.from = 1 \/ c.from - 1 \in 1..size) /\ Last(c) + 1 \in 1..size
      BY <1>s, <3>1 DEF Between
    <3> QED BY <1>3, <1>6, <3>1, <3>2, <3>3
  <2>2. /\ \A m \in 1..Len(new.token) : query'[new.from + m - 1] = new.token[m]
        /\ new.from = 1 \/ Between(new.from - 1)'
        /\ Between(Last(new) + 1)'
        /\ new.from \in Nat \ {0} /\ new.token \in Literals \union Others
    <3>1. \A m \in 1..n : (size + 1) + m - 1 = size + m
      BY <1>1
    <3>2. size + 1 = 1 \/ (size \in 1..size /\ Between(size))
      BY <1>s, <1>1 DEF TextInv
    <3>3. size + 1 = 1 \/ Between(size)'
      BY <1>6, <3>2
    <3>4. Between((size + 1) - 1)' \/ size + 1 = 1
      BY <1>1, <3>3
    <3>5. Between((size + n) + 1)'
      BY <1>1, <1>7
    <3>6. Len(new.token) = n
      BY <1>4 DEF n
    <3>7. size + 1 \in Nat \ {0}
      BY <1>1
    <3> QED BY <1>3, <1>4, <3>1, <3>4, <3>5, <3>6, <3>7
  <2>3. ASSUME NEW p \in 1..Len(query')
        PROVE  Between(p)' \/ \E c \in pieces' : p \in Places(c)
    <3>1. CASE p \in 1..size
      <4>1. Between(p) \/ \E c \in pieces : p \in Places(c)
        BY <1>s, <1>1, <3>1 DEF TextInv
      <4> QED BY <1>2, <1>6, <3>1, <4>1
    <3>2. CASE p \in (size + 1)..(size + n)
      BY <1>2, <1>4, <3>2
    <3>3. CASE p \in (size + n + 1)..(size + n + g)
      <4>1. p - (size + n) \in 1..g /\ p = size + n + (p - (size + n))
        BY <1>1, <3>3
      <4>2. Between(size + n + (p - (size + n)))'
        BY <1>7, <4>1
      <4> QED BY <4>1, <4>2
    <3> QED BY <1>1, <1>3, <3>1, <3>2, <3>3
  <2>4. ASSUME NEW one \in pieces', NEW other \in pieces', one # other
        PROVE  Places(one) \intersect Places(other) = {}
    <3>1. \A c \in pieces : Places(c) \intersect Places(new) = {}
      BY <1>1, <1>4, <1>5
    <3> QED BY <1>1, <1>2, <2>4, <3>1 DEF TextInv
  <2>5. (Len(query) = 0 \/ Between(Len(query)))'
    <3>1. /\ Len(query') \in 1..Len(query') /\ query'[Len(query')] \in Separators
          /\ \A c \in pieces' : Len(query') \notin Places(c)
      BY <1>1, <1>3, <1>7 DEF Between
    <3> QED BY <3>1 DEF Between
  <2>6. \A c \in pieces' : c \in pieces \/ c = new
    BY <1>2
  <2>7. \A c \in pieces' :
          /\ c.from \in Nat \ {0}
          /\ c.token \in Literals \union Others
          /\ \A m \in 1..Len(c.token) : query'[c.from + m - 1] = c.token[m]
          /\ c.from = 1 \/ Between(c.from - 1)'
          /\ Between(Last(c) + 1)'
    BY <1>5, <2>1, <2>2, <2>6
  <2> QED BY <1>3, <2>3, <2>4, <2>5, <2>7 DEF TextInv
<1>9. PositionInv'
  BY <1>1, <1>2, <1>3 DEF PositionInv
<1>10. OutputInv'
  <2>1. kept = {} /\ masks = {}
    BY <1>1 DEF RedactionInv, OutputInv
  <2>2. \A c \in pieces' : c.from \in Nat \ {0}
    BY <1>1, <1>2, <1>4, <1>5
  <2> QED BY <1>2, <2>1, <2>2 DEF OutputInv, CutTextLeaksNothing
<1> QED BY <1>8, <1>9, <1>10 DEF RedactionInv

(* The scan of a text begins at its first token.                           *)
LEMMA SnapshotKeeps ==
  ASSUME RedactionInv, NEW m \in 0..Len(query), RedactSnapshot(m)
  PROVE  RedactionInv'
<1>1. /\ TextInv /\ Len(query) \in Nat /\ length = 0 /\ position = 1
      /\ query' = query /\ pieces' = pieces /\ kept' = kept /\ masks' = masks
      /\ length' = m /\ position' = 1 /\ mode' = "scan"
  BY DEF RedactionInv, PositionInv, TextInv, RedactSnapshot
<1>2. TextInv'
  BY <1>1 DEF TextInv, Between
<1>3. AtRest(1)'
  <2>1. CASE m = 0
    BY <1>1, <2>1 DEF AtRest, Leftover
  <2>2. CASE m # 0
    <3>1. 1 \in 1..Len(query)
      BY <1>1, <2>2
    <3>2. Between(1) \/ \E c \in pieces : c.from = 1
      <4>1. ASSUME NEW c \in pieces, 1 \in Places(c)
            PROVE  c.from = 1
        <5>1. c.from \in Nat \ {0}
          BY <1>1 DEF TextInv
        <5> QED BY <4>1, <5>1 DEF Places
      <4> QED BY <1>1, <3>1, <4>1 DEF TextInv
    <3> QED BY <1>1, <3>2 DEF AtRest, Between
  <2> QED BY <2>1, <2>2
<1>4. PositionInv'
  BY <1>1, <1>3 DEF PositionInv
<1>5. OutputInv'
  <2>1. kept = {} /\ masks = {}
    BY <1>1 DEF RedactionInv, OutputInv
  <2>2. \A c \in pieces : c.from \in Nat \ {0}
    BY <1>1 DEF TextInv
  <2> QED BY <1>1, <2>1, <2>2 DEF OutputInv, CutTextLeaksNothing
<1> QED BY <1>2, <1>4, <1>5 DEF RedactionInv

(* A text begins without a token, and nothing is written.                  *)
LEMMA RedactionInitially ==
  ASSUME RedactionInit
  PROVE  RedactionInv
<1>1. /\ query \in Seq(Separators) /\ query \in Seq(Symbols)
      /\ pieces = {} /\ mode = "writing" /\ length = 0 /\ position = 1
      /\ kept = {} /\ masks = {}
  <2>1. query \in Seq(Separators)
    <3>1. CASE query \in Gaps
      BY <3>1, RedactionAssumption
    <3>2. CASE query = <<>>
      BY <3>2
    <3> QED BY <3>1, <3>2 DEF RedactionInit
  <2>2. Separators \subseteq Symbols
    BY RedactionAssumption
  <2>3. query \in Seq(Symbols)
    BY <2>1, <2>2
  <2> QED BY <2>1, <2>3 DEF RedactionInit
<1>2. TextInv
  <2>1. Len(query) \in Nat /\ \A p \in 1..Len(query) : Between(p)
    BY <1>1 DEF Between
  <2> QED BY <1>1, <2>1 DEF TextInv
<1>3. PositionInv
  BY <1>1 DEF PositionInv
<1>4. OutputInv
  BY <1>1 DEF OutputInv, CutTextLeaksNothing
<1> QED BY <1>2, <1>3, <1>4 DEF RedactionInv

(* Every step of author, database and scan keeps the invariant.            *)
LEMMA RedactionStep ==
  ASSUME RedactionInv, [RedactionNext]_redactionVars
  PROVE  RedactionInv'
<1>1. ASSUME NEW token \in Literals \union Others, NEW gap \in Gaps, Write(token, gap)
      PROVE  RedactionInv'
  BY <1>1, WritingKeeps
<1>2. ASSUME NEW m \in 0..Len(query), RedactSnapshot(m)
      PROVE  RedactionInv'
  BY <1>2, SnapshotKeeps
<1>3. CASE Scan
  <2>1. CASE Scanning("scan")
    BY <1>3, <2>1, OuterTurn
  <2>2. CASE mode = "quote"
    BY <1>3, <2>2, InnerTurn
  <2>3. CASE Finish
    <3>1. /\ query' = query /\ pieces' = pieces /\ length' = length /\ position' = position
          /\ kept' = kept /\ masks' = masks /\ mode' = "done" /\ position > length
      BY <2>3 DEF Finish
    <3>2. position' \in 1..(length + 1)
      BY <3>1 DEF RedactionInv, PositionInv
    <3>3. TextInv' /\ PositionInv'
      BY <3>1, <3>2, SameText
    <3>4. OutputInv'
      BY <3>1 DEF RedactionInv, OutputInv, CutTextLeaksNothing
    <3> QED BY <3>3, <3>4 DEF RedactionInv
  <2>4. Finish \/ Scanning("scan") \/ mode = "quote"
    BY <1>3 DEF Scan, Scanning, SkipPlaceholder, MaskDollarQuote, MaskPrefixedString, MaskString,
       MaskNumber, CopySymbol, SkipDoubledQuote, CloseString, SkipQuoted, TextEndsInString
  <2> QED BY <2>1, <2>2, <2>3, <2>4
<1>4. CASE UNCHANGED redactionVars
  <2>1. /\ query' = query /\ pieces' = pieces /\ length' = length /\ position' = position
        /\ kept' = kept /\ masks' = masks /\ mode' = mode
    BY <1>4 DEF redactionVars
  <2>2. TextInv'
    BY <2>1 DEF RedactionInv, TextInv, Between
  <2>3. AtRest(position)' = AtRest(position) /\ Leftover(position)' = Leftover(position)
        /\ InString(position)' = InString(position)
    BY <2>1 DEF AtRest, Leftover, Harmless, Between, InString
  <2>4. PositionInv'
    BY <2>1, <2>3 DEF RedactionInv, PositionInv
  <2>5. OutputInv'
    BY <2>1 DEF RedactionInv, OutputInv, CutTextLeaksNothing
  <2> QED BY <2>2, <2>4, <2>5 DEF RedactionInv
<1> QED BY <1>1, <1>2, <1>3, <1>4 DEF RedactionNext

(* Where the scan is, and what it has written, is what the author's tokens *)
(* ask for, after every turn.                                              *)
THEOREM RedactionInductive == RedactionSpec => []RedactionInv
<1>1. RedactionInit => RedactionInv
  BY RedactionInitially
<1>2. RedactionInv /\ [RedactionNext]_redactionVars => RedactionInv'
  BY RedactionStep
<1> QED BY <1>1, <1>2, PTL DEF RedactionSpec

(* Every literal is masked, and nothing else changed, in a text of any     *)
(* length, of any tokens of the shapes, cut anywhere.                      *)
THEOREM MasksLiterals == RedactionSpec => []LiteralsAreMasked
<1>1. RedactionInv => LiteralsAreMasked
  <2> SUFFICES ASSUME RedactionInv, mode = "done"
               PROVE  LiteralsAreMasked
    BY DEF LiteralsAreMasked
  <2>1. CutText /\ length \in Nat /\ position > length /\ position \in 1..(length + 1) /\ OutputInv
    BY Texts DEF RedactionInv, PositionInv, CutText
  <2>2. \A c \in pieces : IsLiteral(c) /\ Last(c) <= length => c.from < position
    <3> SUFFICES ASSUME NEW c \in pieces, IsLiteral(c), Last(c) <= length
                 PROVE  c.from < position
      OBVIOUS
    <3>1. c.from \in Places(c) /\ c.from \in Nat /\ Last(c) \in Int
      BY <2>1, LiteralBegins, Extent
    <3> QED BY <2>1, <3>1 DEF Places
  <2>3. \A p \in 1..length : p \in 1..(position - 1)
    BY <2>1
  <2> QED BY <2>1, <2>2, <2>3 DEF LiteralsAreMasked, OutputInv
<1> QED BY <1>1, RedactionInductive, PTL

(* Nothing secret is copied, wherever the database cuts the text.          *)
THEOREM CutTextIsSafe == RedactionSpec => []CutTextLeaksNothing
<1>1. RedactionInv => CutTextLeaksNothing
  BY DEF RedactionInv, OutputInv
<1> QED BY <1>1, RedactionInductive, PTL
=============================================================================
