--------------------------- MODULE Insights_proofs ---------------------------
(***************************************************************************)
(* Proofs about what an insights report makes of counters that go on       *)
(* counting, for any number of tables and any length of time: the verdict  *)
(* on unused indexes for any number of requests, the rates for one request *)
(* at a time.                                                              *)
(***************************************************************************)
EXTENDS Insights, FiniteSetTheorems, TLAPS

(* FetchInsights of one request after another.                             *)
OneRequest == \A r, s \in Request : r = s

LEMMA ConstantsType ==
  /\ MinStatsAge \in Nat /\ MaxScans \in Nat /\ MinStatsAge > 0
  /\ Never \notin Int
  /\ \A r \in Request : r \notin Table
BY InsightsAssumption
-----------------------------------------------------------------------------
(* The age of the statistics. Since the counters were last reset, or       *)
(* the server started, every scan has been counted; and a request that has *)
(* read the age and no reset since knows no more than the true one.        *)
Since == IF statsReset = Never THEN started ELSE statsReset
ScannedSince == {t \in scanned : t > Since}

ClockType ==
    /\ engine \in {"postgres", "mysql"}
    /\ now \in Nat
    /\ started \in 0..now
    /\ statsReset = Never \/ statsReset \in 0..now
    /\ scanned \subseteq 0..now
    /\ scans \in Nat
    /\ at \in [Request -> Stage]
    /\ age \in [Request -> Int]

NoScansInMySQL == engine = "mysql" => scanned = {}
ScansCounted == Cardinality(ScannedSince) <= scans
AgeIsTrue == \A r \in Request : at[r] = "aged" /\ r \notin reset => Since + age[r] <= now

ClockInv == ClockType /\ NoScansInMySQL /\ ScansCounted /\ AgeIsTrue

(* A part of what was scanned is finite.                                   *)
LEMMA ScannedFinite ==
  ASSUME ClockType, NEW few \in SUBSET scanned
  PROVE  IsFiniteSet(few) /\ Cardinality(few) \in Nat
<1>1. IsFiniteSet(0..now)
  BY FS_Interval DEF ClockType
<1>2. few \subseteq 0..now
  BY DEF ClockType
<1> QED BY <1>1, <1>2, FS_Subset, FS_CardinalityType

LEMMA SinceType ==
  ASSUME ClockType
  PROVE  Since \in 0..now /\ SecondsSinceReset = now - Since
BY ConstantsType DEF ClockType, Since, SecondsSinceReset

(* Later fewer moments are past.                                           *)
LEMMA LaterIsLess ==
  ASSUME NEW moments \in SUBSET Int, NEW m \in Int, NEW n \in Int
  PROVE  /\ m <= n => {t \in moments : t > n} \subseteq {t \in moments : t > m}
         /\ moments \subseteq 0..n => {t \in moments : t > n} = {}
<1>1. ASSUME m <= n, NEW t \in moments, t > n
      PROVE  t > m
  BY <1>1
<1>2. ASSUME moments \subseteq 0..n, NEW t \in moments
      PROVE  ~(t > n)
  BY <1>2
<1> QED BY <1>1, <1>2

LEMMA ClockInitInv == Init => ClockInv
<1> SUFFICES ASSUME Init PROVE ClockInv
  OBVIOUS
<1>1. ClockType /\ NoScansInMySQL
  BY DEF Init, ClockType, NoScansInMySQL, Stage
<1>2. ScannedSince = {} /\ scans = 0
  BY DEF Init, ScannedSince
<1>3. ScansCounted
  BY <1>2, FS_EmptySet DEF ScansCounted
<1>4. AgeIsTrue
  BY DEF Init, AgeIsTrue
<1> QED BY <1>1, <1>3, <1>4 DEF ClockInv

LEMMA TickClock ==
  ASSUME ClockInv, Tick
  PROVE  ClockInv'
<1> USE DEF ClockInv
<1>1. ClockType'
  BY DEF ClockType, Tick, requestVars
<1>2. Since' = Since /\ ScannedSince' = ScannedSince
  BY DEF Tick, Since, ScannedSince
<1>3. NoScansInMySQL' /\ ScansCounted'
  BY <1>2 DEF Tick, NoScansInMySQL, ScansCounted
<1>4. AgeIsTrue'
  BY <1>2, SinceType DEF Tick, AgeIsTrue, ClockType, requestVars
<1> QED BY <1>1, <1>3, <1>4

LEMMA ScanClock ==
  ASSUME ClockInv, Scan
  PROVE  ClockInv'
<1> USE DEF ClockInv
<1>1. ClockType' /\ NoScansInMySQL'
  BY DEF ClockType, NoScansInMySQL, Scan, requestVars
<1>2. Since' = Since
  BY DEF Scan, Since
<1>3. ScannedSince' \subseteq ScannedSince \cup {now}
  BY <1>2 DEF Scan, ScannedSince
<1>4. IsFiniteSet(ScannedSince) /\ Cardinality(ScannedSince) \in Nat
  BY ScannedFinite DEF ScannedSince
<1>5. /\ IsFiniteSet(ScannedSince \cup {now})
      /\ Cardinality(ScannedSince \cup {now}) <= Cardinality(ScannedSince) + 1
  BY <1>4, FS_AddElement
<1>6. /\ Cardinality(ScannedSince') <= Cardinality(ScannedSince \cup {now})
      /\ Cardinality(ScannedSince') \in Nat
      /\ Cardinality(ScannedSince \cup {now}) \in Nat
  BY <1>3, <1>5, FS_Subset, FS_CardinalityType
<1>7. ScansCounted'
  BY <1>4, <1>5, <1>6 DEF Scan, ScansCounted, ClockType
<1>8. AgeIsTrue'
  BY <1>2 DEF Scan, AgeIsTrue, requestVars
<1> QED BY <1>1, <1>7, <1>8

LEMMA ResetStatisticsClock ==
  ASSUME ClockInv, ResetStatistics
  PROVE  ClockInv'
<1> USE DEF ClockInv
<1>1. ClockType' /\ NoScansInMySQL'
  BY DEF ClockType, NoScansInMySQL, ResetStatistics, ResetCounters, requestVars
<1>2. ScannedSince' = {}
  <2>1. CASE engine = "postgres"
    <3>1. Since' = now
      BY <2>1, ConstantsType DEF ResetStatistics, ResetCounters, Since, ClockType
    <3>2. scanned' = scanned /\ scanned \subseteq 0..now /\ now \in Int
      BY DEF ResetStatistics, ClockType
    <3> QED BY <3>1, <3>2, LaterIsLess DEF ScannedSince
  <2>2. CASE engine # "postgres"
    <3>1. scanned' = {}
      BY <2>2 DEF ResetStatistics, NoScansInMySQL, ClockType
    <3> QED BY <3>1 DEF ScannedSince
  <2> QED BY <2>1, <2>2
<1>3. ScansCounted'
  BY <1>2, FS_EmptySet DEF ScansCounted, ResetStatistics, ResetCounters
<1>4. AgeIsTrue'
  BY DEF AgeIsTrue, ResetStatistics, ResetCounters, Busy, requestVars, ClockType
<1> QED BY <1>1, <1>3, <1>4

LEMMA RestartServerClock ==
  ASSUME ClockInv, RestartServer
  PROVE  ClockInv'
<1> USE DEF ClockInv
<1>1. /\ now' = now /\ scanned' = scanned /\ engine' = engine /\ at' = at /\ age' = age
      /\ Busy = {}
  BY DEF RestartServer, requestVars
<1>2. AgeIsTrue'
  BY <1>1 DEF AgeIsTrue, Busy
<1>3. CASE engine = "postgres"
  <2>1. started' = now /\ scans' = scans /\ statsReset' = statsReset
    BY <1>3 DEF RestartServer
  <2>2. ClockType' /\ NoScansInMySQL'
    BY <1>1, <2>1 DEF ClockType, NoScansInMySQL
  <2>3. Since <= Since'
    BY <2>1, ConstantsType DEF Since, ClockType
  <2>4. ScannedSince' \subseteq ScannedSince
    <3>1. Since \in Int /\ Since' \in Int /\ scanned \subseteq Int
      BY <2>2, SinceType DEF ClockType, Since
    <3> QED BY <1>1, <2>3, <3>1, LaterIsLess DEF ScannedSince
  <2>5. IsFiniteSet(ScannedSince)
    BY ScannedFinite DEF ScannedSince
  <2>6. /\ Cardinality(ScannedSince') <= Cardinality(ScannedSince)
        /\ Cardinality(ScannedSince') \in Nat /\ Cardinality(ScannedSince) \in Nat
    BY <2>4, <2>5, FS_Subset, FS_CardinalityType
  <2>7. ScansCounted'
    BY <2>1, <2>6 DEF ScansCounted, ClockType
  <2> QED BY <1>2, <2>2, <2>7
<1>4. CASE engine = "mysql"
  <2>1. started' = started /\ scans' = 0 /\ statsReset' = Never
    BY <1>4 DEF RestartServer, ResetCounters
  <2>2. ClockType' /\ NoScansInMySQL'
    BY <1>1, <2>1 DEF ClockType, NoScansInMySQL
  <2>3. ScannedSince' = {}
    BY <1>1, <1>4 DEF ScannedSince, NoScansInMySQL
  <2>4. ScansCounted'
    BY <2>1, <2>3, FS_EmptySet DEF ScansCounted
  <2> QED BY <1>2, <2>2, <2>4
<1> QED BY <1>3, <1>4 DEF ClockType

LEMMA BeginPostgresClock ==
  ASSUME ClockInv, NEW r \in Request, BeginPostgres(r)
  PROVE  ClockInv'
<1> USE DEF ClockInv
<1>1. SecondsSinceReset = now - Since /\ Since \in 0..now /\ now \in Nat
  BY SinceType DEF ClockType
<1>2. ClockType' /\ NoScansInMySQL'
  <2>1. age' = [age EXCEPT ![r] = now - Since] /\ at' = [at EXCEPT ![r] = "aged"]
    BY <1>1 DEF BeginPostgres
  <2> QED BY <1>1, <2>1 DEF ClockType, NoScansInMySQL, BeginPostgres, databaseVars, Stage
<1>3. Since' = Since /\ ScannedSince' = ScannedSince
  BY DEF BeginPostgres, databaseVars, Since, ScannedSince
<1>4. ScansCounted'
  BY <1>3 DEF ScansCounted, BeginPostgres, databaseVars
<1>5. AgeIsTrue'
  <2> SUFFICES ASSUME NEW s \in Request, at'[s] = "aged", s \notin reset'
               PROVE  Since + age'[s] <= now
    BY <1>3 DEF AgeIsTrue, BeginPostgres, databaseVars
  <2>1. CASE s = r
    BY <1>1, <2>1 DEF BeginPostgres, ClockType
  <2>2. CASE s # r
    BY <2>2 DEF BeginPostgres, AgeIsTrue, ClockType
  <2> QED BY <2>1, <2>2
<1> QED BY <1>2, <1>4, <1>5

(* What leaves the database and its scans alone, and to no request that    *)
(* goes on does anything about the age it has read.                        *)
LEMMA OtherClock ==
  ASSUME ClockInv, UNCHANGED <<engine, now, started, statsReset, scans, scanned>>,
         at' \in [Request -> Stage], age' \in [Request -> Int],
         \A r \in Request : at'[r] = "aged" /\ r \notin reset' =>
            at[r] = "aged" /\ r \notin reset /\ age'[r] = age[r]
  PROVE  ClockInv'
<1>1. ClockType' /\ NoScansInMySQL'
  BY DEF ClockInv, ClockType, NoScansInMySQL
<1>2. Since' = Since /\ ScannedSince' = ScannedSince
  BY DEF Since, ScannedSince
<1>3. ScansCounted'
  BY <1>2 DEF ClockInv, ScansCounted
<1>4. AgeIsTrue'
  BY <1>2 DEF ClockInv, AgeIsTrue
<1> QED BY <1>1, <1>3, <1>4 DEF ClockInv

LEMMA ClockSpecInv == Spec => []ClockInv
<1>1. ASSUME ClockInv, [Next]_vars
      PROVE  ClockInv'
  <2> USE <1>1 DEF databaseVars, requestVars, collectorVars
  <2>1. at \in [Request -> Stage] /\ age \in [Request -> Int]
    BY DEF ClockInv, ClockType
  <2>2. CASE Database
    <3>1. ASSUME NEW t \in Table, Write(t)
          PROVE  ClockInv'
      BY <2>1, <3>1, OtherClock DEF Write
    <3> QED BY <2>2, <3>1, TickClock, ScanClock, ResetStatisticsClock, RestartServerClock
            DEF Database
  <2>3. ASSUME NEW r \in Request, FetchInsights(r)
        PROVE  ClockInv'
    <3>1. CASE BeginPostgres(r)
      BY <3>1, BeginPostgresClock
    <3>2. CASE FetchUnusedIndexes(r)
      BY <2>1, <3>2, OtherClock DEF FetchUnusedIndexes, Stage
    <3>3. CASE FetchRaw(r)
      <4>1. PICK stage \in Stage \ {"aged"} : at' = [at EXCEPT ![r] = stage]
        BY <3>3 DEF FetchRaw, Stage
      <4>2. reset' = reset \ {r} /\ age' = age
        BY <3>3 DEF FetchRaw
      <4> QED BY <2>1, <3>3, <4>1, <4>2, OtherClock DEF FetchRaw
    <3>4. CASE BeginCycle(r)
      BY <2>1, <3>4, OtherClock DEF BeginCycle, Stage
    <3>5. ASSUME NEW t \in Table, WritesPerSecond(r, t)
          PROVE  ClockInv'
      <4>1. \A s \in Request : s \in reset => s \in reset'
        BY <3>5, ConstantsType DEF WritesPerSecond
      <4> QED BY <2>1, <3>5, <4>1, OtherClock DEF WritesPerSecond
    <3>6. CASE AllJudged(r)
      BY <2>1, <3>6, OtherClock DEF AllJudged, Stage
    <3>7. CASE EndFetch(r)
      BY <2>1, <3>7, OtherClock DEF EndFetch, Stage
    <3> QED BY <2>3, <3>1, <3>2, <3>3, <3>4, <3>5, <3>6, <3>7 DEF FetchInsights
  <2>4. CASE UNCHANGED vars
    BY <2>1, <2>4, OtherClock DEF vars
  <2> QED BY <2>2, <2>3, <2>4 DEF Next
<1> QED BY <1>1, ClockInitInv, PTL DEF Spec

(* An index that FetchUnusedIndexes reads and DetectUnusedIndexes reports  *)
(* has been scanned MaxScans times at most in the last MinStatsAge, for    *)
(* any number of requests, restarts and resets, unless a reset fell        *)
(* between the two readings of one request.                                *)
THEOREM UnusedIsUnused == Spec => UnusedForLong
<1>1. ASSUME ClockInv, NEW r \in Request,
             FetchUnusedIndexes(r), Unused(r), r \notin reset
      PROVE  LatelyScanned <= MaxScans
  <2> USE <1>1 DEF ClockInv
  <2> DEFINE lately == {t \in scanned : t > now - MinStatsAge}
  <2>1. Since + age[r] <= now /\ age[r] >= MinStatsAge /\ scans <= MaxScans
    BY DEF AgeIsTrue, FetchUnusedIndexes, Unused
  <2>2. Since \in Int /\ now \in Int /\ age[r] \in Int /\ scanned \subseteq Int
    BY SinceType DEF ClockType
  <2>3. lately \subseteq ScannedSince
    <3>1. now - MinStatsAge \in Int /\ Since <= now - MinStatsAge
      BY <2>1, <2>2, ConstantsType
    <3> QED BY <2>2, <3>1, LaterIsLess DEF ScannedSince
  <2>4. IsFiniteSet(ScannedSince)
    BY ScannedFinite DEF ScannedSince
  <2>5. /\ Cardinality(lately) <= Cardinality(ScannedSince)
        /\ Cardinality(lately) \in Nat /\ Cardinality(ScannedSince) \in Nat
    BY <2>3, <2>4, FS_Subset, FS_CardinalityType
  <2>6. Cardinality(lately) <= MaxScans
    <3> HIDE DEF lately
    <3> QED BY <2>1, <2>5, ConstantsType DEF ScansCounted, ClockType
  <2> QED BY <2>6 DEF LatelyScanned
<1>2. ClockInv => (\A r \in Request :
         FetchUnusedIndexes(r) /\ Unused(r) /\ r \notin reset => LatelyScanned <= MaxScans)
  BY <1>1
<1> QED BY <1>2, ClockSpecInv, PTL DEF Spec, UnusedForLong
-----------------------------------------------------------------------------
(* The counters of one request. Where no reset came between, a counter     *)
(* that was kept is no larger than one read later, and that one no larger  *)
(* than the counter is now.                                                *)
Fetching == {r \in Request : at[r] \in {"raw", "cycle"}}

CounterType ==
    /\ writes \in [Table -> Nat]
    /\ lastWriteOps \in [Table -> Nat \cup {Never}]
    /\ at \in [Request -> Stage]
    /\ todo \in [Request -> SUBSET Table]
    /\ DOMAIN raw = Request
    /\ \A r \in Fetching : \A t \in todo[r] : raw[r][t] \in Nat

KeptIsPast == \A t \in Table : lastWriteOps[t] # Never /\ t \notin reset => lastWriteOps[t] <= writes[t]
ReadIsPast == \A r \in Fetching : r \notin reset => \A t \in todo[r] : raw[r][t] <= writes[t]
KeptBeforeRead ==
    \A r \in Fetching : \A t \in todo[r] :
        lastWriteOps[t] # Never /\ {r, t} \cap reset = {} => lastWriteOps[t] <= raw[r][t]

CounterInv == CounterType /\ KeptIsPast /\ ReadIsPast /\ KeptBeforeRead

LEMMA CounterInitInv == Init => CounterInv
BY DEF Init, CounterInv, CounterType, KeptIsPast, ReadIsPast, KeptBeforeRead, Fetching,
       Stage, NoCandidates

(* Counters that only count, and requests that move on without reading any.*)
LEMMA CountingKeepsCounters ==
  ASSUME CounterInv,
         writes' \in [Table -> Nat], \A t \in Table : writes[t] <= writes'[t],
         at' \in [Request -> Stage], todo' \in [Request -> SUBSET Table],
         DOMAIN raw' = Request, lastWriteOps' = lastWriteOps,
         \A t \in Table : t \notin reset' => t \notin reset,
         \A r \in Fetching' : /\ r \in Fetching /\ todo'[r] = todo[r] /\ raw'[r] = raw[r]
                              /\ (r \notin reset' => r \notin reset)
  PROVE  CounterInv'
<1> USE DEF CounterInv
<1>1. \A r \in Fetching' : \A t \in todo'[r] : r \in Fetching /\ t \in todo[r] /\ t \in Table
  <2>1. \A r \in Fetching : todo[r] \subseteq Table
    BY DEF CounterType, Fetching
  <2> QED BY <2>1
<1>2. CounterType'
  BY <1>1 DEF CounterType
<1>3. KeptIsPast'
  BY DEF CounterType, KeptIsPast
<1>4. ReadIsPast'
  BY <1>1 DEF CounterType, ReadIsPast
<1>5. KeptBeforeRead'
  BY <1>1 DEF KeptBeforeRead
<1> QED BY <1>2, <1>3, <1>4, <1>5

(* A reset is remembered of whoever knows a counter.                       *)
LEMMA ResetCountersCounters ==
  ASSUME CounterInv, ResetCounters,
         UNCHANGED <<at, todo, raw, lastWriteOps>>
  PROVE  CounterInv'
<1> USE DEF CounterInv
<1>1. writes' = [t \in Table |-> 0] /\ reset' = reset \cup Busy \cup Measured
  BY DEF ResetCounters
<1>2. Fetching' = Fetching /\ Fetching \subseteq Busy
  BY DEF Fetching, Busy
<1>3. CounterType'
  BY <1>1, <1>2 DEF CounterType
<1>4. KeptIsPast'
  BY <1>1 DEF KeptIsPast, Measured
<1>5. ReadIsPast' /\ KeptBeforeRead'
  BY <1>1, <1>2 DEF ReadIsPast, KeptBeforeRead
<1> QED BY <1>3, <1>4, <1>5

LEMMA FetchRawCounters ==
  ASSUME CounterInv, NEW r \in Request, FetchRaw(r)
  PROVE  CounterInv'
<1> USE DEF CounterInv
<1>1. PICK list \in SUBSET Table :
         /\ raw' = [raw EXCEPT ![r] = [t \in list |-> writes[t]]]
         /\ todo' = [todo EXCEPT ![r] = list]
         /\ at' = [at EXCEPT ![r] = IF list = {} THEN "rest" ELSE "raw"]
  BY DEF FetchRaw
<1>2. /\ writes' = writes /\ lastWriteOps' = lastWriteOps /\ reset' = reset \ {r}
      /\ \A t \in Table : t \in reset' <=> t \in reset
  BY ConstantsType DEF FetchRaw, databaseVars
<1>3. raw'[r] = [t \in list |-> writes[t]] /\ todo'[r] = list
  BY <1>1 DEF CounterType
<1>4. \A s \in Fetching' : s # r =>
         /\ s \in Fetching /\ todo'[s] = todo[s] /\ raw'[s] = raw[s]
         /\ (s \in reset' <=> s \in reset)
  BY <1>1, <1>2 DEF Fetching, CounterType
<1>5. CounterType'
  <2>1. todo' \in [Request -> SUBSET Table] /\ at' \in [Request -> Stage] /\ DOMAIN raw' = Request
    BY <1>1 DEF CounterType, Stage
  <2>2. \A s \in Fetching' : \A t \in todo'[s] : raw'[s][t] \in Nat
    BY <1>3, <1>4 DEF CounterType, Fetching
  <2> QED BY <1>2, <2>1, <2>2 DEF CounterType
<1>6. KeptIsPast'
  BY <1>2 DEF KeptIsPast
<1>7. ReadIsPast'
  <2> SUFFICES ASSUME NEW s \in Fetching', s \notin reset', NEW t \in todo'[s]
               PROVE  raw'[s][t] <= writes[t]
    BY <1>2 DEF ReadIsPast
  <2>1. CASE s = r
    BY <1>3, <2>1 DEF CounterType
  <2>2. CASE s # r
    BY <1>4, <2>2 DEF ReadIsPast
  <2> QED BY <2>1, <2>2
<1>8. KeptBeforeRead'
  <2> SUFFICES ASSUME NEW s \in Fetching', NEW t \in todo'[s],
                      lastWriteOps[t] # Never, {s, t} \cap reset' = {}
               PROVE  lastWriteOps[t] <= raw'[s][t]
    BY <1>2 DEF KeptBeforeRead
  <2>1. CASE s = r
    <3>1. t \in Table /\ raw'[s][t] = writes[t]
      BY <1>3, <2>1
    <3>2. t \notin reset
      BY <1>2, <3>1
    <3> QED BY <3>1, <3>2 DEF KeptIsPast
  <2>2. CASE s # r
    <3>1. s \in Fetching /\ t \in todo[s] /\ raw'[s] = raw[s] /\ t \in Table
      BY <1>4, <2>2 DEF CounterType, Fetching
    <3>2. {s, t} \cap reset = {}
      BY <1>2, <1>4, <2>2, <3>1
    <3> QED BY <3>1, <3>2 DEF KeptBeforeRead
  <2> QED BY <2>1, <2>2
<1> QED BY <1>5, <1>6, <1>7, <1>8

(* The counter that is kept is the one this request has read: no other     *)
(* request has one it read earlier.                                        *)
LEMMA WritesPerSecondCounters ==
  ASSUME OneRequest, CounterInv, NEW r \in Request, NEW t \in Table, WritesPerSecond(r, t)
  PROVE  CounterInv'
<1> USE DEF CounterInv
<1>1. /\ r \in Fetching /\ t \in todo[r]
      /\ lastWriteOps' = [lastWriteOps EXCEPT ![t] = raw[r][t]]
      /\ todo' = [todo EXCEPT ![r] = @ \ {t}]
      /\ reset' = IF r \in reset THEN reset \cup {t} ELSE reset \ {t}
      /\ writes' = writes /\ at' = at /\ raw' = raw
  BY DEF WritesPerSecond, Fetching, databaseVars
<1>2. /\ \A s \in Request : s \in reset' <=> s \in reset
      /\ \A u \in Table \ {t} : u \in reset' <=> u \in reset
      /\ t \in reset' <=> r \in reset
  BY <1>1, ConstantsType
<1>3. /\ Fetching' = Fetching
      /\ \A s \in Fetching : s = r /\ todo'[s] = todo[s] \ {t}
  <2>1. Fetching' = Fetching
    BY <1>1 DEF Fetching
  <2> QED BY <1>1, <2>1 DEF Fetching, OneRequest, CounterType
<1>4. raw[r][t] \in Nat /\ (r \notin reset => raw[r][t] <= writes[t])
  BY <1>1 DEF CounterType, ReadIsPast
<1>5. CounterType'
  BY <1>1, <1>3, <1>4 DEF CounterType
<1>6. KeptIsPast'
  <2> SUFFICES ASSUME NEW u \in Table, lastWriteOps'[u] # Never, u \notin reset'
               PROVE  lastWriteOps'[u] <= writes[u]
    BY <1>1 DEF KeptIsPast
  <2>1. CASE u = t
    BY <1>1, <1>2, <1>4, <2>1 DEF CounterType
  <2>2. CASE u # t
    BY <1>1, <1>2, <2>2 DEF CounterType, KeptIsPast
  <2> QED BY <2>1, <2>2
<1>7. ReadIsPast'
  BY <1>1, <1>2, <1>3 DEF ReadIsPast, Fetching
<1>8. KeptBeforeRead'
  <2> SUFFICES ASSUME NEW s \in Fetching, NEW u \in todo[s] \ {t},
                      lastWriteOps'[u] # Never, {s, u} \cap reset' = {}
               PROVE  lastWriteOps'[u] <= raw[s][u]
    BY <1>1, <1>3 DEF KeptBeforeRead
  <2>1. u \in Table /\ s \in Request
    BY DEF CounterType, Fetching
  <2>2. lastWriteOps'[u] = lastWriteOps[u] /\ {s, u} \cap reset = {}
    BY <1>1, <1>2, <2>1 DEF CounterType
  <2> QED BY <2>2 DEF KeptBeforeRead
<1> QED BY <1>5, <1>6, <1>7, <1>8

LEMMA CounterSpecInv ==
  ASSUME OneRequest
  PROVE  Spec => []CounterInv
<1>1. ASSUME CounterInv, [Next]_vars
      PROVE  CounterInv'
  <2> USE <1>1 DEF databaseVars, requestVars, collectorVars
  <2>1. /\ writes \in [Table -> Nat] /\ at \in [Request -> Stage]
        /\ todo \in [Request -> SUBSET Table] /\ DOMAIN raw = Request
    BY DEF CounterInv, CounterType
  <2>2. CASE Database
    <3>1. CASE Tick \/ Scan
      BY <2>1, <3>1, CountingKeepsCounters DEF Tick, Scan, Fetching
    <3>2. ASSUME NEW t \in Table, Write(t)
          PROVE  CounterInv'
      BY <2>1, <3>2, CountingKeepsCounters DEF Write, Fetching
    <3>3. CASE ResetStatistics
      BY <3>3, ResetCountersCounters DEF ResetStatistics
    <3>4. CASE RestartServer
      <4>1. CASE engine = "postgres"
        BY <2>1, <3>4, <4>1, CountingKeepsCounters DEF RestartServer, Fetching
      <4>2. CASE engine # "postgres"
        BY <3>4, <4>2, ResetCountersCounters DEF RestartServer
      <4> QED BY <4>1, <4>2
    <3> QED BY <2>2, <3>1, <3>2, <3>3, <3>4 DEF Database
  <2>3. ASSUME NEW r \in Request, FetchInsights(r)
        PROVE  CounterInv'
    <3>1. CASE BeginPostgres(r)
      BY <2>1, <3>1, ConstantsType, CountingKeepsCounters DEF BeginPostgres, Fetching, Stage
    <3>2. CASE FetchUnusedIndexes(r)
      BY <2>1, <3>2, CountingKeepsCounters DEF FetchUnusedIndexes, Fetching, Stage
    <3>3. CASE FetchRaw(r)
      BY <3>3, FetchRawCounters
    <3>4. CASE BeginCycle(r)
      BY <2>1, <3>4, CountingKeepsCounters DEF BeginCycle, Fetching, Stage
    <3>5. ASSUME NEW t \in Table, WritesPerSecond(r, t)
          PROVE  CounterInv'
      BY <3>5, WritesPerSecondCounters
    <3>6. CASE AllJudged(r)
      BY <2>1, <3>6, CountingKeepsCounters DEF AllJudged, Fetching, Stage
    <3>7. CASE EndFetch(r)
      BY <2>1, <3>7, ConstantsType, CountingKeepsCounters DEF EndFetch, Fetching, Stage
    <3> QED BY <2>3, <3>1, <3>2, <3>3, <3>4, <3>5, <3>6, <3>7 DEF FetchInsights
  <2>4. CASE UNCHANGED vars
    BY <2>1, <2>4, CountingKeepsCounters DEF vars, Fetching
  <2> QED BY <2>2, <2>3, <2>4 DEF Next
<1> QED BY <1>1, CounterInitInv, PTL DEF Spec

(* The write rate of a candidate is never negative, for any number of      *)
(* tables, where no reset came between and requests follow one another     *)
(* (WritesPerSecond in the MySQL IndexCandidateCollector). Of two that     *)
(* overlap it may be: MCInsightsOverlap shows how.                         *)
THEOREM RatesAreRates ==
  ASSUME OneRequest
  PROVE  Spec => RatesNeverNegative
<1>1. ASSUME CounterInv, NEW r \in Request, NEW t \in Table,
             WritesPerSecond(r, t), Measurable(r, t), Undisturbed(r, t)
      PROVE  Difference(r, t) >= 0
  <2>1. r \in Fetching /\ t \in todo[r] /\ lastWriteOps[t] # Never
    BY <1>1 DEF WritesPerSecond, Measurable, Fetching
  <2>2. lastWriteOps[t] <= raw[r][t] /\ raw[r][t] \in Nat /\ lastWriteOps[t] \in Nat
    BY <1>1, <2>1 DEF CounterInv, CounterType, KeptBeforeRead, Undisturbed
  <2> QED BY <2>2 DEF Difference
<1>2. CounterInv => (\A r \in Request, t \in Table :
         WritesPerSecond(r, t) /\ Measurable(r, t) /\ Undisturbed(r, t) => Difference(r, t) >= 0)
  BY <1>1
<1> QED BY <1>2, CounterSpecInv, PTL DEF Spec, RatesNeverNegative
-----------------------------------------------------------------------------
(* The intervals of one request. A cycle begins lag after its counters     *)
(* were read, and those it has kept have been kept since then. What its    *)
(* own cycle found fresh was read no earlier than the length of the last   *)
(* cycle and its lag before.                                               *)
Cycling == {r \in Request : at[r] = "cycle"}

IntervalType ==
    /\ now \in Nat
    /\ at \in [Request -> Stage]
    /\ readAt \in [Request -> 0..now]
    /\ baseline \in [Table -> Int]
    /\ lag \in Int
    /\ lastMeasured \in Int \cup {Never}
    /\ elapsed \in [Request -> Int]
    /\ todo \in [Request -> SUBSET Table]
    /\ fresh \subseteq Table
    /\ DOMAIN previous = Request
    /\ \A r \in Cycling : previous[r].lag \in Int

BegunLagAfter == \A r \in Cycling : lastMeasured # Never /\ readAt[r] + lag = lastMeasured
FreshSinceThen == \A t \in fresh : lastMeasured # Never /\ baseline[t] + lag = lastMeasured
OneCycleBefore ==
    \A r \in Cycling : \A t \in todo[r] \cap previous[r].fresh :
        readAt[r] - baseline[t] <= elapsed[r] + previous[r].lag

IntervalInv == IntervalType /\ BegunLagAfter /\ FreshSinceThen /\ OneCycleBefore

LEMMA IntervalInitInv == Init => IntervalInv
BY DEF Init, IntervalInv, IntervalType, BegunLagAfter, FreshSinceThen, OneCycleBefore, Cycling,
       Stage, NoCycle

(* Time goes by, and requests move on but into no cycle.                   *)
LEMMA WaitingKeepsIntervals ==
  ASSUME IntervalInv,
         now' \in Nat, now <= now', UNCHANGED <<collectorVars>>,
         at' \in [Request -> Stage], readAt' \in [Request -> 0..now'],
         elapsed' \in [Request -> Int], todo' \in [Request -> SUBSET Table],
         DOMAIN previous' = Request,
         \A r \in Cycling' : /\ r \in Cycling /\ readAt'[r] = readAt[r]
                             /\ todo'[r] = todo[r] /\ previous'[r] = previous[r]
                             /\ elapsed'[r] = elapsed[r]
  PROVE  IntervalInv'
<1> USE DEF IntervalInv, collectorVars
<1>1. IntervalType'
  BY DEF IntervalType
<1>2. BegunLagAfter' /\ FreshSinceThen'
  BY DEF BegunLagAfter, FreshSinceThen
<1>3. OneCycleBefore'
  BY DEF OneCycleBefore
<1> QED BY <1>1, <1>2, <1>3

LEMMA BeginCycleIntervals ==
  ASSUME OneRequest, IntervalInv, NEW r \in Request, BeginCycle(r)
  PROVE  IntervalInv'
<1> USE DEF IntervalInv
<1>1. /\ now' = now /\ readAt' = readAt /\ baseline' = baseline /\ todo' = todo
      /\ at' = [at EXCEPT ![r] = "cycle"]
      /\ elapsed' = [elapsed EXCEPT ![r] = IF lastMeasured = Never THEN 0 ELSE now - lastMeasured]
      /\ lastMeasured' = now
      /\ previous' = [previous EXCEPT ![r] = [fresh |-> fresh, lag |-> lag]]
      /\ fresh' = {}
      /\ lag' = now - readAt[r]
  BY DEF BeginCycle, databaseVars
<1>2. Cycling' = {r}
  BY <1>1 DEF Cycling, OneRequest, IntervalType
<1>3. readAt[r] \in 0..now /\ now \in Nat /\ lag \in Int
  BY DEF IntervalType
<1>4. /\ previous'[r].fresh = fresh /\ previous'[r].lag = lag
      /\ elapsed'[r] = IF lastMeasured = Never THEN 0 ELSE now - lastMeasured
  BY <1>1 DEF IntervalType
<1>5. IntervalType'
  <2>1. elapsed' \in [Request -> Int] /\ at' \in [Request -> Stage]
    BY <1>1, <1>3 DEF IntervalType, Stage
  <2>2. DOMAIN previous' = Request
    BY <1>1 DEF IntervalType
  <2> QED BY <1>1, <1>2, <1>3, <1>4, <2>1, <2>2 DEF IntervalType
<1>6. BegunLagAfter' /\ FreshSinceThen'
  <2>1. now # Never /\ readAt[r] + (now - readAt[r]) = now
    BY <1>3, ConstantsType
  <2> QED BY <1>1, <1>2, <2>1 DEF BegunLagAfter, FreshSinceThen
<1>7. OneCycleBefore'
  <2> SUFFICES ASSUME NEW t \in fresh
               PROVE  readAt[r] - baseline[t] <= elapsed'[r] + lag
    BY <1>1, <1>2, <1>4 DEF OneCycleBefore
  <2>1. /\ lastMeasured # Never /\ baseline[t] + lag = lastMeasured
        /\ lastMeasured \in Int /\ baseline[t] \in Int
    BY DEF FreshSinceThen, IntervalType
  <2> QED BY <1>3, <1>4, <2>1
<1> QED BY <1>5, <1>6, <1>7

LEMMA WritesPerSecondIntervals ==
  ASSUME OneRequest, IntervalInv, NEW r \in Request, NEW t \in Table, WritesPerSecond(r, t)
  PROVE  IntervalInv'
<1> USE DEF IntervalInv
<1>1. /\ now' = now /\ readAt' = readAt /\ at' = at /\ elapsed' = elapsed
      /\ previous' = previous /\ lag' = lag /\ lastMeasured' = lastMeasured
      /\ r \in Cycling
      /\ todo' = [todo EXCEPT ![r] = @ \ {t}]
      /\ baseline' = [baseline EXCEPT ![t] = readAt[r]]
      /\ fresh' = fresh \cup {t}
  BY DEF WritesPerSecond, LastMeasuredAfter, databaseVars, Cycling
<1>2. Cycling' = Cycling /\ Cycling = {r}
  BY <1>1 DEF Cycling, OneRequest
<1>3. todo'[r] = todo[r] \ {t} /\ \A u \in Table \ {t} : baseline'[u] = baseline[u]
  BY <1>1 DEF IntervalType
<1>4. IntervalType'
  <2>1. baseline' \in [Table -> Int] /\ todo' \in [Request -> SUBSET Table] /\ fresh' \subseteq Table
    BY <1>1 DEF IntervalType
  <2> QED BY <1>1, <1>2, <2>1 DEF IntervalType
<1>5. BegunLagAfter'
  BY <1>1, <1>2 DEF BegunLagAfter
<1>6. FreshSinceThen'
  <2> SUFFICES ASSUME NEW u \in fresh \cup {t}
               PROVE  lastMeasured # Never /\ baseline'[u] + lag = lastMeasured
    BY <1>1 DEF FreshSinceThen
  <2>1. CASE u = t
    <3>1. baseline'[t] = readAt[r]
      BY <1>1 DEF IntervalType
    <3> QED BY <1>1, <2>1, <3>1 DEF BegunLagAfter
  <2>2. CASE u # t
    BY <1>3, <2>2 DEF FreshSinceThen, IntervalType
  <2> QED BY <2>1, <2>2
<1>7. OneCycleBefore'
  <2> SUFFICES ASSUME NEW u \in todo'[r] \cap previous[r].fresh
               PROVE  readAt[r] - baseline'[u] <= elapsed[r] + previous[r].lag
    BY <1>1, <1>2 DEF OneCycleBefore
  <2>1. u \in todo[r] \ {t} /\ u \in Table
    BY <1>3 DEF IntervalType
  <2> QED BY <1>1, <1>3, <2>1 DEF OneCycleBefore
<1> QED BY <1>4, <1>5, <1>6, <1>7

LEMMA IntervalSpecInv ==
  ASSUME OneRequest
  PROVE  Spec => []IntervalInv
<1>1. ASSUME IntervalInv, [Next]_vars
      PROVE  IntervalInv'
  <2> USE <1>1 DEF databaseVars, requestVars
  <2>1. /\ now \in Nat /\ at \in [Request -> Stage]
        /\ readAt \in [Request -> 0..now] /\ elapsed \in [Request -> Int]
        /\ todo \in [Request -> SUBSET Table] /\ DOMAIN previous = Request
    BY DEF IntervalInv, IntervalType
  <2>2. CASE Database
    <3>1. CASE Tick
      <4>1. now' \in Nat /\ now <= now' /\ readAt' \in [Request -> 0..now']
        BY <2>1, <3>1 DEF Tick
      <4> QED BY <2>1, <3>1, <4>1, WaitingKeepsIntervals DEF Tick, Cycling
    <3>2. CASE Scan
      BY <2>1, <3>2, WaitingKeepsIntervals DEF Scan, Cycling
    <3>3. CASE ResetStatistics
      BY <2>1, <3>3, WaitingKeepsIntervals DEF ResetStatistics, Cycling
    <3>4. CASE RestartServer
      BY <2>1, <3>4, WaitingKeepsIntervals DEF RestartServer, Cycling
    <3>5. ASSUME NEW t \in Table, Write(t)
          PROVE  IntervalInv'
      BY <2>1, <3>5, WaitingKeepsIntervals DEF Write, Cycling
    <3> QED BY <2>2, <3>1, <3>2, <3>3, <3>4, <3>5 DEF Database
  <2>3. ASSUME NEW r \in Request, FetchInsights(r)
        PROVE  IntervalInv'
    <3>1. CASE BeginPostgres(r)
      BY <2>1, <3>1, WaitingKeepsIntervals DEF BeginPostgres, Cycling, Stage
    <3>2. CASE FetchUnusedIndexes(r)
      BY <2>1, <3>2, WaitingKeepsIntervals DEF FetchUnusedIndexes, Cycling, Stage
    <3>3. CASE FetchRaw(r)
      <4>1. PICK list \in SUBSET Table :
               /\ todo' = [todo EXCEPT ![r] = list]
               /\ at' = [at EXCEPT ![r] = IF list = {} THEN "rest" ELSE "raw"]
        BY <3>3 DEF FetchRaw
      <4>2. /\ todo' \in [Request -> SUBSET Table] /\ at' \in [Request -> Stage]
            /\ readAt' \in [Request -> 0..now]
        BY <2>1, <3>3, <4>1 DEF FetchRaw, Stage
      <4>3. /\ UNCHANGED <<now, previous, elapsed, collectorVars>>
            /\ readAt' = [readAt EXCEPT ![r] = now]
        BY <3>3 DEF FetchRaw, collectorVars
      <4>4. \A s \in Cycling' : /\ s \in Cycling /\ todo'[s] = todo[s]
                                /\ readAt'[s] = readAt[s]
        BY <2>1, <4>1, <4>3 DEF Cycling
      <4> QED BY <2>1, <4>2, <4>3, <4>4, WaitingKeepsIntervals
    <3>4. CASE BeginCycle(r)
      BY <3>4, BeginCycleIntervals
    <3>5. ASSUME NEW t \in Table, WritesPerSecond(r, t)
          PROVE  IntervalInv'
      BY <3>5, WritesPerSecondIntervals
    <3>6. CASE AllJudged(r)
      BY <2>1, <3>6, WaitingKeepsIntervals DEF AllJudged, Cycling, Stage
    <3>7. CASE EndFetch(r)
      <4>1. /\ todo' \in [Request -> SUBSET Table] /\ at' \in [Request -> Stage]
            /\ readAt' \in [Request -> 0..now] /\ elapsed' \in [Request -> Int]
            /\ DOMAIN previous' = Request
        BY <2>1, <3>7 DEF EndFetch, Stage
      <4>2. \A s \in Cycling' : /\ s \in Cycling /\ todo'[s] = todo[s] /\ elapsed'[s] = elapsed[s]
                                /\ readAt'[s] = readAt[s] /\ previous'[s] = previous[s]
        BY <2>1, <3>7 DEF EndFetch, Cycling
      <4> QED BY <2>1, <3>7, <4>1, <4>2, WaitingKeepsIntervals DEF EndFetch
    <3> QED BY <2>3, <3>1, <3>2, <3>3, <3>4, <3>5, <3>6, <3>7 DEF FetchInsights
  <2>4. CASE UNCHANGED vars
    BY <2>1, <2>4, WaitingKeepsIntervals DEF vars, Cycling
  <2> QED BY <2>2, <2>3, <2>4 DEF Next
<1> QED BY <1>1, IntervalInitInv, PTL DEF Spec

(* A rate is divided by the time over which its writes were counted, but   *)
(* for the lag between reading counters and beginning a cycle, for any     *)
(* number of tables, where the table was measured in the cycle before and  *)
(* requests follow one another (BeginCycle and WritesPerSecond).           *)
THEOREM RatesOverTheirTime ==
  ASSUME OneRequest
  PROVE  Spec => RatesOverTheirOwnInterval
<1>1. ASSUME IntervalInv, NEW r \in Request, NEW t \in Table,
             WritesPerSecond(r, t), t \in previous[r].fresh
      PROVE  Span(r, t) <= elapsed[r] + previous[r].lag
  <2>1. r \in Cycling /\ t \in todo[r]
    BY <1>1 DEF WritesPerSecond, Cycling
  <2> QED BY <1>1, <2>1 DEF IntervalInv, OneCycleBefore, Span
<1>2. IntervalInv => (\A r \in Request, t \in Table :
         /\ WritesPerSecond(r, t)
         /\ Measurable(r, t)
         /\ Undisturbed(r, t)
         /\ t \in previous[r].fresh
         => Span(r, t) <= elapsed[r] + previous[r].lag)
  BY <1>1
<1> QED BY <1>2, IntervalSpecInv, PTL DEF Spec, RatesOverTheirOwnInterval
=============================================================================
