------------------------------ MODULE Insights ------------------------------
(***************************************************************************)
(* FetchInsights of the two engines, as far as time is part of it: one     *)
(* collector after another reads counters of the database, which goes on   *)
(* counting, and turns them into rates and verdicts.  The first error ends *)
(* the fetch and no report is made.                                        *)
(*                                                                         *)
(* PostgreSQL says when its statistics were last reset.  That age is read  *)
(* first and divides, or gates, counters that are read later; the collector*)
(* keeps nothing between two fetches.                                      *)
(*                                                                         *)
(* MySQL does not, so its IndexCandidateCollector keeps the counter of     *)
(* every table it has measured, and the time at which the last cycle       *)
(* began, for all requests together.                                       *)
(***************************************************************************)
EXTENDS Integers, FiniteSets

CONSTANTS Request,     \* the insights requests that may be open at a time
          Table,       \* the tables that may be among the top candidates
          MinStatsAge, \* MinStatsAgeSecondsForUnused
          MaxScans,    \* MaxScansForUnused
          MaxTime,     \* bound: how long a behavior lasts
          MaxWrites,   \* bound: the value of a table's write counter
          Never        \* statistics that were never reset, no measurement

ASSUME InsightsAssumption ==
    /\ {MinStatsAge, MaxScans, MaxTime, MaxWrites} \subseteq Nat
    /\ MinStatsAge > 0
    /\ Never \notin Int
    /\ Request \cap Table = {}

Time == 0..MaxTime
Count == 0..MaxWrites

VARIABLES engine,       \* the configured engine
          now,
          started,      \* when the server was started
          statsReset,   \* pg_stat_database.stats_reset
          writes,       \* the write counter of each table
          scans,        \* the scan counter of an index
          at,           \* how far a request has come
          age,          \* what SecondsSinceReset told it
          raw,          \* the candidates FetchRaw gave it, and their counters
          elapsed,      \* what BeginCycle returned to it
          todo,         \* the candidates it has still to judge
          lastWriteOps, \* IndexCandidateCollector.lastWriteOps
          lastMeasured  \* IndexCandidateCollector.lastMeasured

(* Kept for the properties only.                                           *)
VARIABLES scanned,    \* the moments at which the index was scanned
          readAt,     \* when a request read its candidates
          baseline,   \* when the counter in lastWriteOps was read
          fresh,      \* the tables measured in the cycle begun last
          lag,        \* how long that cycle's counters were read before it
          previous,   \* fresh and lag as a request's cycle found them
          reset       \* the requests and tables that know counters from
                      \* before they were reset

databaseVars == <<now, started, statsReset, writes, scans, scanned>>
requestVars == <<at, age, raw, elapsed, todo, readAt, previous>>
collectorVars == <<lastWriteOps, lastMeasured, baseline, fresh, lag>>
vars == <<engine, databaseVars, requestVars, collectorVars, reset>>

Stage == {"idle", "aged", "raw", "cycle", "rest"}
NoCandidates == [t \in {} |-> 0]
NoCycle == [fresh |-> {}, lag |-> 0]

Init ==
    /\ engine \in {"postgres", "mysql"}
    /\ now = 0
    /\ started = 0
    /\ statsReset = Never
    /\ writes = [t \in Table |-> 0]
    /\ scans = 0
    /\ scanned = {}
    /\ at = [r \in Request |-> "idle"]
    /\ age = [r \in Request |-> 0]
    /\ raw = [r \in Request |-> NoCandidates]
    /\ elapsed = [r \in Request |-> 0]
    /\ todo = [r \in Request |-> {}]
    /\ lastWriteOps = [t \in Table |-> Never]
    /\ lastMeasured = Never
    /\ readAt = [r \in Request |-> 0]
    /\ baseline = [t \in Table |-> 0]
    /\ fresh = {}
    /\ lag = 0
    /\ previous = [r \in Request |-> NoCycle]
    /\ reset = {}
-----------------------------------------------------------------------------
(* The database lives on.  An observer of scans tells at most one from     *)
(* another within a unit of time.                                          *)
Tick ==
    /\ now < MaxTime
    /\ now' = now + 1
    /\ UNCHANGED <<engine, started, statsReset, writes, scans, scanned,
                   requestVars, collectorVars, reset>>

Write(t) ==
    /\ engine = "mysql"
    /\ writes[t] < MaxWrites
    /\ writes' = [writes EXCEPT ![t] = @ + 1]
    /\ UNCHANGED <<engine, now, started, statsReset, scans, scanned,
                   requestVars, collectorVars, reset>>

Scan ==
    /\ engine = "postgres"
    /\ now \notin scanned
    /\ scans' = scans + 1
    /\ scanned' = scanned \cup {now}
    /\ UNCHANGED <<engine, now, started, statsReset, writes,
                   requestVars, collectorVars, reset>>

Busy == {r \in Request : at[r] # "idle"}
Measured == {t \in Table : lastWriteOps[t] # Never}

ResetCounters ==
    /\ writes' = [t \in Table |-> 0]
    /\ scans' = 0
    /\ statsReset' = IF engine = "postgres" THEN now ELSE Never
    /\ reset' = reset \cup Busy \cup Measured

(* pg_stat_reset, or the truncation of a performance_schema table.         *)
ResetStatistics ==
    /\ ResetCounters
    /\ UNCHANGED <<engine, now, started, scanned, requestVars, collectorVars>>

(* PostgreSQL keeps its counters across a restart, MySQL does not.  What   *)
(* was in flight has failed by then.                                       *)
RestartServer ==
    /\ Busy = {}
    /\ IF engine = "postgres"
         THEN started' = now /\ UNCHANGED <<writes, scans, statsReset, reset>>
         ELSE ResetCounters /\ UNCHANGED started
    /\ UNCHANGED <<engine, now, scanned, requestVars, collectorVars>>
-----------------------------------------------------------------------------
(* statsResetQuery.                                                        *)
SecondsSinceReset == now - (IF statsReset = Never THEN started ELSE statsReset)
-----------------------------------------------------------------------------
(* Plausible mistakes in this code, each of which breaks a property below. *)
AnyAge(r) == scans <= MaxScans
CycleOfEveryTable == now
SharedBaseline(r, t) ==
    raw[r][t] - lastWriteOps[CHOOSE u \in Measured : \A v \in Measured : baseline[v] <= baseline[u]]
-----------------------------------------------------------------------------
(* DetectUnusedIndexes, for the index the model follows.                   *)
Unused(r) ==
    /\ age[r] >= MinStatsAge
    /\ scans <= MaxScans

BeginPostgres(r) ==
    /\ engine = "postgres"
    /\ at[r] = "idle"
    /\ age' = [age EXCEPT ![r] = SecondsSinceReset]
    /\ at' = [at EXCEPT ![r] = "aged"]
    /\ reset' = reset \ {r}
    /\ UNCHANGED <<engine, databaseVars, raw, elapsed, todo, readAt, previous, collectorVars>>

(* The other collectors come before and after it.                          *)
FetchUnusedIndexes(r) ==
    /\ at[r] = "aged"
    /\ at' = [at EXCEPT ![r] = "rest"]
    /\ UNCHANGED <<engine, databaseVars, age, raw, elapsed, todo, readAt, previous,
                   collectorVars, reset>>
-----------------------------------------------------------------------------
(* FetchRaw returns the tables that rank among the candidates now; none,   *)
(* and no cycle begins.                                                    *)
FetchRaw(r) ==
    /\ engine = "mysql"
    /\ at[r] = "idle"
    /\ \E list \in SUBSET Table :
         /\ raw' = [raw EXCEPT ![r] = [t \in list |-> writes[t]]]
         /\ todo' = [todo EXCEPT ![r] = list]
         /\ at' = [at EXCEPT ![r] = IF list = {} THEN "rest" ELSE "raw"]
    /\ readAt' = [readAt EXCEPT ![r] = now]
    /\ reset' = reset \ {r}
    /\ UNCHANGED <<engine, databaseVars, age, elapsed, previous,
                   lastWriteOps, lastMeasured, baseline, fresh, lag>>

BeginCycle(r) ==
    /\ at[r] = "raw"
    /\ elapsed' = [elapsed EXCEPT ![r] = IF lastMeasured = Never THEN 0 ELSE now - lastMeasured]
    /\ lastMeasured' = now
    /\ at' = [at EXCEPT ![r] = "cycle"]
    /\ previous' = [previous EXCEPT ![r] = [fresh |-> fresh, lag |-> lag]]
    /\ fresh' = {}
    /\ lag' = now - readAt[r]
    /\ UNCHANGED <<engine, databaseVars, age, raw, todo, readAt,
                   lastWriteOps, baseline, reset>>

(* WritesPerSecond: the dividend, and whether there is a rate to report.   *)
Difference(r, t) == raw[r][t] - lastWriteOps[t]
Measurable(r, t) == lastWriteOps[t] # Never /\ elapsed[r] > 0

(* Measuring a table leaves the beginning of the cycle alone.              *)
LastMeasuredAfter == lastMeasured

(* The texts of the table's queries have been fetched; its rate is taken   *)
(* and its counter kept.                                                   *)
WritesPerSecond(r, t) ==
    /\ at[r] = "cycle"
    /\ t \in todo[r]
    /\ lastWriteOps' = [lastWriteOps EXCEPT ![t] = raw[r][t]]
    /\ lastMeasured' = LastMeasuredAfter
    /\ todo' = [todo EXCEPT ![r] = @ \ {t}]
    /\ baseline' = [baseline EXCEPT ![t] = readAt[r]]
    /\ fresh' = fresh \cup {t}
    /\ reset' = IF r \in reset THEN reset \cup {t} ELSE reset \ {t}
    /\ UNCHANGED <<engine, databaseVars, at, age, raw, elapsed, readAt, previous,
                   lag>>

AllJudged(r) ==
    /\ at[r] = "cycle"
    /\ todo[r] = {}
    /\ at' = [at EXCEPT ![r] = "rest"]
    /\ UNCHANGED <<engine, databaseVars, age, raw, elapsed, todo, readAt, previous,
                   collectorVars, reset>>
-----------------------------------------------------------------------------
(* The remaining collectors answer and the report is assembled, or one     *)
(* fails, or the deadline passes: then nothing is reported, but what the   *)
(* collector has kept of this cycle stays.                                 *)
EndFetch(r) ==
    /\ at[r] # "idle"
    /\ at' = [at EXCEPT ![r] = "idle"]
    /\ age' = [age EXCEPT ![r] = 0]
    /\ raw' = [raw EXCEPT ![r] = NoCandidates]
    /\ elapsed' = [elapsed EXCEPT ![r] = 0]
    /\ todo' = [todo EXCEPT ![r] = {}]
    /\ readAt' = [readAt EXCEPT ![r] = 0]
    /\ previous' = [previous EXCEPT ![r] = NoCycle]
    /\ reset' = reset \ {r}
    /\ UNCHANGED <<engine, databaseVars, collectorVars>>

FetchInsights(r) ==
    \/ BeginPostgres(r)
    \/ FetchUnusedIndexes(r)
    \/ FetchRaw(r)
    \/ BeginCycle(r)
    \/ \E t \in Table : WritesPerSecond(r, t)
    \/ AllJudged(r)
    \/ EndFetch(r)

Database ==
    \/ Tick
    \/ \E t \in Table : Write(t)
    \/ Scan
    \/ ResetStatistics
    \/ RestartServer

Next == Database \/ \E r \in Request : FetchInsights(r)

Spec == Init /\ [][Next]_vars
-----------------------------------------------------------------------------
(* An index reported as unused has been scanned at most MaxScans times     *)
(* within the last MinStatsAge, which is what the gate on the age of the   *)
(* statistics is for, however long ago the age was read and whatever       *)
(* restarts and resets came before.  Only a reset between the two readings *)
(* is not noticed.                                                         *)
LatelyScanned == Cardinality({t \in scanned : t > now - MinStatsAge})
UnusedForLong ==
    [][\A r \in Request :
         FetchUnusedIndexes(r) /\ Unused(r) /\ r \notin reset => LatelyScanned <= MaxScans]_vars

(* No rate is negative, as long as the counters are not reset between two  *)
(* measurements.  This is so for one request at a time; of two that        *)
(* overlap the later may leave the earlier a counter from its future.      *)
Undisturbed(r, t) == {r, t} \cap reset = {}
RatesNeverNegative ==
    [][\A r \in Request, t \in Table :
         WritesPerSecond(r, t) /\ Measurable(r, t) /\ Undisturbed(r, t) => Difference(r, t) >= 0]_vars

(* The time a rate is divided by is the time over which its writes were    *)
(* counted, but for the delay between reading counters and beginning a     *)
(* cycle, if the table was measured in the cycle before and requests do    *)
(* not overlap.  A table that was not, because it was no candidate then or *)
(* because that fetch failed, has its writes of several cycles divided by  *)
(* the length of one.                                                      *)
Span(r, t) == readAt[r] - baseline[t]
RatesOverTheirOwnInterval ==
    [][\A r \in Request, t \in Table :
         /\ WritesPerSecond(r, t)
         /\ Measurable(r, t)
         /\ Undisturbed(r, t)
         /\ t \in previous[r].fresh
         => Span(r, t) <= elapsed[r] + previous[r].lag]_vars
=============================================================================
