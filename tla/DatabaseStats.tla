--------------------------- MODULE DatabaseStats ----------------------------
(***************************************************************************)
(* The DatabaseStatsCollector of the two engines: counters that the server *)
(* only ever increases are turned into rates against the measurement       *)
(* before.  The poller is its only caller, once in a tick, and calls it    *)
(* only while monitoring is on; the collector, and with it the baseline,   *)
(* lives as long as the process.                                           *)
(*                                                                         *)
(* PostgreSQL's counters come from one row, MySQL's are status variables   *)
(* that are not read at one moment.  Of the counters turned into rates     *)
(* commits stands for all.  The time a rate is divided by is left out: the *)
(* clock is monotonic and it is never zero.                                *)
(***************************************************************************)
EXTENDS Integers

CONSTANT MaxCount \* bound: the value of a counter

ASSUME StatsAssumption == MaxCount \in Nat \ {0}

Count == 0..MaxCount

VARIABLES engine,
          monitoring,   \* whether the poller ticks
          commits,      \* the server's counter of commits
          logical,      \* reads of blocks, and how many of them
          physical,     \* went to disk
          step,         \* "idle", or "read" when the counters have been read
          read,         \* the counters as read
          hasBaseline,  \* DatabaseStatsCollector
          lastCommits,
          ratio         \* the cache hit ratio reported last

(* Kept for the properties only.                                           *)
VARIABLES made,      \* commits made in all, resets apart
          readMade,  \* made when the counters were read
          lastMade,  \* and when the baseline was read
          reset,     \* whether the counters were reset since the baseline
          readReset  \* or, if they are being read, since that reading

serverVars == <<commits, logical, physical, made>>
baselineVars == <<hasBaseline, lastCommits, lastMade>>
readVars == <<read, readMade, readReset>>
statsVars == <<engine, monitoring, serverVars, step, readVars, baselineVars, ratio, reset>>

Reading == [commits : Count, logical : Count, physical : Count]

StatsTypeOK ==
    /\ engine \in {"postgres", "mysql"}
    /\ monitoring \in BOOLEAN /\ hasBaseline \in BOOLEAN
    /\ reset \in BOOLEAN /\ readReset \in BOOLEAN
    /\ commits \in Count /\ logical \in Count /\ physical \in Count
    /\ made \in Count /\ readMade \in Count /\ lastMade \in Count
    /\ lastCommits \in Count
    /\ step \in {"idle", "read"}
    /\ read \in Reading
    /\ ratio \in 0..100

StatsInit ==
    /\ engine \in {"postgres", "mysql"}
    /\ monitoring = FALSE
    /\ commits = 0
    /\ logical = 0
    /\ physical = 0
    /\ step = "idle"
    /\ read = [commits |-> 0, logical |-> 0, physical |-> 0]
    /\ hasBaseline = FALSE
    /\ lastCommits = 0
    /\ ratio = 100
    /\ made = 0
    /\ readMade = 0
    /\ lastMade = 0
    /\ reset = FALSE
    /\ readReset = FALSE
-----------------------------------------------------------------------------
(* The server.                                                             *)
Commit ==
    /\ made < MaxCount
    /\ commits' = commits + 1
    /\ made' = made + 1
    /\ UNCHANGED <<engine, monitoring, logical, physical, step, readVars,
                   baselineVars, ratio, reset>>

ReadBlock ==
    /\ logical < MaxCount
    /\ logical' = logical + 1
    /\ physical' \in {physical, physical + 1}
    /\ UNCHANGED <<engine, monitoring, commits, made, step, readVars,
                   baselineVars, ratio, reset>>

(* pg_stat_reset, a crash of PostgreSQL, a restart of MySQL.               *)
ResetCounters ==
    /\ commits' = 0
    /\ logical' = 0
    /\ physical' = 0
    /\ reset' = TRUE
    /\ readReset' = (step = "read")
    /\ UNCHANGED <<engine, monitoring, made, step, read, readMade, baselineVars, ratio>>

(* Starts, stops and expiries; a tick that has begun goes on.              *)
SwitchMonitoring ==
    /\ monitoring' = ~monitoring
    /\ UNCHANGED <<engine, serverVars, step, readVars, baselineVars, ratio, reset>>
-----------------------------------------------------------------------------
(* Plausible mistakes in this code, each of which breaks a property below. *)
FailureMeasuresNothing ==
    /\ step = "read"
    /\ step' = "idle"
    /\ hasBaseline' = TRUE
    /\ lastCommits' = 0
    /\ UNCHANGED <<engine, monitoring, serverVars, readVars, lastMade, ratio, reset>>
-----------------------------------------------------------------------------
(* cacheHitRatio: no read at all counts as a perfect ratio.                *)
HitRatio(r) ==
    IF r.logical = 0 THEN 100
    ELSE IF r.physical > r.logical THEN 0
    ELSE (100 * (r.logical - r.physical)) \div r.logical

(* databaseStatsQuery.  In MySQL a block read from disk after its logical  *)
(* reads have been read still shows among the physical ones.               *)
QueryCounters ==
    /\ monitoring
    /\ step = "idle"
    /\ step' = "read"
    /\ \E more \in {0, 1} :
         /\ engine = "postgres" => more = 0
         /\ physical + more \in Count
         /\ read' = [commits |-> commits, logical |-> logical, physical |-> physical + more]
    /\ readMade' = made
    /\ readReset' = FALSE
    /\ UNCHANGED <<engine, monitoring, serverVars, baselineVars, ratio, reset>>

(* The query fails: nothing is reported and the baseline stays.            *)
QueryFails ==
    /\ step = "read"
    /\ step' = "idle"
    /\ UNCHANGED <<engine, monitoring, serverVars, readVars, baselineVars, ratio, reset>>

SetBaseline ==
    /\ hasBaseline' = TRUE
    /\ lastCommits' = read.commits
    /\ lastMade' = readMade

(* computeRate.  The first measurement has nothing to compare with.        *)
ComputeRate ==
    /\ step = "read"
    /\ step' = "idle"
    /\ SetBaseline
    /\ ratio' = HitRatio(read)
    /\ reset' = readReset
    /\ UNCHANGED <<engine, monitoring, serverVars, readVars>>

(* The dividend of the rate it reports.                                    *)
Difference == read.commits - lastCommits

FetchDatabaseStats ==
    \/ QueryCounters
    \/ QueryFails
    \/ ComputeRate

Server == Commit \/ ReadBlock \/ ResetCounters

StatsNext == Server \/ SwitchMonitoring \/ FetchDatabaseStats

StatsSpec == StatsInit /\ [][StatsNext]_statsVars
-----------------------------------------------------------------------------
(* A rate counts the commits made between two readings of the counters,    *)
(* all of them and no other, however many fetches failed and however long  *)
(* monitoring was off between the two.  Only a reset is not noticed: the   *)
(* rate that spans it is too small or negative, and the next is right      *)
(* again.                                                                  *)
EveryCommitCountedOnce ==
    [][ComputeRate /\ hasBaseline /\ ~reset => Difference = readMade - lastMade]_statsVars
=============================================================================
