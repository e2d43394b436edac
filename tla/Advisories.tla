----------------------------- MODULE Advisories ------------------------------
(***************************************************************************)
(* The advisories of an insights report. A collector reads rows with SQL   *)
(* that filters, orders and limits them; the domain then judges each row   *)
(* it is given. Filter, order and judgment are written in different places *)
(* and languages and have to agree: a row the collector leaves out is one  *)
(* the judgment never sees.                                                *)
(*                                                                         *)
(* A row is a record of what the judgment looks at. Times are in           *)
(* milliseconds where a row has selfTime, mean or deviation, and in        *)
(* seconds elsewhere; sizes are in mebibytes.                              *)
(***************************************************************************)
EXTENDS Integers, FiniteSets, FiniteSetsExt

CONSTANTS Limit,    \* the LIMIT of a collector's query
          LogUnit,  \* how many units of the last place make up a 1.0
          Log2      \* math.Log2 in those units, of the numbers considered

ASSUME LimitAssumption == Limit \in Nat \ {0}

(* All of the logarithm that is relied on: a larger number has no smaller  *)
(* one. Every float64 is a whole multiple of the smallest, so the values   *)
(* of math.Log2, which are roundings of a real, are whole in some unit.    *)
ASSUME LogAssumption ==
    /\ LogUnit \in Nat \ {0}
    /\ DOMAIN Log2 \subseteq Nat \ {0}
    /\ \A n \in DOMAIN Log2 : Log2[n] \in Nat
    /\ \A m, n \in DOMAIN Log2 : m <= n => Log2[m] <= Log2[n]

(***************************************************************************)
(* The kinds of advisories, those whose collector has a LIMIT and an order *)
(* the judgment follows, and the rows there may be of each.                *)
(***************************************************************************)
Kinds == {"function", "physical io", "unused index", "vacuum", "sequence", "checkpoint",
          "saturation", "pagination", "candidate", "idle in transaction", "long query",
          "lock wait", "prepared transaction", "replication lag", "replication slot"}

Aligned == {"function", "physical io", "unused index"}

(* Sequential scans whose strength is considered *)
SeqScans == {n - 1 : n \in DOMAIN Log2}

RowOf(kind) ==
    CASE kind = "function" -> [calls : Nat, selfTime : Nat]
      [] kind = "physical io" -> [reads : Nat]
      [] kind = "unused index" -> [scans : Nat, size : Nat, age : Nat]
      [] kind = "vacuum" -> [live : Nat, dead : Nat]
      [] kind = "sequence" -> [max : Int, current : Int]
      [] kind = "checkpoint" -> [scheduled : Nat, requested : Nat]
      [] kind = "saturation" -> [max : Nat, active : Nat]
      [] kind = "pagination" -> [calls : Nat, mean : Nat, deviation : Nat, rows : Nat]
      [] kind = "candidate" -> [rows : Nat, idxScan : Nat, seqScan : SeqScans, distinct : Int]
      [] OTHER -> [measure : Nat]

(***************************************************************************)
(* The judgments of one row.                                               *)
(***************************************************************************)
FunctionCost(s) == s.calls >= 100 /\ s.selfTime >= 5 * s.calls

PhysicalIO(s) == s.reads >= 1000

UnusedIndex(s) == s.age >= 3600 /\ s.scans <= 50

VacuumHealth(s) == s.live >= 1000 /\ 100 * s.dead >= 20 * (s.live + s.dead)

SequenceOverflow(s) == s.max > 0 /\ 100 * s.current >= 75 * s.max

CheckpointHealth(s) ==
    LET total == s.scheduled + s.requested
    IN total > 0 /\ 100 * s.requested >= 10 * total

ConnectionSaturation(s) == s.max > 0 /\ 100 * s.active >= 80 * s.max

(* A row of any of these has one measure, compared with a threshold. *)
IdleInTransaction(s) == s.measure >= 60
LongRunningQuery(s) == s.measure >= 300
LockWait(s) == s.measure >= 5
PreparedTransaction(s) == s.measure >= 600
ReplicationLag(s) == s.measure >= 100
ReplicationSlot(s) == s.measure >= 1024

(* OFFSET in the text, few rows a call, and times that vary by more than   *)
(* their mean.                                                             *)
Pagination(s) ==
    /\ s.calls >= 100
    /\ s.mean >= 5
    /\ s.rows <= 200 * s.calls
    /\ s.deviation > s.mean

(***************************************************************************)
(* The judgment of an index candidate.                                     *)
(***************************************************************************)
TotalScans(s) == s.seqScan + s.idxScan

(* IdxScan > 0, and index usage below 95 % *)
Qualifies(s) ==
    /\ s.rows >= 1000
    /\ s.idxScan > 0
    /\ 100 * s.idxScan < 95 * TotalScans(s)

(* The threshold of 10.0 times a denominator, in units of the logarithm *)
Threshold(scans) == 10 * LogUnit * scans

(* Plausible mistake: the share of the index scans. *)
StrongByIndexScans(s) ==
    /\ TotalScans(s) >= 1000
    /\ Log2[1 + s.seqScan] * s.idxScan >= Threshold(TotalScans(s))

(* Strength: log2(1 + SeqScan) times the share of sequential scans. The    *)
(* quotient and the product are not rounded here.                          *)
StrongSignal(s) ==
    /\ TotalScans(s) >= 1000
    /\ Log2[1 + s.seqScan] * s.seqScan >= Threshold(TotalScans(s))

(* pg_stats.n_distinct: a number of values, or minus their share of the    *)
(* rows (in percent here), or nothing known. A lookup that returns more    *)
(* than one row in twenty is poor.                                         *)
PoorSelectivity(s) ==
    \/ s.distinct > 0 /\ s.distinct < 20
    \/ s.distinct < 0 /\ -s.distinct * s.rows < 20 * 100

Confidence(s) ==
    LET strong == StrongSignal(s) /\ ~PoorSelectivity(s)
    IN CASE Qualifies(s) /\ strong -> "strong"
         [] Qualifies(s) /\ ~strong /\ TotalScans(s) >= 100 -> "weak"
         [] OTHER -> "insufficient_data"

(***************************************************************************)
(* The verdict on a row: 0 where nothing is said, 2 for a strong           *)
(* suggestion, 1 for the rest.                                             *)
(***************************************************************************)
Says(b) == IF b THEN 1 ELSE 0

Verdict(kind, s) ==
    CASE kind = "function" -> Says(FunctionCost(s))
      [] kind = "physical io" -> Says(PhysicalIO(s))
      [] kind = "unused index" -> Says(UnusedIndex(s))
      [] kind = "vacuum" -> Says(VacuumHealth(s))
      [] kind = "sequence" -> Says(SequenceOverflow(s))
      [] kind = "checkpoint" -> Says(CheckpointHealth(s))
      [] kind = "saturation" -> Says(ConnectionSaturation(s))
      [] kind = "pagination" -> Says(Pagination(s))
      [] kind = "candidate" ->
           (CASE Confidence(s) = "strong" -> 2 [] Confidence(s) = "weak" -> 1 [] OTHER -> 0)
      [] kind = "idle in transaction" -> Says(IdleInTransaction(s))
      [] kind = "long query" -> Says(LongRunningQuery(s))
      [] kind = "lock wait" -> Says(LockWait(s))
      [] kind = "prepared transaction" -> Says(PreparedTransaction(s))
      [] kind = "replication lag" -> Says(ReplicationLag(s))
      [] kind = "replication slot" -> Says(ReplicationSlot(s))

(* b is at least as bad as a, in what a row of the kind measures. *)
Worse(kind, a, b) ==
    CASE kind = "function" -> b.calls = a.calls /\ b.selfTime >= a.selfTime
      [] kind = "physical io" -> b.reads >= a.reads
      [] kind = "unused index" -> b.scans <= a.scans /\ b.age >= a.age
      [] kind = "vacuum" -> b.live = a.live /\ b.dead >= a.dead
      [] kind = "sequence" -> b.max = a.max /\ b.current >= a.current
      [] kind = "checkpoint" -> b.scheduled <= a.scheduled /\ b.requested >= a.requested
      [] kind = "saturation" -> b.max = a.max /\ b.active >= a.active
      [] kind = "pagination" -> /\ b.calls = a.calls /\ b.mean = a.mean
                                /\ b.deviation >= a.deviation /\ b.rows <= a.rows
      [] kind = "candidate" -> /\ b.idxScan = a.idxScan /\ b.rows = a.rows
                               /\ b.distinct = a.distinct /\ b.seqScan >= a.seqScan
      [] OTHER -> b.measure >= a.measure

(***************************************************************************)
(* What a collector reads of a catalog, a function from names to rows. The *)
(* order leaves ties to the database.                                      *)
(***************************************************************************)

(* WHERE, ORDER BY ... DESC and LIMIT: the sets of names such a query may  *)
(* return, where above are the pairs of which the first comes first.       *)
Top(selected, above) ==
    LET count == Min({Limit, Cardinality(selected)})
    IN {read \in SUBSET selected :
          /\ Cardinality(read) = count
          /\ \A r \in read, s \in selected \ read : <<s, r>> \notin above}

Pairs(catalog) == (DOMAIN catalog) \X (DOMAIN catalog)
Called(catalog) == {r \in DOMAIN catalog : catalog[r].calls >= 100}

(* Plausible mistake: functions by the time they have taken in all. *)
FunctionsByTotalTime(catalog) ==
    Top(Called(catalog),
        {p \in Pairs(catalog) : catalog[p[1]].selfTime > catalog[p[2]].selfTime})

(* By the time of one call. *)
FetchFunctionStats(catalog) ==
    Top(Called(catalog),
        {p \in Pairs(catalog) : catalog[p[1]].selfTime * catalog[p[2]].calls
                                   > catalog[p[2]].selfTime * catalog[p[1]].calls})

FetchPhysicalIO(catalog) ==
    Top(DOMAIN catalog, {p \in Pairs(catalog) : catalog[p[1]].reads > catalog[p[2]].reads})

FetchUnusedIndexes(catalog) ==
    Top({r \in DOMAIN catalog : catalog[r].scans <= 50},
        {p \in Pairs(catalog) : catalog[p[1]].size > catalog[p[2]].size})

Fetch(kind, catalog) ==
    CASE kind = "function" -> FetchFunctionStats(catalog)
      [] kind = "physical io" -> FetchPhysicalIO(catalog)
      [] kind = "unused index" -> FetchUnusedIndexes(catalog)

(***************************************************************************)
(* A condition that gets worse never makes its advisory go away or loses   *)
(* it its confidence. The formulas guard against empty denominators and    *)
(* against samples too small to judge, and each guard is a place where     *)
(* more of the same could turn the verdict round: a ratio of two counters  *)
(* that grow together, the strength of a signal against its selectivity.   *)
(***************************************************************************)
WorseIsStillReported(kind, a, b) ==
    Worse(kind, a, b) => Verdict(kind, a) <= Verdict(kind, b)

(***************************************************************************)
(* What the collector's LIMIT leaves out, the judgment would not have      *)
(* reported, unless all that was read is itself reported. The order has to *)
(* be the one the judgment follows for this. It is not for OFFSET queries, *)
(* read by their number of calls and judged by their times, nor for index  *)
(* candidates, read by their sequential scans and judged by their share;   *)
(* those two are left out.                                                 *)
(***************************************************************************)
NothingIsCrowdedOut(kind, catalog) ==
    \A read \in Fetch(kind, catalog) :
        LET reported == {r \in DOMAIN catalog : Verdict(kind, catalog[r]) > 0}
        IN reported \subseteq read \/ (read \subseteq reported /\ Cardinality(read) = Limit)
=============================================================================
