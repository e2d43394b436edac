---------------------------- MODULE HistoryStore ----------------------------
(***************************************************************************)
(* The SQLite history: snapshots appended by the poller, read for replay   *)
(* by HTTP requests, and thinned out by the pruner of main.go.             *)
(*                                                                         *)
(* The store has one connection, so every SQL statement is atomic; but the *)
(* connection is given back after each of them.  A read of the replay      *)
(* window is three statements and a pruning pass any number of them, and   *)
(* an append fits between any two.                                         *)
(*                                                                         *)
(* Times are small numbers that never run back; all rows have one size, a  *)
(* page of the file.  A deleted row leaves a free page that the next       *)
(* append uses; only incremental_vacuum gives free pages back.             *)
(***************************************************************************)
EXTENDS Integers, FiniteSetsExt

CONSTANTS Retention,      \* HISTORY_RETENTION
          MaxIncidents,   \* MaxIncidentRows
          MaxPages,       \* the cap on the file's size
          BatchSize,      \* pruneBatchSize
          MaxPerWindow,   \* maxPeriodicRowsPerWindow
          Window,         \* the replay window a request asks for
          LastId, LastTime \* bounds: rows appended, times passed

ASSUME HistoryAssumption ==
    /\ Retention \in Nat /\ Window \in Nat
    /\ MaxIncidents \in Nat \ {0}
    /\ MaxPages \in Nat \ {0}
    /\ BatchSize \in Nat \ {0}
    /\ MaxPerWindow \in Nat \ {0}
    /\ LastId \in Nat /\ LastTime \in Nat

VARIABLES rows,    \* the table: id, captured_at and trigger
          nextId,  \* AUTOINCREMENT
          file,    \* pages of the file once the log is checkpointed
          now      \* the clock

VARIABLES pruner,  \* the pruner's next statement, "idle" between passes
          before,  \* PruneOlderThan's argument, 0 outside of it
          cutoff,  \* PruneExcessIncidents' cutoff, 0 outside of it
          trigger, \* the trigger pruneUntilUnderSize works on
          vacuumed, \* whether this pass has vacuumed, and whether something
          disturbed \* has failed or restarted since the last pass began
                    \* (neither is read by the code)

VARIABLES reader,  \* a Recent call's next statement, "idle" when it is over
          since,   \* its argument
          stride,  \* its step
          periodic, \* the periodic snapshots it has read
          raced    \* whether a row was appended since it counted (not read
                   \* by the code)

table == <<rows, nextId, file, now>>
prunerVars == <<pruner, before, cutoff, trigger, vacuumed, disturbed>>
readerVars == <<reader, since, stride, periodic, raced>>
vars == <<table, prunerVars, readerVars>>

Triggers == {"periodic", "incident"}
Row == [id : 1..LastId, at : 0..LastTime, trigger : Triggers]

Init ==
    /\ rows = {} /\ nextId = 1 /\ file = 0 /\ now = 0
    /\ pruner = "idle" /\ before = 0 /\ cutoff = 0
    /\ trigger = "periodic" /\ vacuumed = FALSE /\ disturbed = FALSE
    /\ reader = "idle" /\ since = 0 /\ stride = 1 /\ periodic = {} /\ raced = FALSE
-----------------------------------------------------------------------------
OfTrigger(t) == {r \in rows : r.trigger = t}
Incidents == OfTrigger("incident")

(* Plausible mistakes in this code, each of which breaks a property below. *)
CutoffOneOff == {r \in Incidents :
    Cardinality({q \in Incidents : q.at > r.at}) < MaxIncidents - 1}
StrideFloor(count) ==
    IF count > MaxPerWindow THEN count \div MaxPerWindow ELSE 1
NoVacuum ==
    /\ pruner = "vacuum"
    /\ pruner' = "remeasure"
    /\ vacuumed' = TRUE
    /\ UNCHANGED <<table, before, cutoff, trigger, readerVars, disturbed>>
EmptySkipsIncidents == pruner' = "idle" /\ trigger' = "periodic" /\ vacuumed' = FALSE
CutoffOfTheStart ==
    /\ pruner = "idle"
    /\ pruner' = "age"
    /\ before' = 0 - Retention
    /\ disturbed' = FALSE
    /\ UNCHANGED <<table, cutoff, trigger, vacuumed, readerVars>>
-----------------------------------------------------------------------------
(* The poller's Append; the file grows only when no page is free.          *)
Append(t) ==
    /\ nextId <= LastId
    /\ rows' = rows \cup {[id |-> nextId, at |-> now, trigger |-> t]}
    /\ nextId' = nextId + 1
    /\ file' = Max({file, Cardinality(rows) + 1})
    /\ raced' = (raced \/ reader # "idle")
    /\ UNCHANGED <<now, prunerVars, reader, since, stride, periodic>>

TimePasses ==
    /\ now < LastTime
    /\ now' = now + 1
    /\ UNCHANGED <<rows, nextId, file, prunerVars, readerVars>>

(* The process ends and is started again: the file is all that is left.    *)
Restart ==
    /\ pruner' = "idle" /\ before' = 0 /\ cutoff' = 0
    /\ trigger' = "periodic" /\ vacuumed' = FALSE /\ disturbed' = TRUE
    /\ reader' = "idle" /\ since' = 0 /\ stride' = 1 /\ periodic' = {} /\ raced' = FALSE
    /\ UNCHANGED table
-----------------------------------------------------------------------------
(* DELETE ... LIMIT: BatchSize of the rows that qualify, or all of them if *)
(* they are fewer.                                                         *)
Batches(S) == kSubset(Min({BatchSize, Cardinality(S)}), S)

Delete(batch) == rows' = rows \ batch /\ UNCHANGED <<nextId, file, now>>

(* A pass begins: PruneOlderThan(now - retention).                         *)
BeginPass ==
    /\ pruner = "idle"
    /\ pruner' = "age"
    /\ before' = now - Retention
    /\ disturbed' = FALSE
    /\ UNCHANGED <<table, cutoff, trigger, vacuumed, readerVars>>

Expired == {r \in OfTrigger("periodic") : r.at < before}

PruneOlderThan ==
    /\ pruner = "age"
    /\ \/ /\ Expired # {}
          /\ \E batch \in Batches(Expired) : Delete(batch)
          /\ UNCHANGED <<pruner, before>>
       \/ /\ Expired = {}
          /\ pruner' = "count"
          /\ before' = 0
          /\ UNCHANGED table
    /\ UNCHANGED <<cutoff, trigger, vacuumed, readerVars, disturbed>>

(* PruneExcessIncidents, statement by statement.                           *)
CountIncidents ==
    /\ pruner = "count"
    /\ pruner' = IF Cardinality(Incidents) <= MaxIncidents THEN "measure" ELSE "cutoff"
    /\ UNCHANGED <<table, before, cutoff, trigger, vacuumed, readerVars, disturbed>>

(* The MaxIncidents most recent incidents, with those as old as the last.  *)
MostRecent == {r \in Incidents :
    Cardinality({q \in Incidents : q.at > r.at}) < MaxIncidents}

FindCutoff ==
    /\ pruner = "cutoff"
    /\ cutoff' = Min({r.at : r \in MostRecent})
    /\ pruner' = "excess"
    /\ UNCHANGED <<table, before, trigger, vacuumed, readerVars, disturbed>>

PruneExcessIncidents ==
    LET excess == {r \in Incidents : r.at < cutoff} IN
    /\ pruner = "excess"
    /\ \/ /\ excess # {}
          /\ \E batch \in Batches(excess) : Delete(batch)
          /\ UNCHANGED <<pruner, cutoff>>
       \/ /\ excess = {}
          /\ pruner' = "measure"
          /\ cutoff' = 0
          /\ UNCHANGED table
    /\ UNCHANGED <<before, trigger, vacuumed, readerVars, disturbed>>
-----------------------------------------------------------------------------
PassEnds == pruner' = "idle" /\ trigger' = "periodic" /\ vacuumed' = FALSE

(* EnforceMaxSize: measure, then delete the oldest batch, vacuum and       *)
(* measure again while the file is too large; periodic snapshots first.    *)
Measure ==
    /\ pruner \in {"measure", "remeasure"}
    /\ \/ /\ file > MaxPages
          /\ pruner' = "shrink"
          /\ UNCHANGED <<trigger, vacuumed>>
       \/ /\ file <= MaxPages
          /\ PassEnds
    /\ UNCHANGED <<table, before, cutoff, readerVars, disturbed>>

OldestOf(t) == {batch \in Batches(OfTrigger(t)) :
    \A r \in batch, q \in OfTrigger(t) \ batch : r.at <= q.at}

(* Nothing of this trigger is left: go on with the incidents, or give up.  *)
NextTrigger ==
    \/ trigger = "periodic" /\ trigger' = "incident" /\ UNCHANGED <<pruner, vacuumed>>
    \/ trigger = "incident" /\ PassEnds

Shrink ==
    /\ pruner = "shrink"
    /\ \/ /\ OfTrigger(trigger) # {}
          /\ \E batch \in OldestOf(trigger) : Delete(batch)
          /\ pruner' = "vacuum"
          /\ UNCHANGED <<trigger, vacuumed>>
       \/ /\ OfTrigger(trigger) = {}
          /\ NextTrigger
          /\ UNCHANGED table
    /\ UNCHANGED <<before, cutoff, readerVars, disturbed>>

IncrementalVacuum ==
    /\ pruner = "vacuum"
    /\ file' = Cardinality(rows)
    /\ pruner' = "remeasure"
    /\ vacuumed' = TRUE
    /\ UNCHANGED <<rows, nextId, now, before, cutoff, trigger, readerVars, disturbed>>

(* A statement fails: the function it is in returns, the pass goes on with *)
(* the next one.                                                           *)
PruneFails ==
    /\ \/ /\ pruner = "age"
          /\ pruner' = "count"
          /\ UNCHANGED <<trigger, vacuumed>>
       \/ /\ pruner \in {"count", "cutoff", "excess"}
          /\ pruner' = "measure"
          /\ UNCHANGED <<trigger, vacuumed>>
       \/ /\ pruner \in {"measure", "shrink", "vacuum", "remeasure"}
          /\ PassEnds
    /\ before' = 0 /\ cutoff' = 0
    /\ disturbed' = TRUE
    /\ UNCHANGED <<table, readerVars>>

Prune ==
    \/ BeginPass
    \/ PruneOlderThan
    \/ CountIncidents \/ FindCutoff \/ PruneExcessIncidents
    \/ Measure \/ Shrink \/ IncrementalVacuum
-----------------------------------------------------------------------------
(* Recent(now - window): count, then every stride-th periodic snapshot,    *)
(* then all the incidents.                                                 *)
InWindow(t) == {r \in OfTrigger(t) : r.at >= since}

Stride(count) ==
    IF count > MaxPerWindow THEN (count + MaxPerWindow - 1) \div MaxPerWindow ELSE 1

BeginRecent ==
    /\ reader = "idle"
    /\ since' = now - Window
    /\ LET count == Cardinality({r \in OfTrigger("periodic") : r.at >= now - Window})
       IN  /\ stride' = Stride(count)
           /\ reader' = IF count = 0 THEN "incidents" ELSE "periodic"
    /\ periodic' = {}
    /\ raced' = FALSE
    /\ UNCHANGED <<table, prunerVars>>

(* ROW_NUMBER() OVER (ORDER BY captured_at), counted from zero.            *)
RowNumber(r) ==
    Cardinality({q \in InWindow("periodic") : q.at < r.at \/ (q.at = r.at /\ q.id < r.id)})

ReadPeriodic ==
    /\ reader = "periodic"
    /\ periodic' = {r \in InWindow("periodic") : RowNumber(r) % stride = 0}
    /\ reader' = "incidents"
    /\ UNCHANGED <<table, prunerVars, since, stride, raced>>

(* The last statement; the result is merged and returned.                  *)
ReadIncidents ==
    /\ reader = "incidents"
    /\ reader' = "idle"
    /\ since' = 0 /\ stride' = 1 /\ periodic' = {} /\ raced' = FALSE
    /\ UNCHANGED <<table, prunerVars>>

Recent == BeginRecent \/ ReadPeriodic \/ ReadIncidents
-----------------------------------------------------------------------------
Next ==
    \/ \E t \in Triggers : Append(t)
    \/ TimePasses
    \/ Restart
    \/ Prune
    \/ PruneFails
    \/ Recent

(* The pruner's ticker fires again and again, and its statements return.   *)
Spec == Init /\ [][Next]_vars /\ WF_vars(Prune)
-----------------------------------------------------------------------------
Lost == rows \ rows'

(* Age and count pruning, in however many batches and with whatever is     *)
(* appended between them, spare every periodic snapshot still within the   *)
(* retention and every one of the MaxIncidents most recent incidents.      *)
KeepsWhatIsRetained ==
    [][\A r \in Lost : pruner # "shrink" =>
          IF r.trigger = "periodic"
          THEN r.at < now - Retention
          ELSE Cardinality({q \in rows' : q.trigger = "incident" /\ q.at > r.at})
                 >= MaxIncidents]_vars

(* Size enforcement never runs away: once it has vacuumed, it deletes only *)
(* while the snapshots themselves, free pages aside, exceed the cap.       *)
ShrinksOnlyAsNeeded ==
    [][Lost # {} /\ pruner = "shrink" /\ vacuumed => Cardinality(rows) > MaxPages]_vars

(* "Their count never exceeds maxPeriodicRowsPerWindow."                   *)
WindowBounded == Cardinality(periodic) <= MaxPerWindow

(* The same, when nothing was appended while Recent was running, whatever  *)
(* was pruned under it.                                                    *)
WindowBoundedUnlessRaced == ~raced => WindowBounded

(* The poller does not keep up with size enforcement: from some time on    *)
(* its appends fall between two passes, or before their first deletion, so *)
(* that a pass ends.  The code deletes up to five hundred rows every fifty *)
(* milliseconds while the poller appends at most one a tick.               *)
NotOutpaced ==
    <>[][(pruner \in {"shrink", "vacuum", "remeasure"}) => UNCHANGED nextId]_vars

(* Once the pruner is left alone, the periodic snapshots that have         *)
(* outlived their retention are deleted by some later pass, whatever is    *)
(* appended and whatever else expires meanwhile.  Times after these do not *)
(* outlive it before the clock of the model stops.                         *)
Undisturbed == <>[](~disturbed)
CapturedUpTo(t) == {r \in OfTrigger("periodic") : r.at <= t}
ExpiredEventuallyPruned ==
    Undisturbed /\ NotOutpaced => \A t \in 0..(LastTime - Retention - 1) :
        (t < now - Retention /\ CapturedUpTo(t) # {}) ~> CapturedUpTo(t) = {}

(* "The disk-size guarantee holds regardless of trigger type": a file that *)
(* has grown over the cap gets under it again each time, unless nothing at *)
(* all is left to delete.                                                  *)
SizeEventuallyUnderCap ==
    Undisturbed /\ NotOutpaced => (file > MaxPages ~> (file <= MaxPages \/ rows = {}))
=============================================================================
