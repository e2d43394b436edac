# pgscope in TLA+

pgscope watches the sessions of a PostgreSQL or MySQL server: a Go process
polls the database, streams what it sees to browsers over server-sent events,
keeps a history of snapshots in SQLite for replay, and answers insight queries.
This directory holds TLA+ models of the parts of it where several goroutines,
timers, statements or requests interleave and of its judgments, redaction and
configuration, the TLC runs that check them on small instances, and TLAPS proofs
of what matters most for every instance.

## 1. Inventory

Paths are relative to `src/`; `go/` stands for `src/go/internal/` below.

| Component | State | Operations | Talks to |
|---|---|---|---|
| Monitoring switch: `go/application/service/recorder.go` | active, current auto-stop timer | Start, Stop, IsActive, the timer's callback | called by HTTP requests through the poller; by the runtime's timers |
| Polling loop: `.../poller.go` | ids blocked on the last tick, time of the last snapshot | Run, tick: fetch, publish, classify, append, statistics | reads the switch; calls collector, publisher and store through ports |
| SSE broadcaster: `go/infrastructure/sse/broadcaster.go` | set of clients, a 50 event channel each | ServeHTTP (register, stream, unregister), Broadcast | one request goroutine per client; Broadcast runs in the poller's goroutine |
| History store: `go/infrastructure/history/sqlite_store*.go` | a table, its file | Append, Recent, Incidents, three pruning functions | the poller, HTTP requests, the pruner; one connection |
| Pruner: `go/cmd/pgscope/main.go` | none | a pass every six hours: age, count, size | the store |
| Access control: `go/presentation/http/*` | bans, two attempt trackers, token buckets | ban check, login, scanner probe, logout | every request |
| Insights service and collectors: `go/infrastructure/{postgres,mysql}/*_collector.go` | MySQL: the counters and the time of the last cycle | some fifteen queries under a five second deadline | the pool of three connections, shared with the poller |
| Session collectors: `go/infrastructure/postgres/collector.go`, `.../mysql/session_collector.go` | none | the sessions, their locks, who blocks whom | called by the poller |
| Redaction: `go/infrastructure/history/redact.go` | none | masks the literals of a query | called by Append |
| Database statistics: `.../database_stats_collector.go` | the counters and time of the last sample | computeRate | called by the poller |
| Judgments: `go/domain/*`, fed by collectors | none | duplicate and unused indexes, sequences, vacuum, pagination | pure |
| Configuration: `go/infrastructure/config` | none | parsing, defaults, bounds | gives the others their constants |
| Lifecycle: `cmd/pgscope/main.go` | the process's context, server, pool, store | start, signal, Shutdown(5 s), deferred closes | everything |
| Lock graph, replay, controls, stream, insights: `src/web/src` | React state | effects, timers, requests in flight | the API |

What is hard about them, and what makes each correct:

- *Switch.* A timer's callback that has started cannot be recalled, and it waits
  for the mutex behind any number of Start and Stop calls. Correct: a timed
  activation ends; none leaks its timer; an unlimited one lasts until stopped.
- *Polling loop.* The switch is read once per tick; every call may fail, and the
  classification remembers before it stores. Correct: a block that begins is
  recorded; one block is one incident; periodic snapshots keep their cadence;
  once monitoring has ended at most the snapshot of the tick under way is stored;
  the loop returns on shutdown.
- *Broadcaster.* Clients read outside the lock while Broadcast makes room for
  the newest event. Correct: no send on a closed channel; events are lost only
  off the old end; the latest always gets through; nobody blocks the poller.
- *Store and pruner.* Single statements are atomic, functions are not; a process
  may stop anywhere. Correct: pruning spares what is retained, makes progress
  after failures, and gets under the disk cap; replay windows are bounded.
- *Access control.* Check, count and ban of a request are separate steps.
  Correct: guesses are bounded, bans are earned, served in full, and end.
- *Lifecycle, pool.* Goroutines nobody waits for, a pool smaller than its users,
  queries that are never answered. Correct: stopping ends, requests do not starve
  the poller nor hang with a query.
- *Views of the database.* A view is put together from several queries, and a
  rate from two views, while the database moves on, resets its counters or
  restarts. Correct: no wait is invented, a commit is counted once, a rate is
  taken over the time it is divided by.
- *Redaction.* Literals hold the signs other literals begin with, and the text
  may be cut anywhere. Correct: nothing of a literal is stored.
- *Configuration.* Numbers are checked before they are multiplied. Correct: what
  Load returns is positive wherever the others need it to be.
- *Judgments.* Advice is followed by people, late and in part. Correct: following
  it never costs a lookup or a constraint, and it misses nothing.
- *Browser.* Answers of requests arrive in any order and replace each other.

The hazards of this code, each at its line, are in `PROJECT.json` under
"hazards", with the properties that cover them or the reason why none does.

## 2. Modules

```
ActivityGate  <--- implements ---  MonitorControl  <--- extends ---  Poller

MonitorControl, Poller, DatabaseStats           <-  Poller_proofs
Broadcaster                                     <-  Broadcaster_proofs
HistoryStore                                    <-  HistoryStore_proofs
AccessControl                                   <-  AccessControl_proofs
Lifecycle                                       <-  Lifecycle_proofs
SessionCollectors                               <-  SessionCollectors_proofs
Insights                                        <-  Insights_proofs
Configuration, Advisories  <-  Reports,
                               DuplicateIndexes,
                               Redaction        <-  Reports_proofs
```

For each of these that a run checks, the module `MC<name>` gives the constants
their values. `MCReports` gives values to Reports and Redaction
together: a behaviour takes one input of either.

**ActivityGate** is the abstract promise of the switch, without timers: what was
last wished for, whether the gate is open, whether an expiry is outstanding.

**MonitorControl** models `recorder.go` with the calls of `poller.go` that reach
it. Every method holds the mutex throughout, so each is one action. The
runtime's side of a timer is `timer[t]`: *idle*, *armed*, or *fired* when the
callback exists but does not hold the mutex. `ArmsTimer` multiplies minutes by
`time.Minute` with the wrap of a signed integer. `asked` and `raced` are
observers.

**Poller** extends it with the loop of `poller.go`, one action per call of a
tick, so that anything happens between two of them. Fetching returns any view
of the sessions or fails; so may Append. `previouslyBlocked` and
`sinceRecorded` are the code's fields (a time is kept up to the interval, which
is all the code compares it with); `lastBlocked`, `onset`, `missed`, `quiet`,
`late` and `appendFailed` only observe. A failure to publish has no effect on
the state and is not told apart.

**Broadcaster** models `broadcaster.go` channel operation by channel operation.
Broadcast holds the read lock from *visit* to its end, which is why `Register`
and `Unregister` are enabled only while it is idle; clients receive at any time.
Events are numbered; the HTTP side of writing is a step that works or fails.

**HistoryStore** models the three `sqlite_store` files and the pruner of
`main.go`: an action is one SQL statement (the store opens a single connection).
Rows have an id, a time and a trigger, and one page each; `file` counts pages,
those freed but not yet vacuumed included.

**AccessControl** models the ban check, the login's token bucket, the login and
scanner handlers, the attempt trackers and the ban store. Each has its own
mutex for one call, so a request has up to four steps. Time is counted in
periods of the bucket.

**Lifecycle** models the process around its connection pool: `run` and
`runServer` of `main.go`, the pool's size, the deadline middleware, the fetch of
an insights request and the tick of the poller as a row of queries, each of
which takes a connection, and may fail or hang. The two engines differ in what
closing their pool waits for. The deferred closes are the step `PoolCloses`,
after which the context is cancelled, in the order the deferred calls run.

**Insights** models `FetchInsights` of both engines in so far as counters are
compared over time. PostgreSQL: the age of the statistics is read first, and
gates the verdict on an index whose counter is read queries later. MySQL: the
`IndexCandidateCollector` keeps the counters and the beginning of the last cycle
for all requests, and each of its methods is a step of its own. Resets and
restarts of the server come in between.

**SessionCollectors** models how a view of the sessions is made: by PostgreSQL in
one query that asks for the blockers row by row and one for the locks, by MySQL in
three, while sessions begin and end transactions and wait for each other's locks
in between. What the queries leave out is left out: MySQL's `activeThreadsQuery`
lists the commands `Query` and `Sleep`, so a session that runs a prepared statement
(`Execute`) is not in the view, and PostgreSQL's `sessionLocksQuery` skips the locks
on transactions, so one that waits for a row or key of another's transaction shows
no waiting lock (its `blockedBy` tells).

**DatabaseStats** models both `database_stats_collector.go`: a baseline that
survives failed readings, stops of monitoring and resets of the counters. Of the
counters one stands for all.

**Redaction** is `redact.go`: one action for each way through the body of its loop
and of the loop of `skipSingleQuoteLiteral`, over symbols that stand for the kinds
of characters they tell apart. Before the scan an author writes the text, token by
token, and the database returns a beginning of it. What a string, a dollar quote,
a number, a name and a placeholder is to the author is stated on its own, without
the scan (`IsStringWith`, `IsDollarQuotedWith`, ...), so the two can be compared.
The output is held as the positions copied and the positions masked: since the
scan only moves forward these, in their order, are what is written.

**Configuration** is `Load`: its order of checks, its
defaults, and products in machine words. **Advisories** holds the other judgments
of `go/domain` (unused indexes, missing-index signals, sequences, vacuum,
idle transactions, replication, functions, pagination) together with the order
and the limit of the queries that feed them.

**Reports** gives Configuration and Advisories inputs: a behaviour takes an
environment to load, a row and a worse one of the same kind, or a catalog of which
a collector reads the top. So what is checked of them, and proved, is stated of a
specification like everything else.

**DuplicateIndexes** models the judgment of `duplicate_index.go` on what
`postgres/duplicate_index_collector.go` reads from the catalog, beside the owner
of a database who fetches reports and follows them late and in any order. Creating
and dropping indexes is the owner's doing and external to the code.

Each module lists a few *plausible mistakes*: variants of an operator with a bug
one could write. Every property of a passing run is violated when the variant
named in `PROJECT.json` takes the operator's place.

## 3. Runs

| Run | Shows | Bounds |
|---|---|---|
| MCPoller | safety and liveness of the loop beside the switch; the switch implements ActivityGate | 2 sessions with 2 durations, snapshots of 1 session, interval 1, 2 timers; 0 minutes, 1 minute, and minutes that wrap to a positive length |
| MCBroadcaster | delivery, no panic, no blocking | 2 clients, buffers of 2, 4 events |
| MCHistoryStore | what pruning may and must delete again and again, bounded windows | 4 rows, times 0 to 2, retention 1, 2 incidents, 1 page, batches of 1 |
| MCAccess | guesses bounded; bans earned the first time, served, over in the end | 1 client, 2 requests, threshold 2, ban of 1, bucket of 1 |
| MCLifecycle | stopping ends, the poller gets connections, requests are answered | 2 requests, 2 queries each, 2 connections |
| MCInsights | what an unused index is, and over which time a rate of writes is taken | 1 request, 2 tables, times 0 to 4 |
| MCInsightsOverlap (violation) | two requests that overlap report a negative rate | 2 requests |
| MCSessions | no wait is invented; a database at rest is shown as it is, but for what the queries leave out | 3 sessions, interchangeable; one lock, on a table or a transaction; both engines |
| MCDatabaseStats | every commit is counted once | 3 commits, 3 block reads |
| MCReports | redaction, configuration and judgments compared with what each is for | texts of up to 2 tokens of 22 shapes, with one or two separators around them, cut at every position; 2 unusual values in an environment; words up to 2047; logarithms to three places of 9 scan counts; lists of 2 |
| MCIndexes | advice can be followed in any order without losing a lookup, and misses nothing | 4 indexes of 1 or 2 columns, 2 shapes |
| MCIndexesIncluded (violation) | included columns pass for key columns | as MCIndexes, with an included column |

Why the bounds are enough to be interesting: two sessions with two durations let
a block begin while another lasts, and force trimming to choose; two timers are
an old callback beside a new activation. Two clients let one leave or stall
while the other is served, and four events overrun a buffer of two twice. With
batches of one row and room for one page every loop of a pruning pass goes
round more than once and appends fall between its rounds. Clients of the access
layer share no state, so one is enough; two requests give every race between
check, count, reset and ban. Two requests whose queries hang take every
connection of a pool of two, so that the poller has to wait for a deadline; two
queries let a connection go back between them. In Insights, four units of time
leave room for two cycles with a reset between them, and of two tables one can
leave the candidates while the other stays. Three sessions are the least in which
the blocker of one waits itself and a third takes its place. Two tokens of
a text let a literal be followed, or cut off, where another was masked or copied
before it; the theorems hold for any number. Four indexes
make a chain, with a tie, in which each index covers for one dropped before it.
All counters that would grow without end stop at a
named bound (`LastEvent`, `LastId`, `LastTime`, `CountBound`, `MaxTime`,
`MaxWrites`, `MaxCount`) or at the value beyond which the code tells nothing
apart (`sinceRecorded`, `quiet`, `late`).

Where a bound is spent the other actors go on: clients come and go after the last
event, the pruner and the readers after the last row. The deadlock check is off
only where the system really stops: when the process has exited (MCLifecycle), and
when an input has been judged (MCReports).

In MCReports a behaviour takes one input of Reports in a single step, or writes a
text and scans it; the properties compare what the code makes of them with
definitions of what it is for.

## 4. Fairness

- *Poller*: weak fairness of the ticker, of what a tick does by itself, of time,
  and of timers and their callbacks (the runtime fires timers, a mutex is handed
  on); strong fairness of `Return`, because `select` chooses at random among ready
  channels. Publishing never blocks, and an Append, a statement on the process's
  own SQLite file, is assumed to return, with an error or without. The queries of
  the monitored database are not: their context has no deadline (poller.go:96), and
  they may hang for ever. Only once the context is cancelled do the drivers return
  an error, which is assumed. `HistoryKeepsGrowing` therefore has a premise of its
  own, that fetches go on returning with sessions; `PollerReturns` and
  `TimedMonitoringEnds` need none. Nothing is assumed of the callers.
- *Broadcaster*: weak fairness of a broadcast under way (the goroutine runs),
  strong fairness of `Unregister` (a waiting writer of a `sync.RWMutex` keeps
  new readers out). Nothing is assumed of clients: they may never read.
- *HistoryStore*: weak fairness of the pruner's next statement. Its liveness
  properties are leads-to formulas: rows keep expiring and the file keeps growing
  between two passes, and each time some later pass catches up. They assume that
  from some time on no statement fails and the process is not restarted
  (`Undisturbed`), and that no append falls between the deletions of size
  enforcement (`NotOutpaced`): it deletes up to five hundred rows every fifty
  milliseconds, against at most one append a tick, and would otherwise have no end
  if the poller kept pace. The model's clock and ids are bounded, so expiry is
  asked of the times that outlive their retention within the bound.
- *AccessControl*: weak fairness of time and of a handler under way.
- *Lifecycle*: weak fairness of deadlines, of being turned away by a closed pool,
  of queries that do not hang, of the poller's and of main's steps; strong
  fairness of getting a connection, because pgx serves its waiters in order and
  database/sql picks one at random. Nothing makes a client leave, a stream end,
  a hung query return or a signal come.

## 5. Proofs

The theorems hold for all values of the constants that satisfy the modules'
ASSUMEs, which TLC also evaluates in each run. Each safety proof follows one line:
the invariant is strengthened until every step keeps it, one named step of the
proof for each action.

*The switch.* The inductive invariant `ControlInv` adds to the type invariant
that an armed timer is the current one, that an active timed activation has its
own timer outstanding, and that an activation with no limit keeps no timer and,
if it found no fired callback outstanding, still finds none: that is what makes
it last. Every action keeps it (`ControlStepInv`). It needs `MinutesFit`: the
minutes asked for do not overflow a `time.Duration`, without which an activation
gets no timer. `ControlImplementsGate` maps each
action to a step of ActivityGate, under the same assumption.

*The loop.* `PollerInv` = types, plus `BlockInv` (what was last classified is
what `previouslyBlocked` holds, and while no Append has failed whatever is
missing from the history is in the snapshot under way), `LateInv` (a snapshot
appended late is the only one, and no other tick is under way) and `CadenceInv`
(the loop's own clock never runs ahead of the observed one). It gives
`PollerTypeOK`, `PollerSafety` and `PollerCadence`. `PollerRefinesControl` shows
that the composition still is the switch, hence everything proved about the
switch holds beside the loop (`PollerControlSafety`, `PollerImplementsGate`).

*The broadcaster.* `BroadcasterInv` adds that a registered client is exactly one
whose handler has not gone and whose channel is open, that Broadcast visits only
registered clients, that each buffer is a run of consecutive events newer than
what was written, and that its end is the current event or, for a client still
to be visited, the one before. `TailOfRun` and `AppendToRun` are the facts about
runs that the steps need. From it follow `BroadcasterNeverPanics`,
`BroadcasterBacklog` (events are lost off the old end only) and
`BroadcasterDelivery` (the latest gets through).

*The history store.* `HistoryInv` has four parts. `TableInv`: rows are finitely
many and no id is used twice. `PrunerInv` says what a statement of a pass may rely
on from the ones before: what age pruning still has to delete is older than the
retention now as well as when it began, and at least `MaxIncidents` incidents are
not older than the cutoff of `PruneExcessIncidents` (`CutoffSparesEnough`), which
appends can only add to. It carries `HistoryKeeps`. `SizeInv`: between a vacuum and
the next deletion the file is no larger than its rows, so a file that measures too
large has too many (`HistoryShrinks`). `ReaderInv`: the stride of a window was
chosen for at least as many rows as there are to read, unless one was appended
(`HistoryWindows`). The prover has no induction over numbers; instead,
`LeastNumber` gets the least element of a set from the well-foundedness of strict
inclusion among finite sets, one of the library's theorems.

*Access.* Three strengthenings. `Served`: what is left of a ban and the time
since it began add up to its length, so a ban that is lifted was served
(`BansAreServed`). `Counted`: the guesses a client has made since it last had a
clean slate are at most the wrong keys counted against it and those of its
requests under way (`GuessesAreBounded`). `Earned`: a client never banned has
made every mistake it is counted for, and those of each kind apart
(`FirstBansAreEarned`).

*The session collectors.* `SessionInv`: who holds the lock or waits for it is a
session in a transaction (`LockInv`), a fetch holds only what it has read
(`FetchInv`), whoever waits while a fetch is under way is noted (`WaitInv`), and
while nothing has moved what was read is still so (`QuietInv`). `WaitsAreReal`
and `QuietIsShown` follow for any number of sessions; the latter excepts MySQL's
prepared statements and PostgreSQL's locks on transactions (`LeftOut`, `WaitIsSeen`).

*The insights.* `ClockInv`: since the statistics were reset, or the server
started, every scan has been counted, and a request that knows of no reset has not
read an age beyond the true one; an index with few scans then had few lately
(`UnusedIsUnused`, for any number of requests). The two theorems on rates assume
`OneRequest`, and MCInsightsOverlap shows why. `CounterInv`: of counters without a
reset between them, the one kept is at most the one read, and that at most the
present one; a second request that keeps its own would break exactly the first of
these (`RatesAreRates`). `IntervalInv`: a cycle begins `lag` after its counters
were read, and what the last cycle kept was read when it was
(`RatesOverTheirTime`).

*The statistics.* The baseline is what a reading found, and between two readings
without a reset the counter and the commits made grow together
(`CommitsCountedOnce`).

*The process.* The type invariant is inductive, and bounds the pool: it never has
more connections in use than it holds (`LifecycleTypeOK`).

*The configuration.* For any environment, what Load returns without an error is
positive where it has to be, unless a product overflowed or the rate is NaN
(`LoadIsUsable`, and `ConfigurationUsable` of Reports); the lemma
`LoadRefusesWhatFails` gives it that every variable was then accepted. The
products do not overflow because they are compared with the largest integer; that
the defaults do not is the module's assumption.

*The judgments.* `AdvisoriesStay` covers all fifteen kinds of rows. Fourteen are
thresholds on sums and ratios. The index candidate is not: its strength is the
logarithm of its sequential scans times their share. `math.Log2` is a parameter,
a function to whole multiples of a unit as small as one likes (a float64 is one),
of which `LogAssumption` asks only that it does not fall. `StrongSignalStays` rests
on two facts about naturals: a logarithm that outweighs the threshold is itself at
least the threshold (`FactorIsLarge`), and so outweighs what more scans add to the
denominator (`OutweighsMore`). The rounding of the quotient and of the product,
at most a few units of the last place, is left out. `NothingIsLeftOut` rests on
`TopHoldsReported`: an order that puts nothing above what is to be reported but
what is to be reported as well loses nothing to a LIMIT. For functions that needs
the products of a comparison of averages, for unused indexes that all of one
database have statistics of one age (`OfOneDatabase`).

*The index advice.* `Redundant` is asymmetric and transitive
(`RedundantAsymmetric`, `RedundantTransitive`). The invariant `IndexInv` says
that whatever was reported is made redundant by an index known at some time, and
whatever was dropped by an index that is still there. When an index is dropped,
what was to cover for it either still exists or has itself been replaced by
something that covers for both. `AdviceIsSafe` and `AdviceIsComplete` assume
that no index includes columns beside its key; MCIndexesIncluded shows why.
Operator classes, collations and exclusion constraints are neither read
(`duplicate_index_collector.go:18-26`) nor in the model: indexes that differ in these
alone are taken for equal by both, and the theorems say nothing of the lookups and
constraints that tell them apart.

*Redaction.* The scan knows no tokens, only the symbols at its position, and
nothing can be said of its result by induction over the text. Its loop is a state
machine instead, and `RedactionInv` an invariant of its turns (`RedactionInductive`).
`TextInv`: the tokens are disjoint, each stands between two separators or at the
beginning of the text, and what is in none is a separator. `PositionInv`: a turn of the outer
loop begins at a token, in a name or between two tokens; one of the inner loop
within a string, behind the quote that opens it and never between the quotes of a
pair (`InString`). Or, in both, only what opens a literal that is cut is left
(`Leftover`): a delimiter that lost its second `$`, the prefix of a string, the
mark and sign of an exponent. The scan takes those for something else, which does
no harm. `OutputInv`: what is written is what is due for the positions passed. There
is a lemma for what a turn does at each kind of token (`TurnAtString`,
`TurnAtDollarQuote`, `TurnAtNumber`, `TurnAtPlaceholder`, `TurnInName`,
`TurnBetween`), whole or cut; they rest on where the scan says a token ends and
where its author does being the same (`DelimiterFound`, `RadixNumberSkipped`,
`DecimalSkipped`). Where a run of characters ends is a least number again
(`LeastOf`). `MasksLiterals` and `CutTextIsSafe` follow for any text of tokens of
these shapes. `RedactionAssumption` says what is assumed of a text: between two
tokens stands at least one symbol that belongs to none (no letter, digit, `$`, quote
or dot), and a quote within a string is doubled, not escaped by a backslash.
Comments, double-quoted names that hold an apostrophe and MySQL's double-quoted
strings are outside of it. The collectors read normalized text (pg_stat_statements,
`DIGEST_TEXT`), so the scan, and a cut even more so, seldom meets a literal.

Only model-checked: every liveness property, for temporal reasoning under fairness
is beyond the prover. Every invariant and every action property of a passing run
is a theorem.

## 6. What the runs found

Two runs end in a violation of something the repository says of itself;
`PROJECT.json` quotes the lines under "findings":

- an index with an included column passes for one with a longer key;
- of two insights requests that overlap, the later may leave the earlier a
  counter from its future, and a rate of writes is negative.

Other places where the code falls short of what one would expect appear as the
exception a property makes, named at the property:

- a stale callback ends an unlimited activation (`FullCutOnlyByStaleCallback`);
- minutes that wrap to zero or below start monitoring without end (`MinutesFit`, an
  assumption of the proofs; the run asks for none such);
- a failed Append loses an incident (`BlockRecordedUnlessAppendFails`);
- a replay window can exceed its cap (`WindowBoundedUnlessRaced`);
- incidents can be deleted while the snapshots fit (`ShrinksOnlyAsNeeded`);
- a ban leaves the count behind that caused it, so one mistake bans again
  (`FirstBanIsEarned`);
- when the listener fails, the pool is closed before the context is cancelled,
  and on PostgreSQL the exit waits for a poller whose query hangs (`StoppingEnds`);
- the MySQL writes of several cycles may be divided by the length of one
  (`RatesOverTheirOwnInterval`);
- a number of days or megabytes whose product wraps, and a rate of NaN, are
  accepted (`ConfigurationIsUsable`);
- OFFSET queries are judged among fifty chosen by their calls, so a slow one
  called seldom is never seen (`NothingCrowdedOut` leaves that list out);
- a MySQL session that runs a prepared statement is not listed, though it may block
  one that is, and a PostgreSQL session that waits for a row shows no waiting lock
  (`QuietDatabaseShownAsItIs`). The comment at `mysql/session_collector.go:28-31`
  takes `Query` and `Sleep` for the only commands of a client connection.

Read in the code and not modelled: a backslash escapes a quote in an `E''` string
but not in the scan of `redact.go`; `replication_lag` of a standby that has not
replayed anything is NULL, which fails the report; the idle and query times the
MySQL collectors report are ages of the transaction; the join with
pg_stat_statements on the query id alone (`postgres/collector.go:27`) lists a session
once for every user and database that has run its query, and the join with
`events_statements_current` once for every statement of a MySQL thread that is nested.
The exceptions above are what the properties do not catch: each says that nothing
else goes wrong.

## 7. What is not modelled, and the plan

Outside the models for good: SQL text and drivers (a collector is seen through
what it reads, orders and limits), rendering, wording and logging, the load
generator. Abstracted: times are small numbers that never run back, history rows
have equal size, history files were created by the current version (with
incremental auto-vacuum).

Not modelled yet, in the order of what it would add:

1. **BrowserRequests**: the replay player, the insights panel and the monitoring
   controls with requests in flight, composed with MonitorControl. Two hazards
   wait for it. The lock graph, the event stream and the presentation components
   hold no state of their own beside these.
2. **HistoryQuery**: merge and order of a replay window, and the ring buffer, a
   second implementation of the store's port that main does not use.
3. Incidents whose blocker changes: the poller's sessions would need a blocker.
4. The event publisher: it formats a snapshot and hands it to Broadcast, and keeps
   nothing.
5. The HTTP handlers beyond the switch, the deadline and the login: they decode,
   call and encode.
6. Proofs: how far below zero a rate of two overlapping requests can get, and what
   the scan makes of tokens that touch, as in `$1'a'`.
