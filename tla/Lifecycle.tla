----------------------------- MODULE Lifecycle ------------------------------
(***************************************************************************)
(* The process of main.go around its shared connection pool.               *)
(*                                                                         *)
(* The poller and every insights request run several queries in a row and  *)
(* take a connection of the pool for each.  A request carries a deadline   *)
(* that covers the wait for a connection as well as the query; the poller  *)
(* has none, only the context that a signal cancels.  A query may hang for *)
(* good: the server accepts it and never answers.                          *)
(*                                                                         *)
(* run() ends in two ways.  After a signal it shuts the HTTP server down,  *)
(* which waits for the open requests and gives up after five seconds.  A   *)
(* listener that fails makes it return at once.  Then the deferred calls   *)
(* run, last in first out: the store and the pool are closed, and only     *)
(* then is the context cancelled.  Nobody waits for the poller itself, but *)
(* closing the pool of pgx waits for every connection that is in use.      *)
(***************************************************************************)
EXTENDS Naturals, FiniteSets

CONSTANTS Request,  \* the insights requests that may be open at the same time
          Poller,   \* the polling goroutine
          MaxConns, \* the size of the pool, 3 in the code
          Queries   \* the queries of a fetch or a tick

User == Request \cup {Poller}

ASSUME LifecycleAssumption ==
    /\ IsFiniteSet(Request)
    /\ Poller \notin Request
    /\ MaxConns \in Nat \ {0}
    /\ Queries \in Nat \ {0}

VARIABLES engine,    \* which of the two pools is in use
          main,      \* "serving", "draining" in server.Shutdown, "closing" in
                     \* the deferred calls, "exited"
          cancelled, \* whether the context of main is cancelled
          at,        \* what a user does: "idle", "waiting" for a connection,
                     \* "querying", or "returned"
          left,      \* the queries it has still to run
          hung,      \* the users whose query will never be answered
          streams,   \* whether a browser holds the event stream open
          answer     \* what the last request was answered: "none", "ok",
                     \* "unavailable" (503) or "error" (500)

mainVars == <<main, cancelled>>
userVars == <<at, left, hung, answer>>
vars == <<engine, main, cancelled, at, left, hung, streams, answer>>

InUse == {u \in User : at[u] = "querying"}

TypeOK ==
    /\ engine \in {"postgres", "mysql"}
    /\ main \in {"serving", "draining", "closing", "exited"}
    /\ cancelled \in BOOLEAN
    /\ at \in [User -> {"idle", "waiting", "querying", "returned"}]
    /\ left \in [User -> 0..Queries]
    /\ hung \subseteq InUse
    /\ Cardinality(InUse) <= MaxConns
    /\ streams \in BOOLEAN
    /\ answer \in [Request -> {"none", "ok", "unavailable", "error"}]

Init ==
    /\ engine \in {"postgres", "mysql"}
    /\ main = "serving"
    /\ cancelled = FALSE
    /\ at = [u \in User |-> "idle"]
    /\ left = [u \in User |-> 0]
    /\ hung = {}
    /\ streams = FALSE
    /\ answer = [r \in Request |-> "none"]
-----------------------------------------------------------------------------
(* The steps a user's fetch ends by.  Its connection, if it has one, goes  *)
(* back to the pool.                                                       *)
Ends(u) ==
    /\ at' = [at EXCEPT ![u] = "idle"]
    /\ left' = [left EXCEPT ![u] = 0]
    /\ hung' = hung \ {u}

Answered(r, what) ==
    /\ Ends(r)
    /\ answer' = [answer EXCEPT ![r] = what]

Abandoned(u) ==
    IF u \in Request THEN Answered(u, "error") ELSE Ends(u) /\ UNCHANGED answer
-----------------------------------------------------------------------------
(* Plausible mistakes in this code, each of which breaks a property below. *)
DeadlineForWaitingOnly(r) ==
    /\ at[r] = "waiting"
    /\ Answered(r, "unavailable")
    /\ UNCHANGED <<engine, mainVars, streams>>
NoShutdownTimeout == FALSE /\ UNCHANGED vars
-----------------------------------------------------------------------------
(* server.Shutdown closes the listener before it waits. What a connection  *)
(* kept alive past a failed listener still asks is left out: its pool is   *)
(* about to be closed.                                                     *)
Accepting == main = "serving"
PoolOpen == main \in {"serving", "draining"}
ConnFree == Cardinality(InUse) < MaxConns

BeginRequest(r) ==
    /\ Accepting
    /\ at[r] = "idle"
    /\ at' = [at EXCEPT ![r] = "waiting"]
    /\ left' = [left EXCEPT ![r] = Queries]
    /\ answer' = [answer EXCEPT ![r] = "none"]
    /\ UNCHANGED <<engine, mainVars, hung, streams>>

(* A tick of the poller while monitoring is on.                            *)
Tick ==
    /\ ~cancelled
    /\ at[Poller] = "idle"
    /\ at' = [at EXCEPT ![Poller] = "waiting"]
    /\ left' = [left EXCEPT ![Poller] = Queries]
    /\ UNCHANGED <<engine, mainVars, hung, streams, answer>>

Acquire(u) ==
    /\ at[u] = "waiting"
    /\ PoolOpen
    /\ ConnFree
    /\ at' = [at EXCEPT ![u] = "querying"]
    /\ UNCHANGED <<engine, mainVars, left, hung, streams, answer>>

(* A closed pool turns everybody away.                                     *)
Refused(u) ==
    /\ at[u] = "waiting"
    /\ ~PoolOpen
    /\ Abandoned(u)
    /\ UNCHANGED <<engine, mainVars, streams>>

(* The rows are read and closed; the next query asks for a connection.     *)
QueryReturns(u) ==
    /\ at[u] = "querying"
    /\ u \notin hung
    /\ left[u] > 1
    /\ at' = [at EXCEPT ![u] = "waiting"]
    /\ left' = [left EXCEPT ![u] = @ - 1]
    /\ UNCHANGED <<engine, mainVars, hung, streams, answer>>

LastQueryReturns(u) ==
    /\ at[u] = "querying"
    /\ u \notin hung
    /\ left[u] = 1
    /\ IF u \in Request THEN Answered(u, "ok") ELSE Ends(u) /\ UNCHANGED answer
    /\ UNCHANGED <<engine, mainVars, streams>>

(* The first error ends the fetch.                                         *)
QueryFails(u) ==
    /\ at[u] = "querying"
    /\ u \notin hung
    /\ Abandoned(u)
    /\ UNCHANGED <<engine, mainVars, streams>>

QueryHangs(u) ==
    /\ at[u] = "querying"
    /\ hung' = hung \cup {u}
    /\ UNCHANGED <<engine, mainVars, at, left, streams, answer>>

(* The deadline of withRequestTimeout.                                     *)
DeadlinePasses(r) ==
    /\ at[r] \in {"waiting", "querying"}
    /\ Answered(r, "unavailable")
    /\ UNCHANGED <<engine, mainVars, streams>>

(* The request's context is cancelled when its client goes away.           *)
ClientLeaves(r) ==
    /\ at[r] \in {"waiting", "querying"}
    /\ Answered(r, "error")
    /\ UNCHANGED <<engine, mainVars, streams>>

(* The context of main reaches the poller in a query or a wait, and its    *)
(* loop between two ticks.                                                 *)
PollerCancelled ==
    /\ cancelled
    /\ at[Poller] \in {"waiting", "querying"}
    /\ Ends(Poller)
    /\ UNCHANGED <<engine, mainVars, streams, answer>>

PollerReturns ==
    /\ cancelled
    /\ at[Poller] = "idle"
    /\ at' = [at EXCEPT ![Poller] = "returned"]
    /\ UNCHANGED <<engine, mainVars, left, hung, streams, answer>>

(* An event stream has no write deadline: only its client ends it.         *)
OpenStream ==
    /\ Accepting
    /\ ~streams
    /\ streams' = TRUE
    /\ UNCHANGED <<engine, mainVars, userVars>>

CloseStream ==
    /\ streams
    /\ streams' = FALSE
    /\ UNCHANGED <<engine, mainVars, userVars>>
-----------------------------------------------------------------------------
(* signal.NotifyContext is stopped last of all, so a signal is heard until *)
(* the process ends.                                                       *)
Signal ==
    /\ ~cancelled
    /\ cancelled' = TRUE
    /\ UNCHANGED <<engine, main, streams, userVars>>

BeginShutdown ==
    /\ main = "serving"
    /\ cancelled
    /\ main' = "draining"
    /\ UNCHANGED <<engine, cancelled, streams, userVars>>

Drained ==
    /\ main = "draining"
    /\ ~streams
    /\ \A r \in Request : at[r] = "idle"
    /\ main' = "closing"
    /\ UNCHANGED <<engine, cancelled, streams, userVars>>

ShutdownTimesOut ==
    /\ main = "draining"
    /\ main' = "closing"
    /\ UNCHANGED <<engine, cancelled, streams, userVars>>

(* ListenAndServe returns an error of its own: the other arm of the select *)
ListenFails ==
    /\ main = "serving"
    /\ main' = "closing"
    /\ UNCHANGED <<engine, cancelled, streams, userVars>>

(* pool.Close of pgx waits for the connections in use, the one of          *)
(* database/sql only for those in the pool.                                *)
PoolCloses ==
    /\ main = "closing"
    /\ engine = "postgres" => InUse = {}
    /\ main' = "exited"
    /\ cancelled' = TRUE
    /\ UNCHANGED <<engine, streams, userVars>>
-----------------------------------------------------------------------------
RequestSteps(r) ==
    \/ BeginRequest(r)
    \/ DeadlinePasses(r)
    \/ ClientLeaves(r)

UserSteps(u) ==
    \/ Acquire(u)
    \/ Refused(u)
    \/ QueryReturns(u)
    \/ LastQueryReturns(u)
    \/ QueryFails(u)
    \/ QueryHangs(u)

PollerSteps == Tick \/ PollerCancelled \/ PollerReturns

MainSteps ==
    \/ BeginShutdown
    \/ Drained
    \/ ShutdownTimesOut
    \/ PoolCloses

(* Nothing runs once the process has exited.                               *)
Next ==
    /\ main # "exited"
    /\ \/ \E r \in Request : RequestSteps(r)
       \/ \E u \in User : UserSteps(u)
       \/ PollerSteps
       \/ OpenStream \/ CloseStream
       \/ Signal \/ ListenFails
       \/ MainSteps

Spec == Init /\ [][Next]_vars

(* Deadlines and timeouts pass, a query that does not hang returns, and    *)
(* main and the poller are scheduled.  pgx serves its waiters in order and *)
(* database/sql picks one at random, so a waiter that finds a connection   *)
(* free again and again gets one.  Nothing makes a client leave, a stream  *)
(* end or a signal come.                                                   *)
Fairness ==
    /\ \A r \in Request : WF_vars(main # "exited" /\ DeadlinePasses(r))
    /\ \A u \in User :
         /\ SF_vars(main # "exited" /\ Acquire(u))
         /\ WF_vars(main # "exited" /\ Refused(u))
         /\ WF_vars(main # "exited" /\ (QueryReturns(u) \/ LastQueryReturns(u)))
    /\ WF_vars(main # "exited" /\ (PollerCancelled \/ PollerReturns))
    /\ WF_vars(main # "exited" /\ MainSteps)

FairSpec == Spec /\ Fairness
-----------------------------------------------------------------------------
(* Once main is stopping the process ends.  Event streams that stay open   *)
(* and requests whose queries hang do not keep it, nor does a query of the *)
(* poller, unless the listener failed and no signal came: then the context *)
(* is not cancelled before the pool is closed, and closing it waits for a  *)
(* poller that hangs.                                                      *)
PollerHangsUncancelled == Poller \in hung /\ ~cancelled
StoppingEnds ==
    (cancelled \/ main = "closing") ~> (main = "exited" \/ PollerHangsUncancelled)

(* The poller is not starved of connections by requests, however many of   *)
(* their queries hang: a deadline frees what they hold.                    *)
PollerIsServed ==
    (at[Poller] = "waiting") ~> (at[Poller] # "waiting" \/ main = "exited")

(* Every request is answered, also one whose query hangs and one that gets *)
(* no connection because the others hang, unless the process ends first.   *)
RequestsAnswered ==
    \A r \in Request : (at[r] = "waiting") ~> (at[r] = "idle" \/ main = "exited")
=============================================================================
