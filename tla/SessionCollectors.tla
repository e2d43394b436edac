------------------------- MODULE SessionCollectors --------------------------
(***************************************************************************)
(* FetchActiveSessions of the two engines: what a tick of the poller gets  *)
(* to see of a database that does not stand still while it is read.        *)
(*                                                                         *)
(* PostgreSQL's query lists the sessions and calls pg_blocking_pids for    *)
(* one row after another; a second query reads their locks.  MySQL's       *)
(* adapter asks for the sessions, for all lock waits and for all locks in  *)
(* three queries and joins them by process id.  Neither runs in a          *)
(* transaction.                                                            *)
(*                                                                         *)
(* The database has one lock that matters, on a table or on a transaction. *)
(* The latter is what a session waits for that wants a row or a key of     *)
(* another's transaction: PostgreSQL's 'transactionid', an explicit record *)
(* lock of InnoDB.  Who holds the lock is in a transaction, running a      *)
(* statement or idle.                                                      *)
(***************************************************************************)
EXTENDS Naturals, FiniteSets

CONSTANTS Session, \* the connections of the database
          None     \* nobody

ASSUME SessionAssumption == None \notin Session

(* The database.                                                           *)
VARIABLES state,  \* of a session: "idle", connected or not, "idle in transaction",
                  \* "active" or, as MySQL tells prepared statements from
                  \* others, "executing" one of them
          lock,   \* "table" or "transaction"
          holder, \* who holds the lock
          queue   \* who waits for it

(* The collector.                                                          *)
VARIABLES engine,
          step,    \* "idle", "blockers" or "locks": what is to be read next
          rows,    \* the state of every session listed
          todo,    \* the sessions whose blockers are still to be read
          blocked  \* the blockers of a session, as read

(* Kept for the properties only.                                           *)
VARIABLES waited,  \* who has waited for whom since the fetch began
          moved    \* whether the database has changed since then

databaseVars == <<state, lock, holder, queue>>
fetchVars == <<step, rows, todo, blocked>>
vars == <<databaseVars, engine, fetchVars, waited, moved>>

NoRows == [s \in {} |-> {}]

Init ==
    /\ state = [s \in Session |-> "idle"]
    /\ lock \in {"table", "transaction"}
    /\ holder = None
    /\ queue = {}
    /\ engine \in {"postgres", "mysql"}
    /\ step = "idle"
    /\ rows = NoRows
    /\ todo = {}
    /\ blocked = NoRows
    /\ waited = {}
    /\ moved = FALSE
-----------------------------------------------------------------------------
(* pg_blocking_pids, and the pairs of sys.innodb_lock_waits.               *)
Blockers(s) == IF s \in queue THEN {holder} \ {None} ELSE {}
Waiting == {wait \in Session \X Session : wait[2] \in Blockers(wait[1])}

(* A step of the database beside the fetch.                                *)
Watched ==
    /\ waited' = IF step = "idle" THEN {} ELSE waited \cup Waiting'
    /\ moved' = (step # "idle")
    /\ UNCHANGED <<lock, engine, fetchVars>>

Running == IF engine = "mysql" THEN {"active", "executing"} ELSE {"active"}

Becomes(s, what) == state' = [state EXCEPT ![s] = what]

(* A statement begins, outside or inside a transaction.                    *)
Execute(s, how) ==
    /\ state[s] \in {"idle", "idle in transaction"}
    /\ Becomes(s, how)
    /\ UNCHANGED <<holder, queue>>
    /\ Watched

Ask(s) ==
    /\ state[s] \in Running
    /\ s \notin queue
    /\ s # holder
    /\ queue' = queue \cup {s}
    /\ UNCHANGED <<state, holder>>
    /\ Watched

Grant(s) ==
    /\ s \in queue
    /\ holder = None
    /\ holder' = s
    /\ queue' = queue \ {s}
    /\ UNCHANGED state
    /\ Watched

(* A statement ends, and its transaction stays open.                       *)
Pause(s) ==
    /\ state[s] \in Running
    /\ s \notin queue
    /\ Becomes(s, "idle in transaction")
    /\ UNCHANGED <<holder, queue>>
    /\ Watched

(* Commit, rollback, a timeout, or the connection is lost.                 *)
Finish(s) ==
    /\ state[s] # "idle"
    /\ Becomes(s, "idle")
    /\ holder' = IF holder = s THEN None ELSE holder
    /\ queue' = queue \ {s}
    /\ Watched
-----------------------------------------------------------------------------
(* Plausible mistakes in this code, each of which breaks a property below. *)
ListedWhenActive == {s \in Session : state[s] = "active"}
WaiterAndBlockerSwapped(s, found) == {t \in queue : s = holder}
-----------------------------------------------------------------------------
(* The WHERE clauses.  PostgreSQL leaves out what is idle.  MySQL lists    *)
(* the commands 'Query' and, in a transaction, 'Sleep': a session that     *)
(* runs a prepared statement is in the command 'Execute', and left out.    *)
Listed == {s \in Session : state[s] \in {"active", "idle in transaction"}}

(* How the blockers read for a session are attached to it.                 *)
Attach(s, found) == found

(* activeSessionsQuery, activeThreadsQuery.  Nobody listed is an answer,   *)
(* and nothing more is asked.                                              *)
FetchSessions ==
    /\ step = "idle"
    /\ Listed # {}
    /\ step' = "blockers"
    /\ rows' = [s \in Listed |-> state[s]]
    /\ todo' = Listed
    /\ blocked' = [s \in Listed |-> {}]
    /\ waited' = Waiting
    /\ moved' = FALSE
    /\ UNCHANGED <<databaseVars, engine>>

(* PostgreSQL: the call of pg_blocking_pids for the next row.              *)
BlockingPIDsOf(s) ==
    /\ engine = "postgres"
    /\ step = "blockers"
    /\ s \in todo
    /\ blocked' = [blocked EXCEPT ![s] = Attach(s, Blockers(s))]
    /\ todo' = todo \ {s}
    /\ step' = IF todo = {s} THEN "locks" ELSE "blockers"
    /\ UNCHANGED <<databaseVars, engine, rows, waited, moved>>

(* MySQL: all waits at once, attached to the sessions listed before.       *)
FetchBlockingPIDs ==
    /\ engine = "mysql"
    /\ step = "blockers"
    /\ blocked' = [s \in DOMAIN rows |-> Attach(s, Blockers(s))]
    /\ todo' = {}
    /\ step' = "locks"
    /\ UNCHANGED <<databaseVars, engine, rows, waited, moved>>

(* The locks of a session; one that has none gets an empty list.           *)
(* PostgreSQL's query leaves out the locks on transactions.                *)
Locks(s) ==
    IF engine = "postgres" /\ lock = "transaction" THEN {}
    ELSE IF holder = s THEN {"granted"}
    ELSE IF s \in queue THEN {"waiting"}
    ELSE {}

View == [s \in DOMAIN rows |-> [state |-> rows[s], blockedBy |-> blocked[s], locks |-> Locks(s)]]

Forget ==
    /\ step' = "idle"
    /\ rows' = NoRows
    /\ todo' = {}
    /\ blocked' = NoRows
    /\ waited' = {}
    /\ moved' = FALSE
    /\ UNCHANGED <<databaseVars, engine>>

(* The locks are read and View is returned.                                *)
FetchLocks ==
    /\ step = "locks"
    /\ Forget

(* Any of the queries fails: the sessions already read are not returned.   *)
FetchFails ==
    /\ step # "idle"
    /\ Forget

FetchActiveSessions ==
    \/ FetchSessions
    \/ \E s \in Session : BlockingPIDsOf(s)
    \/ FetchBlockingPIDs
    \/ FetchLocks
    \/ FetchFails

Database ==
    \E s \in Session :
        \/ \E how \in Running : Execute(s, how)
        \/ Ask(s)
        \/ Grant(s)
        \/ Pause(s)
        \/ Finish(s)

Next == Database \/ FetchActiveSessions

Spec == Init /\ [][Next]_vars
-----------------------------------------------------------------------------
(* A session shown as blocked by another did wait for it at some moment of *)
(* the fetch, though neither need be as it is shown by its end.            *)
NoInventedWait ==
    \A s \in DOMAIN blocked : \A t \in blocked[s] : <<s, t>> \in waited

(* A database that stands still during a fetch is shown as it is: every    *)
(* session that is running or holds a transaction open, with exactly its   *)
(* blockers, each of them a session shown too, so that a chain of waits    *)
(* ends at one that can be seen, and it has a waiting lock if and only if  *)
(* it waits.  Two things the queries leave out: on MySQL the sessions that *)
(* run a prepared statement, be it one that blocks others, and on          *)
(* PostgreSQL the lock of a wait for a transaction.                        *)
LeftOut == {s \in Session : state[s] = "executing"}
WaitIsSeen(s) == s \in queue /\ ~(engine = "postgres" /\ lock = "transaction")
AsItIs ==
    /\ DOMAIN View = {s \in Session : state[s] # "idle"} \ LeftOut
    /\ \A s \in DOMAIN View :
         /\ View[s].state = state[s]
         /\ View[s].blockedBy = IF s \in queue /\ holder # None THEN {holder} ELSE {}
         /\ View[s].blockedBy \subseteq DOMAIN View \cup LeftOut
         /\ ("waiting" \in View[s].locks) <=> WaitIsSeen(s)
QuietDatabaseShownAsItIs == [][FetchLocks /\ ~moved => AsItIs]_vars
=============================================================================
