---------------------- MODULE SessionCollectors_proofs ----------------------
(***************************************************************************)
(* Proofs about what a tick gets to see of the sessions, for any number of *)
(* them, either engine and any change of the database between two queries  *)
(* of a fetch.                                                             *)
(***************************************************************************)
EXTENDS SessionCollectors, TLAPS

States == {"idle", "active", "executing", "idle in transaction"}

(* Who holds the lock is in a transaction, and who waits is running.       *)
LockInv ==
    /\ state \in [Session -> States]
    /\ engine \in {"postgres", "mysql"}
    /\ holder \in Session \cup {None}
    /\ queue \subseteq Session
    /\ \A s \in queue : state[s] \in Running /\ s # holder
    /\ holder # None => state[holder] \in Running \cup {"idle in transaction"}

(* What a fetch under way has in its hands.                                *)
FetchInv ==
    /\ step \in {"idle", "blockers", "locks"}
    /\ DOMAIN blocked = DOMAIN rows
    /\ todo \subseteq DOMAIN rows
    /\ step = "idle" => DOMAIN blocked = {}

(* Nobody waits during a fetch without being noticed.                      *)
WaitInv ==
    /\ step # "idle" => Waiting \subseteq waited
    /\ NoInventedWait

(* While the database stands still, what has been read of it is still so.  *)
QuietInv ==
    step # "idle" /\ moved # TRUE =>
        /\ DOMAIN rows = Listed
        /\ \A s \in Listed : rows[s] = state[s]
        /\ \A s \in Listed \ todo : blocked[s] = Blockers(s)
        /\ step = "locks" => todo = {}

SessionInv == LockInv /\ FetchInv /\ WaitInv /\ QuietInv
-----------------------------------------------------------------------------
LEMMA SessionInitInv == Init => SessionInv
<1> SUFFICES ASSUME Init
             PROVE  SessionInv
  OBVIOUS
<1>1. LockInv
  BY DEF Init, LockInv, States
<1>2. step = "idle" /\ DOMAIN rows = {} /\ DOMAIN blocked = {} /\ todo = {}
  BY DEF Init, NoRows
<1>3. FetchInv /\ WaitInv /\ QuietInv
  BY <1>2 DEF FetchInv, WaitInv, NoInventedWait, QuietInv
<1> QED BY <1>1, <1>3 DEF SessionInv

(* A step of the database beside the fetch is noticed.                     *)
LEMMA WatchedInv ==
  ASSUME SessionInv, Watched
  PROVE  FetchInv' /\ WaitInv' /\ QuietInv'
<1>1. UNCHANGED <<step, rows, todo, blocked>>
  BY DEF Watched, fetchVars
<1>2. FetchInv'
  BY <1>1 DEF SessionInv, FetchInv
<1>3. CASE step = "idle"
  <2>1. DOMAIN blocked' = {} /\ step' = "idle"
    BY <1>1, <1>3 DEF SessionInv, FetchInv
  <2> QED BY <1>2, <2>1 DEF WaitInv, NoInventedWait, QuietInv
<1>4. CASE step # "idle"
  <2>1. waited' = waited \cup Waiting' /\ moved' = TRUE
    BY <1>4 DEF Watched
  <2>2. WaitInv'
    BY <1>1, <2>1 DEF SessionInv, WaitInv, NoInventedWait
  <2>3. QuietInv'
    BY <2>1 DEF QuietInv
  <2> QED BY <1>2, <2>2, <2>3
<1> QED BY <1>3, <1>4

LEMMA DatabaseInv == SessionInv /\ Database => SessionInv'
<1> SUFFICES ASSUME SessionInv, NEW s \in Session,
                    \/ \E how \in Running : Execute(s, how)
                    \/ Ask(s) \/ Grant(s) \/ Pause(s) \/ Finish(s)
             PROVE  SessionInv'
  BY DEF Database
<1>1. Watched
  BY DEF Execute, Ask, Grant, Pause, Finish
<1>2. LockInv'
  <2>1. engine' = engine
    BY <1>1 DEF Watched
  <2> USE SessionAssumption, <2>1 DEF SessionInv, LockInv, States, Running, Becomes
  <2>2. ASSUME NEW how \in Running, Execute(s, how)
        PROVE  LockInv'
    BY <2>2 DEF Execute
  <2>3. CASE Ask(s)
    BY <2>3 DEF Ask
  <2>4. CASE Grant(s)
    BY <2>4 DEF Grant
  <2>5. CASE Pause(s)
    BY <2>5 DEF Pause
  <2>6. CASE Finish(s)
    BY <2>6 DEF Finish
  <2> QED BY <2>2, <2>3, <2>4, <2>5, <2>6
<1> QED BY <1>1, <1>2, WatchedInv DEF SessionInv
-----------------------------------------------------------------------------
(* The collector only reads.                                               *)
LEMMA DatabaseUntouched ==
  ASSUME SessionInv, UNCHANGED databaseVars, UNCHANGED engine
  PROVE  /\ LockInv'
         /\ Listed' = Listed /\ Waiting' = Waiting
         /\ \A s : Blockers(s)' = Blockers(s)
BY DEF databaseVars, SessionInv, LockInv, Running, Listed, Waiting, Blockers

(* A session's blockers, when read, are sessions it waits for.             *)
LEMMA BlockersAreWaitedFor ==
  ASSUME SessionInv, NEW s, NEW t \in Blockers(s)
  PROVE  <<s, t>> \in Waiting
<1>1. s \in Session /\ t \in Session
  BY DEF SessionInv, LockInv, Blockers
<1> QED BY <1>1 DEF Waiting

LEMMA FetchSessionsInv == SessionInv /\ FetchSessions => SessionInv'
<1> SUFFICES ASSUME SessionInv, FetchSessions
             PROVE  SessionInv'
  OBVIOUS
<1>1. /\ LockInv'
      /\ Listed' = Listed /\ Waiting' = Waiting
      /\ state' = state
  BY DatabaseUntouched DEF FetchSessions, databaseVars
<1>2. /\ step' = "blockers"
      /\ rows' = [s \in Listed |-> state[s]]
      /\ todo' = Listed
      /\ blocked' = [s \in Listed |-> {}]
      /\ waited' = Waiting
  BY DEF FetchSessions
<1>3. FetchInv'
  BY <1>2 DEF FetchInv
<1>4. WaitInv'
  BY <1>1, <1>2 DEF WaitInv, NoInventedWait
<1>5. QuietInv'
  BY <1>1, <1>2 DEF QuietInv
<1> QED BY <1>1, <1>3, <1>4, <1>5 DEF SessionInv

LEMMA BlockingPIDsOfInv ==
  ASSUME SessionInv, NEW s \in Session, BlockingPIDsOf(s)
  PROVE  SessionInv'
<1>1. /\ LockInv'
      /\ Listed' = Listed /\ Waiting' = Waiting
      /\ \A r : Blockers(r)' = Blockers(r)
      /\ UNCHANGED <<state, rows, waited, moved>>
  BY DatabaseUntouched DEF BlockingPIDsOf, databaseVars
<1>2. /\ step = "blockers" /\ s \in todo
      /\ blocked' = [blocked EXCEPT ![s] = Blockers(s)]
      /\ todo' = todo \ {s}
      /\ step' = IF todo = {s} THEN "locks" ELSE "blockers"
  BY DEF BlockingPIDsOf, Attach
<1>3. FetchInv'
  BY <1>1, <1>2 DEF SessionInv, FetchInv
<1>4. WaitInv'
  <2>1. Waiting' \subseteq waited'
    BY <1>1, <1>2 DEF SessionInv, WaitInv
  <2>2. ASSUME NEW r \in DOMAIN blocked', NEW t \in blocked'[r]
        PROVE  <<r, t>> \in waited'
    <3>1. CASE r = s
      BY <1>1, <1>2, <2>1, <2>2, <3>1, BlockersAreWaitedFor
    <3>2. CASE r # s
      BY <1>1, <1>2, <2>2, <3>2 DEF SessionInv, WaitInv, NoInventedWait
    <3> QED BY <3>1, <3>2
  <2> QED BY <2>1, <2>2 DEF WaitInv, NoInventedWait
<1>5. QuietInv'
  <2> SUFFICES ASSUME moved # TRUE
               PROVE  /\ DOMAIN rows' = Listed'
                      /\ \A r \in Listed' : rows'[r] = state'[r]
                      /\ \A r \in Listed' \ todo' : blocked'[r] = Blockers(r)'
                      /\ step' = "locks" => todo' = {}
    BY <1>1 DEF QuietInv
  <2>1. /\ DOMAIN rows = Listed
        /\ \A r \in Listed : rows[r] = state[r]
        /\ \A r \in Listed \ todo : blocked[r] = Blockers(r)
    BY <1>2 DEF SessionInv, QuietInv
  <2>2. \A r \in Listed \ todo' : blocked'[r] = Blockers(r)
    BY <1>2, <2>1 DEF SessionInv, FetchInv
  <2>3. step' = "locks" => todo' = {}
    BY <1>2
  <2> QED BY <1>1, <2>1, <2>2, <2>3
<1> QED BY <1>1, <1>3, <1>4, <1>5 DEF SessionInv

LEMMA FetchBlockingPIDsInv == SessionInv /\ FetchBlockingPIDs => SessionInv'
<1> SUFFICES ASSUME SessionInv, FetchBlockingPIDs
             PROVE  SessionInv'
  OBVIOUS
<1>1. /\ LockInv'
      /\ Listed' = Listed /\ Waiting' = Waiting
      /\ \A r : Blockers(r)' = Blockers(r)
      /\ UNCHANGED <<state, rows, waited, moved>>
  BY DatabaseUntouched DEF FetchBlockingPIDs, databaseVars
<1>2. /\ step = "blockers" /\ step' = "locks" /\ todo' = {}
      /\ blocked' = [s \in DOMAIN rows |-> Blockers(s)]
  BY DEF FetchBlockingPIDs, Attach
<1>3. FetchInv'
  BY <1>1, <1>2 DEF FetchInv
<1>4. WaitInv'
  <2>1. Waiting' \subseteq waited'
    BY <1>1, <1>2 DEF SessionInv, WaitInv
  <2>2. ASSUME NEW r \in DOMAIN blocked', NEW t \in blocked'[r]
        PROVE  <<r, t>> \in waited'
    <3>1. t \in Blockers(r)
      BY <1>2, <2>2
    <3> QED BY <1>1, <2>1, <3>1, BlockersAreWaitedFor
  <2> QED BY <2>1, <2>2 DEF WaitInv, NoInventedWait
<1>5. QuietInv'
  BY <1>1, <1>2 DEF SessionInv, QuietInv
<1> QED BY <1>1, <1>3, <1>4, <1>5 DEF SessionInv

LEMMA ForgetInv == SessionInv /\ Forget => SessionInv'
<1> SUFFICES ASSUME SessionInv, Forget
             PROVE  SessionInv'
  OBVIOUS
<1>1. LockInv'
  BY DatabaseUntouched DEF Forget
<1>2. step' = "idle" /\ DOMAIN rows' = {} /\ DOMAIN blocked' = {} /\ todo' = {}
  BY DEF Forget, NoRows
<1>3. FetchInv' /\ WaitInv' /\ QuietInv'
  BY <1>2 DEF FetchInv, WaitInv, NoInventedWait, QuietInv
<1> QED BY <1>1, <1>3 DEF SessionInv

LEMMA SessionStep == SessionInv /\ [Next]_vars => SessionInv'
<1> SUFFICES ASSUME SessionInv, [Next]_vars
             PROVE  SessionInv'
  OBVIOUS
<1>1. CASE Next
  BY <1>1, DatabaseInv, FetchSessionsInv, BlockingPIDsOfInv, FetchBlockingPIDsInv, ForgetInv
     DEF Next, FetchActiveSessions, FetchLocks, FetchFails
<1>2. CASE UNCHANGED vars
  <2>1. /\ UNCHANGED databaseVars /\ UNCHANGED engine
        /\ UNCHANGED <<step, rows, todo, blocked, waited, moved>>
    BY <1>2 DEF vars, fetchVars
  <2>2. LockInv' /\ Listed' = Listed /\ Waiting' = Waiting
    BY <2>1, DatabaseUntouched
  <2>3. /\ state' = state
        /\ \A s : Blockers(s)' = Blockers(s)
    BY <2>1, DatabaseUntouched DEF databaseVars
  <2>4. FetchInv' /\ WaitInv' /\ QuietInv'
    BY <2>1, <2>2, <2>3 DEF SessionInv, FetchInv, WaitInv, NoInventedWait, QuietInv
  <2> QED BY <2>2, <2>4 DEF SessionInv
<1> QED BY <1>1, <1>2

LEMMA SessionSpecInv == Spec => []SessionInv
<1>1. SessionInv /\ [Next]_vars => SessionInv'
  BY SessionStep
<1> QED BY <1>1, SessionInitInv, PTL DEF Spec
-----------------------------------------------------------------------------
(* Whatever the database does between the queries of a fetch, who is shown *)
(* as blocked by another did wait for it (FetchActiveSessions).            *)
THEOREM WaitsAreReal == Spec => []NoInventedWait
<1>1. SessionInv => NoInventedWait
  BY DEF SessionInv, WaitInv
<1> QED BY <1>1, SessionSpecInv, PTL

(* A database that stands still during a fetch is shown as it is, but for  *)
(* what the queries leave out: MySQL's prepared statements, PostgreSQL's   *)
(* locks on transactions (FetchActiveSessions).                            *)
THEOREM QuietIsShown == Spec => QuietDatabaseShownAsItIs
<1>1. ASSUME SessionInv, FetchLocks, ~moved
      PROVE  AsItIs
  <2>1. moved # TRUE /\ step = "locks"
    BY <1>1 DEF FetchLocks
  <2>2. /\ DOMAIN rows = Listed
        /\ \A s \in Listed : rows[s] = state[s] /\ blocked[s] = Blockers(s)
    BY <1>1, <2>1 DEF SessionInv, QuietInv
  <2>3. /\ DOMAIN View = Listed
        /\ \A s \in Listed : /\ View[s].state = state[s]
                             /\ View[s].blockedBy = Blockers(s)
                             /\ View[s].locks = Locks(s)
    BY <2>2 DEF View
  <2>4. Listed = {s \in Session : state[s] # "idle"} \ LeftOut
    BY <1>1 DEF Listed, LeftOut, SessionInv, LockInv, States
  <2>5. ASSUME NEW s \in Listed
        PROVE  /\ Blockers(s) = IF s \in queue /\ holder # None THEN {holder} ELSE {}
               /\ Blockers(s) \subseteq Listed \cup LeftOut
               /\ ("waiting" \in Locks(s)) <=> WaitIsSeen(s)
    <3> USE <1>1 DEF SessionInv, LockInv
    <3>1. Blockers(s) = IF s \in queue /\ holder # None THEN {holder} ELSE {}
      BY DEF Blockers
    <3>2. Blockers(s) \subseteq Listed \cup LeftOut
      BY DEF Blockers, Listed, LeftOut, Running, States
    <3>3. ("waiting" \in Locks(s)) <=> WaitIsSeen(s)
      BY DEF Locks, WaitIsSeen
    <3> QED BY <3>1, <3>2, <3>3
  <2>6. ASSUME NEW s \in DOMAIN View
        PROVE  /\ View[s].state = state[s]
               /\ View[s].blockedBy = IF s \in queue /\ holder # None THEN {holder} ELSE {}
               /\ View[s].blockedBy \subseteq DOMAIN View \cup LeftOut
               /\ ("waiting" \in View[s].locks) <=> WaitIsSeen(s)
    <3>1. /\ s \in Listed /\ View[s].state = state[s]
          /\ View[s].blockedBy = Blockers(s) /\ View[s].locks = Locks(s)
      BY <2>3
    <3>2. ("waiting" \in View[s].locks) <=> WaitIsSeen(s)
      BY <2>5, <3>1, Zenon
    <3> QED BY <2>3, <2>5, <3>1, <3>2, Zenon
  <2> QED BY <2>3, <2>4, <2>6, Zenon DEF AsItIs
<1>2. SessionInv /\ [Next]_vars => [FetchLocks /\ ~moved => AsItIs]_vars
  BY <1>1
<1> QED BY <1>2, SessionSpecInv, PTL DEF Spec, QuietDatabaseShownAsItIs
=============================================================================
