------------------------------- MODULE Poller -------------------------------
(***************************************************************************)
(* The polling loop of poller.go beside the monitoring switch it reads: a  *)
(* goroutine that on every tick fetches the sessions, publishes them,      *)
(* decides whether they are worth a history snapshot, appends it and       *)
(* publishes the database statistics.                                      *)
(*                                                                         *)
(* The switch is read once, at the start of a tick; every later call of    *)
(* the tick is a step of its own, so that starts, stops, expiries and the  *)
(* shutdown of the process fall between any two of them.                   *)
(***************************************************************************)
EXTENDS MonitorControl, FiniteSetsExt

CONSTANTS Session,        \* session ids the monitored database may show
          Durations,      \* query durations, as far as they are told apart
          MaxSessions,    \* maxSessionsPerSnapshot
          RecordInterval  \* recordInterval in units of the clock

ASSUME PollerAssumption ==
    /\ Durations \subseteq Int
    /\ MaxSessions \in Nat \ {0}
    /\ RecordInterval \in Nat \ {0}

VARIABLES pc,                \* the next call of the tick, "idle" between ticks
          sessions,          \* the tick's sessions: id -> blocked, duration
          snapshot,          \* the snapshot handed to Append
          previouslyBlocked, \* the ids that map to true
          sinceRecorded,     \* time.Since(lastRecordedAt), up to RecordInterval
          cancelled          \* the process's context is done

(* Kept for the properties only.                                           *)
VARIABLES lastBlocked, \* sessions that were blocked when last classified
          onset,       \* those that had just become so, until Append returns
          missed,      \* blocked ones no snapshot shows since they became so
          quiet,       \* time since the store last took a snapshot
          late,        \* snapshots appended since monitoring became inactive
          appendFailed \* whether some Append has failed

tickVars == <<pc, sessions, snapshot, previouslyBlocked, sinceRecorded, cancelled>>
observed == <<lastBlocked, onset, missed, quiet, late, appendFailed>>
vars == <<control, tickVars, observed>>

View == UNION {[ids -> [blocked : BOOLEAN, duration : Durations]] : ids \in SUBSET Session}
Trigger == {"incident", "periodic"}
Snapshot == [sessions : SUBSET Session, trigger : Trigger]
NoView == <<>>
NoSnapshot == [sessions |-> {}, trigger |-> "periodic"]

TypeOK ==
    /\ ControlTypeOK
    /\ pc \in {"idle", "fetch", "publish", "record", "append", "stats", "returned"}
    /\ sessions \in View
    /\ snapshot \in Snapshot
    /\ previouslyBlocked \subseteq Session
    /\ sinceRecorded \in 0..RecordInterval
    /\ cancelled \in BOOLEAN
    /\ lastBlocked \subseteq Session
    /\ onset \subseteq Session
    /\ missed \subseteq Session
    /\ quiet \in 0..RecordInterval
    /\ late \in 0..2
    /\ appendFailed \in BOOLEAN

(* lastRecordedAt starts as the zero time, so the first tick is due.       *)
Init ==
    /\ ControlInit
    /\ pc = "idle"
    /\ sessions = NoView
    /\ snapshot = NoSnapshot
    /\ previouslyBlocked = {}
    /\ sinceRecorded = RecordInterval
    /\ cancelled = FALSE
    /\ lastBlocked = {}
    /\ onset = {}
    /\ missed = {}
    /\ quiet = RecordInterval
    /\ late = 0
    /\ appendFailed = FALSE
-----------------------------------------------------------------------------
(* Plausible mistakes in this code, each of which breaks a property below. *)
ClassifyUnset(view) ==
    IF {s \in DOMAIN view : view[s].blocked} \ previouslyBlocked # {} THEN "incident" ELSE ""
IsDueEarly(trigger) == trigger = "incident" \/ sinceRecorded >= RecordInterval - 1
IsDueForIncidentsOnly(trigger) == trigger = "incident"
RememberEverBlocked(view) ==
    previouslyBlocked' = previouslyBlocked \cup {s \in DOMAIN view : view[s].blocked}
TickRegardless ==
    /\ pc = "idle"
    /\ pc' = "fetch"
    /\ UNCHANGED <<control, sessions, snapshot, previouslyBlocked, sinceRecorded, cancelled, observed>>
ReturnOnlyWhenInactive ==
    /\ pc = "idle"
    /\ cancelled
    /\ ~active
    /\ pc' = "returned"
    /\ UNCHANGED <<control, sessions, snapshot, previouslyBlocked, sinceRecorded, cancelled, observed>>
-----------------------------------------------------------------------------
Blocked(view) == {s \in DOMAIN view : view[s].blocked}

(* The subsets trimSessions may keep: all of them for an incident or when  *)
(* they fit, else MaxSessions of the longest (the sort is not stable, so   *)
(* ties go either way).                                                    *)
TrimSessions(view, trigger) ==
    IF trigger # "periodic" \/ Cardinality(DOMAIN view) <= MaxSessions
    THEN {DOMAIN view}
    ELSE {kept \in kSubset(MaxSessions, DOMAIN view) :
            \A s \in kept, r \in DOMAIN view \ kept : view[s].duration >= view[r].duration}

(* A tick is an incident when some session is blocked that was not blocked *)
(* on the previous classified tick.                                        *)
ClassifyTrigger(view) ==
    IF Blocked(view) \ previouslyBlocked # {} THEN "incident" ELSE "periodic"

IsDue(trigger) == trigger = "incident" \/ sinceRecorded >= RecordInterval

(* What classifyTrigger leaves behind for the next tick.                   *)
RememberBlocked(view) == previouslyBlocked' = Blocked(view)
-----------------------------------------------------------------------------
StartTick ==
    /\ pc = "idle"
    /\ active
    /\ pc' = "fetch"
    /\ UNCHANGED <<control, sessions, snapshot, previouslyBlocked, sinceRecorded, cancelled, observed>>

FetchSessions ==
    /\ pc = "fetch"
    /\ ~cancelled
    /\ sessions' \in View
    /\ pc' = "publish"
    /\ UNCHANGED <<control, snapshot, previouslyBlocked, sinceRecorded, cancelled, observed>>

FetchFails ==
    /\ pc = "fetch"
    /\ pc' = "stats"
    /\ UNCHANGED <<control, sessions, snapshot, previouslyBlocked, sinceRecorded, cancelled, observed>>

PublishSessions ==
    /\ pc = "publish"
    /\ pc' = "record"
    /\ UNCHANGED <<control, sessions, snapshot, previouslyBlocked, sinceRecorded, cancelled, observed>>

(* maybeRecordSnapshot up to the call of Append.                           *)
Classify ==
    /\ pc = "record"
    /\ LET trigger == ClassifyTrigger(sessions)
           blocked == Blocked(sessions)
       IN  /\ RememberBlocked(sessions)
           /\ lastBlocked' = blocked
           /\ onset' = blocked \ lastBlocked
           /\ missed' = (missed \cap blocked) \cup (blocked \ lastBlocked)
           /\ \/ /\ IsDue(trigger)
                 /\ \E kept \in TrimSessions(sessions, trigger) :
                       snapshot' = [sessions |-> kept, trigger |-> trigger]
                 /\ pc' = "append"
              \/ /\ ~IsDue(trigger)
                 /\ pc' = "stats"
                 /\ UNCHANGED snapshot
    /\ sessions' = NoView
    /\ UNCHANGED <<control, sinceRecorded, cancelled, quiet, late, appendFailed>>

AppendSnapshot ==
    /\ pc = "append"
    /\ ~cancelled
    /\ pc' = "stats"
    /\ sinceRecorded' = 0
    /\ quiet' = 0
    /\ missed' = missed \ snapshot.sessions
    /\ late' = IF active THEN late ELSE Min({late + 1, 2})
    /\ snapshot' = NoSnapshot
    /\ onset' = {}
    /\ UNCHANGED <<control, sessions, previouslyBlocked, cancelled, lastBlocked, appendFailed>>

AppendFails ==
    /\ pc = "append"
    /\ pc' = "stats"
    /\ snapshot' = NoSnapshot
    /\ appendFailed' = TRUE
    /\ onset' = {}
    /\ UNCHANGED <<control, sessions, previouslyBlocked, sinceRecorded, cancelled,
                   lastBlocked, missed, quiet, late>>

(* FetchDatabaseStats and PublishDatabaseStats: an error is only logged.   *)
PublishDatabaseStats ==
    /\ pc = "stats"
    /\ pc' = "idle"
    /\ UNCHANGED <<control, sessions, snapshot, previouslyBlocked, sinceRecorded, cancelled, observed>>

(* Run's other branch.  With both channels ready select picks either.      *)
Return ==
    /\ pc = "idle"
    /\ cancelled
    /\ pc' = "returned"
    /\ UNCHANGED <<control, sessions, snapshot, previouslyBlocked, sinceRecorded, cancelled, observed>>

Tick ==
    \/ StartTick
    \/ FetchSessions
    \/ FetchFails
    \/ PublishSessions
    \/ Classify
    \/ AppendSnapshot
    \/ AppendFails
    \/ PublishDatabaseStats
-----------------------------------------------------------------------------
TimePasses ==
    /\ sinceRecorded' = Min({sinceRecorded + 1, RecordInterval})
    /\ quiet' = Min({quiet + 1, RecordInterval})
    /\ UNCHANGED <<control, pc, sessions, snapshot, previouslyBlocked, cancelled,
                   lastBlocked, onset, missed, late, appendFailed>>

Cancel ==
    /\ ~cancelled
    /\ cancelled' = TRUE
    /\ UNCHANGED <<control, pc, sessions, snapshot, previouslyBlocked, sinceRecorded, observed>>

(* A call of the switch or an expiry, seen by the poller only through      *)
(* active.                                                                 *)
Switch ==
    /\ ControlNext
    /\ late' = IF active' THEN 0 ELSE late
    /\ UNCHANGED <<tickVars, lastBlocked, onset, missed, quiet, appendFailed>>

Next == Tick \/ Return \/ TimePasses \/ Cancel \/ Switch

Spec == Init /\ [][Next]_vars
-----------------------------------------------------------------------------
(* Fairness.  The ticker fires again and again.  What a tick does by       *)
(* itself goes on: publishing never blocks, and an Append is a statement   *)
(* on the process's own file.  Its queries of the monitored database have  *)
(* no deadline and may never return; only once the context is done do they *)
(* return an error.  Time passes.  A callback that was started gets the    *)
(* mutex, and the runtime fires its timers.  Select picks at random among  *)
(* its ready channels, so a context that is done is seen however often the *)
(* ticker is ready too.  Nothing is assumed of the callers.                *)
Fairness ==
    /\ WF_vars(StartTick)
    /\ WF_vars(PublishSessions \/ Classify \/ AppendSnapshot \/ AppendFails)
    /\ WF_vars(cancelled /\ (FetchFails \/ PublishDatabaseStats))
    /\ WF_vars(TimePasses)
    /\ WF_vars(Switch /\ Expiry)
    /\ SF_vars(Return)

FairSpec == Spec /\ Fairness
-----------------------------------------------------------------------------
(* A block that begins is never lost: once the tick that saw a session     *)
(* become blocked is past its Append, a snapshot showing it was stored.    *)
IncidentsAlwaysRecorded == pc \in {"idle", "stats"} => missed = {}

(* The same, as long as no Append has failed: whatever fetches failed and  *)
(* however monitoring was stopped and started in between.                  *)
BlockRecordedUnlessAppendFails ==
    ~appendFailed => IncidentsAlwaysRecorded

(* A session that stays blocked over many ticks is one incident, not one   *)
(* per tick: only a new block makes a snapshot an incident, and a new      *)
(* block is never filed as periodic, where it could be trimmed.            *)
IncidentIffNewBlock ==
    pc = "append" => (snapshot.trigger = "incident" <=> onset # {})

(* Two snapshots closer than RecordInterval: the later one is an incident. *)
PeriodicKeepsCadence ==
    [][pc = "append" /\ pc' = "stats" /\ quiet' = 0 /\ quiet < RecordInterval
        => snapshot.trigger = "incident"]_vars

(* Monitoring that has ended stores at most the snapshot of the tick that  *)
(* was under way, whether it ended before the fetch, during it or between  *)
(* the decision to append and the Append, and however it ended.            *)
OneLateSnapshot == late <= 1

(* Monitoring that stays on in a live process keeps adding to the history  *)
(* once the store works again, as long as fetches go on returning with     *)
(* sessions, which the database need not let them: a failed Append leaves  *)
(* the next tick due.                                                      *)
HistoryKeepsGrowing ==
    /\ <>[](active /\ ~cancelled)
    /\ []<><<FetchSessions>>_vars
    /\ <>[][~AppendFails]_vars
    => []<><<AppendSnapshot>>_vars

(* Monitoring started for some minutes ends by itself, unless the callers  *)
(* keep starting it anew.                                                  *)
TimedMonitoringEnds ==
    \/ []<><<\E minutes \in Minutes : StartMonitoring(minutes)>>_vars
    \/ (active /\ asked = "timed") ~> (~active \/ asked = "full")

(* The loop ends once the process is told to stop.                         *)
PollerReturns == cancelled ~> pc = "returned"
=============================================================================
