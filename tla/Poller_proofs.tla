---------------------------- MODULE Poller_proofs ----------------------------
(***************************************************************************)
(* Proofs about the polling loop and what it works with: the monitoring    *)
(* switch, for any set of timers and any minutes whose length fits a       *)
(* time.Duration; the loop itself, for any sessions, durations, intervals  *)
(* and snapshot size, and any interleaving with the switch; and the        *)
(* statistics collectors it calls last in a tick, for any bound of their   *)
(* counters.                                                               *)
(***************************************************************************)
EXTENDS Poller, DatabaseStats, FiniteSetTheorems, TLAPS

(* The monitoring switch.                                                  *)

(* No minutes a caller may ask for overflow a time.Duration.               *)
MinutesFit == \A m \in Minutes : m >= 0 => m * MinuteLength <= MaxDuration

(* Where no product wraps, Start arms a timer exactly for the positive     *)
(* minutes.                                                                *)
LEMMA ArmsTimerIffPositive ==
  ASSUME MinutesFit, NEW m \in Minutes, m >= 0
  PROVE  ArmsTimer(m) <=> m > 0
<1> DEFINE x == m * MinuteLength
           modulus == 2 * (MaxDuration + 1)
<1>1. m \in Nat /\ MinuteLength \in Nat \ {0} /\ MaxDuration \in Nat \ {0}
  BY ControlAssumption
<1>2. x \in Nat /\ x <= MaxDuration
  BY <1>1 DEF MinutesFit
<1>3. x > 0 <=> m > 0
  BY <1>1
<1>4. modulus \in Nat /\ x < modulus
  BY <1>1, <1>2
<1>5. x % modulus = x
  <2> HIDE DEF x, modulus
  <2> QED BY <1>2, <1>4
<1> QED BY <1>1, <1>2, <1>3, <1>5 DEF ArmsTimer

(* The inductive invariant of the switch.  An activation without a limit   *)
(* keeps no timer, and if no callback was outstanding when it began,       *)
(* nothing is outstanding as long as it lasts.                             *)
ControlInv ==
    /\ ControlTypeOK
    /\ ArmedIsCurrent
    /\ TimedWillExpire
    /\ asked = "full" => stopTime = None
    /\ asked = "full" /\ ~raced => active /\ Outstanding = {}

LEMMA ControlInitInv == ControlInit => ControlInv
BY ControlAssumption
   DEF ControlInit, ControlInv, ControlTypeOK, ArmedIsCurrent, TimedWillExpire, Outstanding

LEMMA ControlStepInv ==
  ASSUME MinutesFit, ControlInv, [ControlNext]_control
  PROVE  ControlInv'
<1> USE ControlAssumption
    DEF ControlInv, ControlTypeOK, ArmedIsCurrent, TimedWillExpire, Outstanding
<1>1. ASSUME NEW m \in Minutes, StartMonitoring(m)
      PROVE  ControlInv'
  <2>1. m \in Int /\ m >= 0 /\ (ArmsTimer(m) <=> m > 0)
    BY <1>1, ArmsTimerIffPositive DEF StartMonitoring
  <2>2. raced' \in BOOLEAN
    BY <1>1 DEF StartMonitoring
  <2>3. CASE ArmsTimer(m)
    BY <1>1, <2>1, <2>2, <2>3 DEF StartMonitoring, StopExistingTimer
  <2>4. CASE ~ArmsTimer(m)
    <3>1. m = 0
      BY <2>1, <2>4
    <3>2. ~raced' => \A t \in Timer : timer[t] # "fired"
      BY <1>1, <3>1, Zenon DEF StartMonitoring
    <3> QED BY <1>1, <2>1, <2>2, <2>4, <3>2 DEF StartMonitoring, StopExistingTimer
  <2> QED BY <2>3, <2>4
<1>2. CASE StopMonitoring
  BY <1>2 DEF StopMonitoring, StopExistingTimer
<1>3. ASSUME NEW t \in Timer, TimerFires(t)
      PROVE  ControlInv'
  BY <1>3 DEF TimerFires
<1>4. ASSUME NEW t \in Timer, AutoStop(t)
      PROVE  ControlInv'
  BY <1>4 DEF AutoStop
<1>5. CASE UNCHANGED control
  BY <1>5 DEF control
<1> QED BY <1>1, <1>2, <1>3, <1>4, <1>5 DEF ControlNext, Expiry

(* The switch never leaks a timer, a timed activation always has its       *)
(* expiry coming, and an activation without a limit that found no callback *)
(* outstanding lasts until it is stopped.                                  *)
THEOREM ControlSafety ==
  ASSUME MinutesFit
  PROVE  ControlSpec => [](/\ ControlTypeOK /\ ArmedIsCurrent
                           /\ TimedWillExpire /\ FullCutOnlyByStaleCallback)
<1>1. ControlInv => /\ ControlTypeOK /\ ArmedIsCurrent
                    /\ TimedWillExpire /\ FullCutOnlyByStaleCallback
  BY DEF ControlInv, FullCutOnlyByStaleCallback
<1>2. ControlInv /\ [ControlNext]_control => ControlInv'
  BY ControlStepInv
<1> QED BY <1>1, <1>2, ControlInitInv, PTL DEF ControlSpec
-----------------------------------------------------------------------------
(* One step of the switch is a step of the abstract gate, or none of it.   *)
LEMMA ControlStepRefines ==
  ASSUME MinutesFit, ControlInv, [ControlNext]_control
  PROVE  [Gate!Next]_(Gate!gate)
<1> USE DEF ControlInv, ControlTypeOK, Outstanding, Gate!Next, Gate!gate
<1>1. ASSUME NEW m \in Minutes, StartMonitoring(m)
      PROVE  [Gate!Next]_(Gate!gate)
  <2>1. m \in Int /\ m >= 0 /\ (ArmsTimer(m) <=> m > 0)
    BY <1>1, ArmsTimerIffPositive, ControlAssumption DEF StartMonitoring
  <2>2. CASE ArmsTimer(m)
    <3>1. asked' = "timed" /\ active' = TRUE /\ Outstanding' # {}
      BY <1>1, <2>1, <2>2 DEF StartMonitoring, StopExistingTimer
    <3> QED BY <3>1 DEF Gate!OpenTimed
  <2>3. CASE ~ArmsTimer(m)
    <3>1. asked' = "full" /\ active' = TRUE /\ Outstanding' \subseteq Outstanding
      BY <1>1, <2>1, <2>3 DEF StartMonitoring, StopExistingTimer
    <3> QED BY <3>1 DEF Gate!OpenIndefinitely
  <2> QED BY <2>2, <2>3
<1>2. CASE StopMonitoring
  <2>1. asked' = "stop" /\ active' = FALSE /\ Outstanding' \subseteq Outstanding
    BY <1>2 DEF StopMonitoring, StopExistingTimer
  <2> QED BY <2>1 DEF Gate!Close
<1>3. ASSUME NEW t \in Timer, TimerFires(t)
      PROVE  [Gate!Next]_(Gate!gate)
  <2>1. UNCHANGED <<asked, active, Outstanding>>
    BY <1>3 DEF TimerFires
  <2> QED BY <2>1
<1>4. ASSUME NEW t \in Timer, AutoStop(t)
      PROVE  [Gate!Next]_(Gate!gate)
  <2>1. asked' = asked /\ active' = FALSE /\ Outstanding # {}
    BY <1>4 DEF AutoStop
  <2> QED BY <2>1 DEF Gate!Expire
<1>5. CASE UNCHANGED control
  BY <1>5 DEF control
<1> QED BY <1>1, <1>2, <1>3, <1>4, <1>5 DEF ControlNext, Expiry

(* The Recorder keeps the promise of the abstract gate: it opens only when *)
(* asked to, and closes unasked only through an expiry it had outstanding. *)
THEOREM ControlImplementsGate ==
  ASSUME MinutesFit
  PROVE  ControlSpec => GateSpec
<1>1. ControlInit => Gate!Init
  BY DEF ControlInit, Gate!Init, Outstanding
<1>2. ControlInv /\ [ControlNext]_control => ControlInv'
  BY ControlStepInv
<1>3. ControlInv /\ [ControlNext]_control => [Gate!Next]_(Gate!gate)
  BY ControlStepRefines
<1> QED BY <1>1, <1>2, <1>3, ControlInitInv, PTL DEF ControlSpec, GateSpec, Gate!Spec
-----------------------------------------------------------------------------
(* The polling loop.                                                       *)

(* What classification and the snapshot under way have to do with the      *)
(* blocks nobody has stored yet, and the snapshot a tick may still append  *)
(* once monitoring is off.                                                 *)
BlockInv ==
    /\ previouslyBlocked = lastBlocked
    /\ IncidentIffNewBlock
    /\ ~appendFailed /\ pc # "append" => missed = {}
    /\ ~appendFailed /\ pc = "append" => missed \subseteq snapshot.sessions

LateInv ==
    /\ late \in {0, 1}
    /\ active => late = 0
    /\ late = 1 => pc \in {"idle", "stats", "returned"}

(* The loop's notion of the time since the last snapshot is the true one,  *)
(* and a periodic snapshot is under way only if it was due.                *)
CadenceInv ==
    /\ quiet = sinceRecorded
    /\ pc = "append" /\ snapshot.trigger = "periodic" => sinceRecorded >= RecordInterval

PollerInv == TypeOK /\ BlockInv /\ LateInv /\ CadenceInv
-----------------------------------------------------------------------------
(* A number that counts up to a limit stays below it.                      *)
LEMMA MinOfTwo ==
  ASSUME NEW a \in Int, NEW b \in Int
  PROVE  Min({a, b}) = IF a <= b THEN a ELSE b
<1> DEFINE smaller == IF a <= b THEN a ELSE b
<1>1. smaller \in {a, b} /\ \A y \in {a, b} : smaller <= y
  OBVIOUS
<1>2. \A x \in {a, b} : (\A y \in {a, b} : x <= y) => x = smaller
  OBVIOUS
<1> QED BY <1>1, <1>2 DEF Min

(* What a trimmed snapshot keeps are sessions of the tick, and an incident *)
(* keeps them all.                                                         *)
LEMMA TrimKeepsSessions ==
  ASSUME NEW view \in View, NEW trigger \in Trigger, NEW kept \in TrimSessions(view, trigger)
  PROVE  /\ kept \subseteq DOMAIN view
         /\ trigger = "incident" => kept = DOMAIN view
BY DEF TrimSessions, Trigger, kSubset

LEMMA ViewDomain ==
  ASSUME NEW view \in View
  PROVE  DOMAIN view \subseteq Session /\ Blocked(view) \subseteq DOMAIN view
BY DEF View, Blocked

LEMMA EmptyView == NoView \in View
<1>1. NoView \in [{} -> [blocked : BOOLEAN, duration : Durations]]
  BY DEF NoView
<1> QED BY <1>1 DEF View
-----------------------------------------------------------------------------
LEMMA PollerInitInv == Init => PollerInv
<1> SUFFICES ASSUME Init PROVE PollerInv
  OBVIOUS
<1>1. ControlTypeOK
  BY ControlInitInv DEF Init, ControlInv
<1>2. sessions \in View
  BY EmptyView DEF Init
<1>3. snapshot \in Snapshot
  BY DEF Init, Snapshot, NoSnapshot, Trigger
<1>4. TypeOK
  <2>1. sinceRecorded \in 0..RecordInterval /\ quiet \in 0..RecordInterval
    BY PollerAssumption DEF Init
  <2>2. /\ previouslyBlocked \subseteq Session /\ lastBlocked \subseteq Session
        /\ onset \subseteq Session /\ missed \subseteq Session
    BY DEF Init
  <2>3. pc = "idle" /\ cancelled = FALSE /\ late = 0 /\ appendFailed = FALSE
    BY DEF Init
  <2>4. late \in 0..2
    BY <2>3
  <2>5. cancelled \in BOOLEAN /\ appendFailed \in BOOLEAN
    BY <2>3, Zenon
  <2>6. pc \in {"idle", "fetch", "publish", "record", "append", "stats", "returned"}
    BY <2>3
  <2> QED BY <1>1, <1>2, <1>3, <2>1, <2>2, <2>4, <2>5, <2>6, Zenon DEF TypeOK
<1>5. BlockInv /\ LateInv /\ CadenceInv
  BY DEF Init, BlockInv, LateInv, CadenceInv, IncidentIffNewBlock
<1> QED BY <1>4, <1>5 DEF PollerInv

(* The switch touches no variable of the tick.                             *)
LEMMA SwitchStepInv ==
  ASSUME PollerInv, Switch
  PROVE  PollerInv'
<1>1. ControlTypeOK'
  BY ControlAssumption
     DEF PollerInv, TypeOK, ControlTypeOK, Switch, ControlNext, Expiry, StartMonitoring,
         StopMonitoring, TimerFires, AutoStop, StopExistingTimer
<1> QED BY <1>1
        DEF PollerInv, TypeOK, BlockInv, LateInv, CadenceInv, IncidentIffNewBlock, Switch,
            tickVars

LEMMA ClassifyStepInv ==
  ASSUME PollerInv, Classify
  PROVE  PollerInv'
<1> DEFINE trigger == ClassifyTrigger(sessions)
           blocked == Blocked(sessions)
<1> USE DEF PollerInv, TypeOK
<1>1. trigger \in Trigger /\ (trigger = "incident" <=> blocked \ lastBlocked # {})
  BY DEF ClassifyTrigger, Trigger, BlockInv
<1>2. blocked \subseteq DOMAIN sessions /\ DOMAIN sessions \subseteq Session
  BY ViewDomain
<1>3. /\ previouslyBlocked' = blocked /\ lastBlocked' = blocked
      /\ onset' = blocked \ lastBlocked
      /\ missed' = (missed \cap blocked) \cup (blocked \ lastBlocked)
      /\ sessions' = NoView /\ pc = "record"
      /\ UNCHANGED <<control, sinceRecorded, cancelled, quiet, late, appendFailed>>
  BY DEF Classify, RememberBlocked
<1>4. ControlTypeOK'
  BY <1>3 DEF ControlTypeOK, control
<1>5. LateInv'
  BY <1>3 DEF LateInv, control, Classify
<1>6. CASE IsDue(trigger)
  <2>1. PICK kept \in TrimSessions(sessions, trigger) :
          snapshot' = [sessions |-> kept, trigger |-> trigger]
    BY <1>6 DEF Classify
  <2>2. pc' = "append"
    BY <1>6 DEF Classify
  <2>3. kept \subseteq DOMAIN sessions /\ (trigger = "incident" => kept = DOMAIN sessions)
    BY <1>1, TrimKeepsSessions
  <2>4. BlockInv'
    BY <1>1, <1>2, <1>3, <2>1, <2>2, <2>3 DEF BlockInv, IncidentIffNewBlock
  <2>5. snapshot' \in Snapshot
    BY <1>1, <1>2, <2>1, <2>3 DEF Snapshot
  <2>6. CadenceInv'
    BY <1>3, <1>6, <2>1 DEF CadenceInv, IsDue, Trigger
  <2> QED BY <1>2, <1>3, <1>4, <1>5, <2>2, <2>4, <2>5, <2>6, EmptyView
<1>7. CASE ~IsDue(trigger)
  <2>1. pc' = "stats" /\ UNCHANGED snapshot
    BY <1>7 DEF Classify
  <2>2. blocked \ lastBlocked = {}
    BY <1>1, <1>7 DEF IsDue
  <2>3. BlockInv'
    BY <1>3, <2>1, <2>2 DEF BlockInv, IncidentIffNewBlock
  <2>4. CadenceInv'
    BY <1>3, <2>1 DEF CadenceInv
  <2> QED BY <1>2, <1>3, <1>4, <1>5, <2>1, <2>3, <2>4, EmptyView
<1> QED BY <1>6, <1>7

LEMMA AppendStepInv ==
  ASSUME PollerInv, AppendSnapshot
  PROVE  PollerInv'
<1> USE DEF PollerInv, TypeOK
<1>1. late' \in {0, 1} /\ (active' => late' = 0)
  <2>1. Min({late + 1, 2}) = IF late + 1 <= 2 THEN late + 1 ELSE 2
    <3>1. late + 1 \in Int
      OBVIOUS
    <3> QED BY <3>1, MinOfTwo
  <2>2. late = 0
    BY DEF AppendSnapshot, LateInv
  <2> QED BY <2>1, <2>2 DEF AppendSnapshot, LateInv, control
<1>2. ControlTypeOK'
  BY DEF AppendSnapshot, ControlTypeOK, control
<1>3. BlockInv'
  BY DEF AppendSnapshot, BlockInv, IncidentIffNewBlock
<1>4. snapshot' \in Snapshot
  BY DEF AppendSnapshot, Snapshot, NoSnapshot, Trigger
<1>5. LateInv' /\ CadenceInv'
  BY <1>1, <1>4 DEF AppendSnapshot, LateInv, CadenceInv
<1>6. TypeOK'
  BY <1>1, <1>2, <1>4, PollerAssumption DEF AppendSnapshot
<1> QED BY <1>3, <1>5, <1>6

LEMMA TimePassesStepInv ==
  ASSUME PollerInv, TimePasses
  PROVE  PollerInv'
<1>1. sinceRecorded' \in 0..RecordInterval /\ sinceRecorded' >= sinceRecorded
  <2>1. sinceRecorded + 1 \in Int /\ RecordInterval \in Int
    BY PollerAssumption DEF PollerInv, TypeOK
  <2>2. Min({sinceRecorded + 1, RecordInterval}) =
          IF sinceRecorded + 1 <= RecordInterval THEN sinceRecorded + 1 ELSE RecordInterval
    BY <2>1, MinOfTwo
  <2> QED BY <2>2, PollerAssumption DEF TimePasses, PollerInv, TypeOK
<1>2. TypeOK' /\ BlockInv' /\ LateInv'
  BY <1>1 DEF TimePasses, PollerInv, TypeOK, BlockInv, LateInv, CadenceInv,
              IncidentIffNewBlock, ControlTypeOK, control
<1>3. CadenceInv'
  BY <1>1, PollerAssumption DEF TimePasses, PollerInv, TypeOK, CadenceInv
<1> QED BY <1>2, <1>3 DEF PollerInv

LEMMA PollerStepInv ==
  ASSUME PollerInv, [Next]_vars
  PROVE  PollerInv'
<1> USE DEF PollerInv, TypeOK, BlockInv, LateInv, CadenceInv, IncidentIffNewBlock,
            ControlTypeOK, control, observed
<1>1. CASE StartTick
  BY <1>1 DEF StartTick
<1>2. CASE FetchSessions
  BY <1>2 DEF FetchSessions
<1>3. CASE FetchFails
  BY <1>3 DEF FetchFails
<1>4. CASE PublishSessions
  BY <1>4 DEF PublishSessions
<1>5. CASE Classify
  BY <1>5, ClassifyStepInv
<1>6. CASE AppendSnapshot
  BY <1>6, AppendStepInv
<1>7. CASE AppendFails
  BY <1>7 DEF AppendFails, Snapshot, NoSnapshot, Trigger
<1>8. CASE PublishDatabaseStats
  BY <1>8 DEF PublishDatabaseStats
<1>9. CASE Return
  BY <1>9 DEF Return
<1>10. CASE TimePasses
  BY <1>10, TimePassesStepInv
<1>11. CASE Cancel
  BY <1>11 DEF Cancel
<1>12. CASE Switch
  BY <1>12, SwitchStepInv
<1>13. CASE UNCHANGED vars
  BY <1>13 DEF vars, tickVars
<1> QED BY <1>1, <1>2, <1>3, <1>4, <1>5, <1>6, <1>7, <1>8, <1>9, <1>10, <1>11, <1>12, <1>13
        DEF Next, Tick
-----------------------------------------------------------------------------
(* The loop's variables keep their types, whatever the callers do.         *)
THEOREM PollerTypeOK == Spec => []TypeOK
<1>1. PollerInv => TypeOK
  BY DEF PollerInv
<1>2. PollerInv /\ [Next]_vars => PollerInv'
  BY PollerStepInv
<1> QED BY <1>1, <1>2, PollerInitInv, PTL DEF Spec

(* As long as no Append has failed, no block goes unrecorded; an incident  *)
(* is exactly a tick with a new block; and monitoring that has ended       *)
(* stores at most one more snapshot.                                       *)
THEOREM PollerSafety ==
  Spec => [](BlockRecordedUnlessAppendFails /\ IncidentIffNewBlock /\ OneLateSnapshot)
<1>1. PollerInv => BlockRecordedUnlessAppendFails /\ IncidentIffNewBlock /\ OneLateSnapshot
  BY DEF PollerInv, BlockInv, LateInv, BlockRecordedUnlessAppendFails,
         IncidentsAlwaysRecorded, OneLateSnapshot
<1>2. PollerInv /\ [Next]_vars => PollerInv'
  BY PollerStepInv
<1> QED BY <1>1, <1>2, PollerInitInv, PTL DEF Spec

(* Between two snapshots closer than RecordInterval the later is an        *)
(* incident: the cadence survives failed appends, stops and restarts.      *)
THEOREM PollerCadence == Spec => PeriodicKeepsCadence
<1> DEFINE Step == pc = "append" /\ pc' = "stats" /\ quiet' = 0 /\ quiet < RecordInterval
                   => snapshot.trigger = "incident"
<1>1. PollerInv => Step
  BY PollerAssumption DEF PollerInv, TypeOK, CadenceInv, Snapshot, Trigger
<1>2. PollerInv /\ [Next]_vars => PollerInv'
  BY PollerStepInv
<1>3. PollerInv => [Step]_vars
  BY <1>1
<1> QED BY <1>2, <1>3, PollerInitInv, PTL DEF Spec, PeriodicKeepsCadence
-----------------------------------------------------------------------------
(* Beside the polling loop, the switch is still the switch: no step of a   *)
(* tick changes it.                                                        *)
THEOREM PollerRefinesControl == Spec => ControlSpec
<1>1. Init => ControlInit
  BY DEF Init
<1>2. [Next]_vars => [ControlNext]_control
  <2> SUFFICES ASSUME [Next]_vars PROVE [ControlNext]_control
    OBVIOUS
  <2>1. CASE Tick
    BY <2>1 DEF Tick, StartTick, FetchSessions, FetchFails, PublishSessions, Classify,
                AppendSnapshot, AppendFails, PublishDatabaseStats
  <2>2. CASE Return \/ TimePasses \/ Cancel
    BY <2>2 DEF Return, TimePasses, Cancel
  <2>3. CASE Switch
    BY <2>3 DEF Switch
  <2>4. CASE UNCHANGED vars
    BY <2>4 DEF vars
  <2> QED BY <2>1, <2>2, <2>3, <2>4 DEF Next
<1> QED BY <1>1, <1>2, PTL DEF Spec, ControlSpec

(* So what is proved of the switch alone holds of it beside the loop.      *)
THEOREM PollerControlSafety ==
  ASSUME MinutesFit
  PROVE  Spec => [](ArmedIsCurrent /\ TimedWillExpire /\ FullCutOnlyByStaleCallback)
<1>1. ControlSpec => [](/\ ControlTypeOK /\ ArmedIsCurrent
                        /\ TimedWillExpire /\ FullCutOnlyByStaleCallback)
  BY ControlSafety
<1> QED BY <1>1, PollerRefinesControl, PTL

(* And the loop sees a gate that keeps the abstract gate's promise.        *)
THEOREM PollerImplementsGate ==
  ASSUME MinutesFit
  PROVE  Spec => GateSpec
BY ControlImplementsGate, PollerRefinesControl, PTL
-----------------------------------------------------------------------------
(* The statistics collectors.                                              *)

(* The server loses count of commits only in a reset: but for those, the   *)
(* ones it no longer shows are the same now as when the counters were      *)
(* read, and as when the baseline was.                                     *)
CountsAgree ==
    /\ hasBaseline /\ ~reset => made - commits = lastMade - lastCommits
    /\ step = "read" /\ ~readReset => made - commits = readMade - read.commits
    /\ step = "read" /\ readReset => reset

StatsInv ==
    /\ StatsTypeOK
    /\ physical <= logical
    /\ commits <= made
    /\ CountsAgree

(* What cacheHitRatio returns is a percentage, also of reads that MySQL    *)
(* counted at different moments.                                           *)
LEMMA RatioIsPercentage ==
  ASSUME NEW r \in Reading
  PROVE  HitRatio(r) \in 0..100
<1>1. r.logical \in Nat /\ r.physical \in Nat
  BY StatsAssumption DEF Reading, Count
<1>2. CASE r.logical = 0 \/ r.physical > r.logical
  BY <1>1, <1>2 DEF HitRatio
<1>3. CASE r.logical > 0 /\ r.physical <= r.logical
  <2> DEFINE hits == r.logical - r.physical
  <2>1. hits \in 0..r.logical
    BY <1>1, <1>3
  <2>2. \A n \in Nat \ {0}, h \in Nat : h <= n => (100 * h) \div n \in 0..100
    <3> SUFFICES ASSUME NEW n \in Nat \ {0}, NEW h \in Nat, h <= n
                 PROVE  (100 * h) \div n \in 0..100
      OBVIOUS
    <3>1. (100 * h) \div n \in Int /\ (100 * h) % n \in 0..(n - 1)
      OBVIOUS
    <3>2. 100 * h = (n * ((100 * h) \div n)) + ((100 * h) % n)
      OBVIOUS
    <3> QED
      BY <3>1, <3>2
  <2>3. (100 * hits) \div r.logical \in 0..100
    <3>1. r.logical \in Nat \ {0} /\ hits \in Nat /\ hits <= r.logical
      BY <1>1, <1>3, <2>1
    <3> HIDE DEF hits
    <3> QED
      BY <2>2, <3>1
  <2> QED
    BY <1>1, <1>3, <2>3 DEF HitRatio
<1> QED
  BY <1>1, <1>2, <1>3

(* The two kinds of types, which the provers take better apart.            *)
Flags ==
    /\ engine \in {"postgres", "mysql"}
    /\ monitoring \in BOOLEAN /\ hasBaseline \in BOOLEAN
    /\ reset \in BOOLEAN /\ readReset \in BOOLEAN
    /\ step \in {"idle", "read"}

Numbers ==
    /\ commits \in Count /\ logical \in Count /\ physical \in Count
    /\ made \in Count /\ readMade \in Count /\ lastMade \in Count
    /\ lastCommits \in Count
    /\ read \in Reading
    /\ ratio \in 0..100

LEMMA StatsTypeParts == StatsTypeOK <=> Flags /\ Numbers
BY DEF StatsTypeOK, Flags, Numbers

LEMMA StatsInitInv == StatsInit => StatsInv
<1> SUFFICES ASSUME StatsInit PROVE StatsInv
  OBVIOUS
<1>1. Flags
  BY DEF StatsInit, Flags
<1>2. 0 \in Count /\ 100 \in 0..100
  BY StatsAssumption DEF Count
<1>3. Numbers
  BY <1>2 DEF StatsInit, Numbers, Reading
<1>4. physical <= logical /\ commits <= made /\ CountsAgree
  BY DEF StatsInit, CountsAgree
<1> QED
  BY <1>1, <1>3, <1>4, StatsTypeParts DEF StatsInv

LEMMA StatsStepInv == StatsInv /\ [StatsNext]_statsVars => StatsInv'
<1> SUFFICES ASSUME StatsInv, [StatsNext]_statsVars PROVE StatsInv'
  OBVIOUS
<1> USE StatsAssumption DEF StatsInv, StatsTypeOK, CountsAgree, Count
<1>1. CASE Commit
  BY <1>1 DEF Commit, readVars, baselineVars
<1>2. CASE ReadBlock
  BY <1>2 DEF ReadBlock, readVars, baselineVars
<1>3. CASE ResetCounters
  <2>1. reset' = TRUE /\ readReset' = (step = "read") /\ step' = step
    BY <1>3 DEF ResetCounters
  <2>2. Flags'
    BY <1>3, <2>1, StatsTypeParts, Zenon DEF ResetCounters, baselineVars, Flags
  <2>3. Numbers'
    BY <1>3, StatsTypeParts DEF ResetCounters, baselineVars, Numbers
  <2>4. step' = "read" => readReset'
    BY <2>1, Zenon
  <2>5. CountsAgree'
    BY <2>1, <2>4, Zenon
  <2>6. physical' <= logical' /\ commits' <= made'
    BY <1>3 DEF ResetCounters
  <2>7. StatsTypeOK'
    BY <2>2, <2>3, Zenon DEF Flags, Numbers
  <2> QED
    BY <2>5, <2>6, <2>7, Zenon
<1>4. CASE SwitchMonitoring
  BY <1>4 DEF SwitchMonitoring, serverVars, readVars, baselineVars
<1>5. CASE QueryCounters
  <2>1. PICK more \in {0, 1} :
           /\ physical + more \in Count
           /\ read' = [commits |-> commits, logical |-> logical, physical |-> physical + more]
    BY <1>5 DEF QueryCounters
  <2>2. read' \in Reading /\ read'.commits = commits
    BY <2>1 DEF Reading
  <2>3. Flags'
    BY <1>5, StatsTypeParts, Zenon DEF QueryCounters, serverVars, baselineVars, Flags
  <2>4. Numbers'
    BY <1>5, <2>2, StatsTypeParts DEF QueryCounters, serverVars, baselineVars, Numbers
  <2>5. CountsAgree' /\ physical' <= logical' /\ commits' <= made'
    BY <1>5, <2>2 DEF QueryCounters, serverVars, baselineVars
  <2>6. StatsTypeOK'
    BY <2>3, <2>4, Zenon DEF Flags, Numbers
  <2> QED
    BY <2>5, <2>6, Zenon
<1>6. CASE QueryFails
  BY <1>6 DEF QueryFails, serverVars, readVars, baselineVars
<1>7. CASE ComputeRate
  <2>1. ratio' \in 0..100
    BY <1>7, RatioIsPercentage DEF ComputeRate
  <2>2. read.commits \in 0..MaxCount
    BY DEF Reading
  <2> QED
    BY <1>7, <2>1, <2>2 DEF ComputeRate, SetBaseline, serverVars, readVars
<1>8. CASE UNCHANGED statsVars
  BY <1>8 DEF statsVars, serverVars, readVars, baselineVars
<1> QED
  BY <1>1, <1>2, <1>3, <1>4, <1>5, <1>6, <1>7, <1>8 DEF StatsNext, Server, FetchDatabaseStats

LEMMA StatsInvariant == StatsSpec => []StatsInv
<1>1. StatsInit => StatsInv
  BY StatsInitInv
<1>2. StatsInv /\ [StatsNext]_statsVars => StatsInv'
  BY StatsStepInv
<1> QED
  BY <1>1, <1>2, PTL DEF StatsSpec

(* Type correctness of the collectors, whatever the counters do: what is   *)
(* reported as the cache hit ratio is always a percentage.                 *)
THEOREM StatsTypes == StatsSpec => []StatsTypeOK
<1>1. StatsInv => StatsTypeOK
  BY DEF StatsInv
<1> QED
  BY <1>1, StatsInvariant, PTL

(* Between two resets every commit is part of exactly one reported rate,   *)
(* across failed fetches and pauses of monitoring (computeRate).           *)
THEOREM CommitsCountedOnce == StatsSpec => EveryCommitCountedOnce
<1>1. StatsInv /\ [StatsNext]_statsVars =>
        [ComputeRate /\ hasBaseline /\ ~reset => Difference = readMade - lastMade]_statsVars
  <2> SUFFICES ASSUME StatsInv, ComputeRate, hasBaseline, ~reset
               PROVE  Difference = readMade - lastMade
    OBVIOUS
  <2>1. made - commits = lastMade - lastCommits /\ made - commits = readMade - read.commits
    BY DEF StatsInv, CountsAgree, ComputeRate
  <2>2. /\ made \in Int /\ commits \in Int /\ lastMade \in Int /\ lastCommits \in Int
        /\ readMade \in Int /\ read.commits \in Int
    BY StatsAssumption DEF StatsInv, StatsTypeOK, Count, Reading
  <2> QED
    BY <2>1, <2>2 DEF Difference
<1> QED
  BY <1>1, StatsInvariant, PTL DEF StatsSpec, EveryCommitCountedOnce
=============================================================================
