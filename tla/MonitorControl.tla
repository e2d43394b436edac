--------------------------- MODULE MonitorControl ---------------------------
(***************************************************************************)
(* The switch that turns live monitoring on and off: the Recorder of       *)
(* recorder.go behind the StartMonitoring and StopMonitoring of poller.go. *)
(*                                                                         *)
(* Every method of Recorder holds its mutex from the first line to the     *)
(* last, so each is one action.  What is not atomic is the auto-stop: the  *)
(* runtime fires a timer and starts its callback in a goroutine of its     *)
(* own, and that goroutine still has to get the mutex.  Timer.Stop does    *)
(* nothing to a callback that has been started, so between "fired" and the *)
(* callback's turn any number of Start and Stop calls may come first.      *)
(*                                                                         *)
(* Time is abstract: an armed timer may fire at any moment.                *)
(***************************************************************************)
EXTENDS Integers

CONSTANTS Timer,        \* timers that may be outstanding at the same time
          None,         \* stopTime when no timer was ever kept
          Minutes,      \* the minutes a caller may ask for
          MinuteLength, \* one minute as a time.Duration
          MaxDuration   \* the largest time.Duration, 2^63 - 1 in the code

ASSUME ControlAssumption ==
    /\ None \notin Timer
    /\ Minutes \subseteq Int
    /\ MinuteLength \in Nat \ {0}
    /\ MaxDuration \in Nat \ {0}

VARIABLES active,   \* Recorder.active
          stopTime, \* Recorder.stopTime: the last timer kept, or None
          timer     \* the runtime's view: "idle", "armed", or "fired" when its
                    \* callback runs but does not hold the mutex yet

(* What the callers asked for last, and whether a callback was already on  *)
(* its way when they did.  Neither is read by the code.                    *)
VARIABLES asked,    \* "stop", "timed" or "full"
          raced     \* a fired callback was outstanding when a full one began

control == <<active, stopTime, timer, asked, raced>>

ControlTypeOK ==
    /\ active \in BOOLEAN
    /\ stopTime \in Timer \cup {None}
    /\ timer \in [Timer -> {"idle", "armed", "fired"}]
    /\ asked \in {"stop", "timed", "full"}
    /\ raced \in BOOLEAN

ControlInit ==
    /\ active = FALSE
    /\ stopTime = None
    /\ timer = [t \in Timer |-> "idle"]
    /\ asked = "stop"
    /\ raced = FALSE
-----------------------------------------------------------------------------
(* Plausible mistakes in this code, each of which breaks a property below. *)
ArmsTimerOnZero(minutes) ==
    (minutes * MinuteLength) % (2 * (MaxDuration + 1)) \in 0..MaxDuration
ArmsTimerAboveOne(minutes) == minutes > 1
-----------------------------------------------------------------------------
(* time.Duration(minutes) * time.Minute is a signed multiplication that    *)
(* wraps, and Start arms a timer only when the product is positive.        *)
ArmsTimer(minutes) ==
    (minutes * MinuteLength) % (2 * (MaxDuration + 1)) \in 1..MaxDuration

(* The timers after stopTime.Stop(): an armed one never fires, a fired one *)
(* cannot be recalled.                                                     *)
StopExistingTimer ==
    [t \in Timer |-> IF t = stopTime /\ timer[t] = "armed" THEN "idle" ELSE timer[t]]

Outstanding == {t \in Timer : timer[t] # "idle"}

StartMonitoring(minutes) ==
    /\ minutes >= 0
    /\ active' = TRUE
    /\ \/ /\ ArmsTimer(minutes)
          /\ \E t \in Timer :
                /\ StopExistingTimer[t] = "idle"
                /\ stopTime' = t
                /\ timer' = [StopExistingTimer EXCEPT ![t] = "armed"]
       \/ /\ ~ArmsTimer(minutes)
          /\ stopTime' = None
          /\ timer' = StopExistingTimer
    /\ asked' = IF minutes > 0 THEN "timed" ELSE "full"
    /\ raced' = (minutes = 0 /\ \E t \in Timer : timer[t] = "fired")

StopMonitoring ==
    /\ active' = FALSE
    /\ stopTime' = None
    /\ timer' = StopExistingTimer
    /\ asked' = "stop"
    /\ raced' = FALSE

(* The runtime starts the callback of an armed timer.                      *)
TimerFires(t) ==
    /\ timer[t] = "armed"
    /\ timer' = [timer EXCEPT ![t] = "fired"]
    /\ UNCHANGED <<active, stopTime, asked, raced>>

(* The callback gets the mutex.  It neither looks at stopTime nor clears it. *)
AutoStop(t) ==
    /\ timer[t] = "fired"
    /\ active' = FALSE
    /\ timer' = [timer EXCEPT ![t] = "idle"]
    /\ UNCHANGED <<stopTime, asked, raced>>

Expiry == \E t \in Timer : TimerFires(t) \/ AutoStop(t)

ControlNext ==
    \/ \E minutes \in Minutes : StartMonitoring(minutes)
    \/ StopMonitoring
    \/ Expiry

ControlSpec == ControlInit /\ [][ControlNext]_control
-----------------------------------------------------------------------------
(* No activation leaks its timer: a timer that can still fire is always    *)
(* the one Start and Stop would cancel.                                    *)
ArmedIsCurrent == \A t \in Timer : timer[t] = "armed" => stopTime = t

(* Monitoring started for some minutes never runs on for ever: while it is *)
(* active its own timer is armed or its callback is on its way.            *)
TimedWillExpire ==
    active /\ asked = "timed" => stopTime \in Outstanding

(* Monitoring started with no limit is turned off before a stop only by    *)
(* the callback of an earlier activation that had already fired when the   *)
(* new one began: once no callback was outstanding at its start, it runs.  *)
FullCutOnlyByStaleCallback == asked = "full" /\ ~raced => active

(* The recorder is an ActivityGate whose outstanding expiries are the      *)
(* timers that are armed or whose callback has not run.                    *)
Gate == INSTANCE ActivityGate
            WITH wish <- asked, open <- active, expiring <- (Outstanding # {})
GateSpec == Gate!Spec
=============================================================================
