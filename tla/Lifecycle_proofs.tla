-------------------------- MODULE Lifecycle_proofs ---------------------------
(***************************************************************************)
(* Proofs about the process of main.go, for any number of requests,        *)
(* queries and connections.                                                *)
(***************************************************************************)
EXTENDS Lifecycle, FiniteSetTheorems, TLAPS

LEMMA UsersFinite == IsFiniteSet(User)
BY LifecycleAssumption, FS_AddElement, FS_Union, FS_Singleton DEF User

(* The pool never hands out more than it has: a set of users only some of  *)
(* whom held a connection before, is no larger.                            *)
LEMMA FewerInUse ==
  ASSUME Cardinality(InUse) <= MaxConns, InUse' \subseteq InUse
  PROVE  Cardinality(InUse') <= MaxConns
<1>1. IsFiniteSet(InUse)
  BY UsersFinite, FS_Subset DEF InUse
<1>2. IsFiniteSet(InUse') /\ Cardinality(InUse') <= Cardinality(InUse)
  BY <1>1, FS_Subset
<1>3. Cardinality(InUse) \in Nat /\ Cardinality(InUse') \in Nat
  BY <1>1, <1>2, FS_CardinalityType
<1> QED
  BY <1>2, <1>3, LifecycleAssumption

LEMMA OneMoreInUse ==
  ASSUME Cardinality(InUse) < MaxConns, NEW u, InUse' = InUse \cup {u}
  PROVE  Cardinality(InUse') <= MaxConns
<1>1. IsFiniteSet(InUse)
  BY UsersFinite, FS_Subset DEF InUse
<1>2. Cardinality(InUse \cup {u}) \in {Cardinality(InUse), Cardinality(InUse) + 1}
  BY <1>1, FS_AddElement
<1>3. Cardinality(InUse) \in Nat
  BY <1>1, FS_CardinalityType
<1> QED
  BY <1>2, <1>3, LifecycleAssumption

LEMMA LifecycleInit == Init => TypeOK
<1> SUFFICES ASSUME Init PROVE TypeOK
  OBVIOUS
<1>1. InUse = {}
  BY DEF Init, InUse
<1>2. Cardinality(InUse) <= MaxConns
  BY <1>1, FS_EmptySet, LifecycleAssumption
<1>3. 0 \in 0..Queries
  BY LifecycleAssumption
<1> QED
  BY <1>1, <1>2, <1>3 DEF Init, TypeOK

(* What every end of a fetch does to the types: the user is idle and its   *)
(* connection, if it had one, is free.                                     *)
LEMMA EndsKeepsTypes ==
  ASSUME TypeOK, NEW u \in User, Ends(u),
         UNCHANGED <<engine, mainVars, streams>>,
         answer' \in [Request -> {"none", "ok", "unavailable", "error"}]
  PROVE  TypeOK'
<1>1. 0 \in 0..Queries
  BY LifecycleAssumption
<1>2. InUse' \subseteq InUse /\ hung' \subseteq InUse'
  BY DEF Ends, InUse, TypeOK
<1>3. Cardinality(InUse') <= MaxConns
  BY <1>2, FewerInUse DEF TypeOK
<1> QED
  BY <1>1, <1>2, <1>3 DEF Ends, TypeOK, mainVars

LEMMA AnsweredKeepsInv ==
  ASSUME TypeOK, NEW r \in Request,
         NEW what \in {"none", "ok", "unavailable", "error"}, Answered(r, what),
         UNCHANGED <<engine, mainVars, streams>>
  PROVE  TypeOK'
<1>1. answer' \in [Request -> {"none", "ok", "unavailable", "error"}]
  BY DEF Answered, TypeOK
<1> QED
  BY <1>1, EndsKeepsTypes DEF Answered, User

LEMMA AbandonedKeepsInv ==
  ASSUME TypeOK, NEW u \in User, Abandoned(u),
         UNCHANGED <<engine, mainVars, streams>>
  PROVE  TypeOK'
<1>1. CASE u \in Request
  BY <1>1, AnsweredKeepsInv DEF Abandoned
<1>2. CASE u \notin Request
  BY <1>2, EndsKeepsTypes DEF Abandoned, TypeOK
<1> QED
  BY <1>1, <1>2

LEMMA RequestStepsKeepInv ==
  ASSUME TypeOK, NEW r \in Request, RequestSteps(r)
  PROVE  TypeOK'
<1> USE DEF mainVars, User
<1>1. CASE BeginRequest(r)
  <2>1. InUse' = InUse
    BY <1>1 DEF BeginRequest, TypeOK, InUse
  <2> QED
    BY <1>1, <2>1, LifecycleAssumption DEF BeginRequest, TypeOK
<1>2. CASE DeadlinePasses(r)
  BY <1>2, AnsweredKeepsInv DEF DeadlinePasses
<1>3. CASE ClientLeaves(r)
  BY <1>3, AnsweredKeepsInv DEF ClientLeaves
<1> QED
  BY <1>1, <1>2, <1>3 DEF RequestSteps

LEMMA UserStepsKeepInv ==
  ASSUME TypeOK, NEW u \in User, UserSteps(u)
  PROVE  TypeOK'
<1> USE DEF mainVars
<1>1. CASE Acquire(u)
  <2>1. InUse' = InUse \cup {u}
    BY <1>1 DEF Acquire, TypeOK, InUse
  <2>2. Cardinality(InUse') <= MaxConns
    BY <1>1, <2>1, OneMoreInUse DEF Acquire, ConnFree
  <2> QED
    BY <1>1, <2>1, <2>2 DEF Acquire, TypeOK
<1>2. CASE Refused(u)
  BY <1>2, AbandonedKeepsInv DEF Refused
<1>3. CASE QueryReturns(u)
  <2>1. InUse' \subseteq InUse /\ hung' \subseteq InUse'
    BY <1>3 DEF QueryReturns, TypeOK, InUse
  <2>2. Cardinality(InUse') <= MaxConns
    BY <2>1, FewerInUse DEF TypeOK
  <2>3. left' \in [User -> 0..Queries]
    <3>1. left[u] \in 0..Queries /\ left[u] > 1
      BY <1>3 DEF QueryReturns, TypeOK
    <3>2. left[u] - 1 \in 0..Queries
      BY <3>1, LifecycleAssumption
    <3> QED
      BY <1>3, <3>2 DEF QueryReturns, TypeOK
  <2> QED
    BY <1>3, <2>1, <2>2, <2>3 DEF QueryReturns, TypeOK
<1>4. CASE LastQueryReturns(u)
  <2>1. CASE u \in Request
    BY <1>4, <2>1, AnsweredKeepsInv DEF LastQueryReturns
  <2>2. CASE u \notin Request
    BY <1>4, <2>2, EndsKeepsTypes DEF LastQueryReturns, TypeOK
  <2> QED
    BY <2>1, <2>2
<1>5. CASE QueryFails(u)
  BY <1>5, AbandonedKeepsInv DEF QueryFails
<1>6. CASE QueryHangs(u)
  <2>1. InUse' = InUse /\ hung' \subseteq InUse'
    BY <1>6 DEF QueryHangs, TypeOK, InUse
  <2> QED
    BY <1>6, <2>1 DEF QueryHangs, TypeOK
<1> QED
  BY <1>1, <1>2, <1>3, <1>4, <1>5, <1>6 DEF UserSteps

LEMMA PollerStepsKeepInv ==
  ASSUME TypeOK, PollerSteps
  PROVE  TypeOK'
<1> USE DEF mainVars
<1>1. Poller \in User /\ Poller \notin Request
  BY LifecycleAssumption DEF User
<1>2. CASE Tick
  <2>1. InUse' = InUse
    BY <1>2 DEF Tick, TypeOK, InUse
  <2> QED
    BY <1>1, <1>2, <2>1, LifecycleAssumption DEF Tick, TypeOK
<1>3. CASE PollerCancelled
  BY <1>1, <1>3, EndsKeepsTypes DEF PollerCancelled, TypeOK
<1>4. CASE PollerReturns
  <2>1. InUse' = InUse
    BY <1>4 DEF PollerReturns, TypeOK, InUse
  <2> QED
    BY <1>1, <1>4, <2>1 DEF PollerReturns, TypeOK
<1> QED
  BY <1>2, <1>3, <1>4 DEF PollerSteps

(* The steps of main, the signal and the stream leave every fetch alone.   *)
LEMMA MainKeepsInv ==
  ASSUME TypeOK, OpenStream \/ CloseStream \/ Signal \/ ListenFails \/ MainSteps
  PROVE  TypeOK'
<1>1. /\ UNCHANGED <<engine, userVars>> /\ InUse' = InUse
      /\ main' \in {"serving", "draining", "closing", "exited"}
      /\ cancelled' \in BOOLEAN /\ streams' \in BOOLEAN
  BY DEF OpenStream, CloseStream, Signal, ListenFails, MainSteps, BeginShutdown, Drained,
         ShutdownTimesOut, PoolCloses, InUse, TypeOK, mainVars, userVars
<1> QED
  BY <1>1 DEF TypeOK, userVars

(* Type correctness, which includes that the pool never lends more         *)
(* connections than it has (pool.go), whatever hangs, leaves or times out. *)
THEOREM LifecycleTypeOK == Spec => []TypeOK
<1>1. TypeOK /\ [Next]_vars => TypeOK'
  <2> SUFFICES ASSUME TypeOK, [Next]_vars PROVE TypeOK'
    OBVIOUS
  <2>1. CASE Next
    BY <2>1, RequestStepsKeepInv, UserStepsKeepInv, PollerStepsKeepInv, MainKeepsInv DEF Next
  <2>2. CASE UNCHANGED vars
    BY <2>2 DEF vars, TypeOK, InUse
  <2> QED
    BY <2>1, <2>2
<1> QED
  BY <1>1, LifecycleInit, PTL DEF Spec
=============================================================================
