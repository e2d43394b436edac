------------------------ MODULE AccessControl_proofs ------------------------
(***************************************************************************)
(* What the ban layer promises, for any clients, any number of requests at *)
(* a time, any threshold, ban and burst.                                   *)
(*                                                                         *)
(* Three facts carry the proofs.  A ban and the time since it was placed   *)
(* add up to the length of a ban, so it is gone only when that time is     *)
(* over (Served).  The count of wrong keys is never behind the guesses     *)
(* made since the last ban, so the one that reaches the threshold finds    *)
(* the count there as well (Counted).  And a client that was never banned  *)
(* has made every mistake it is counted for (Earned).                      *)
(***************************************************************************)
EXTENDS AccessControl, FiniteSetTheorems, TLAPS

USE DEF Kind, Stage, Free

Served ==
    \A c \in Client :
        IF banLeft[c] = None
          THEN sinceBan[c] = BanLength + 1
          ELSE banLeft[c] + sinceBan[c] = BanLength

Counted == \A c \in Client : guesses[c] <= counts["login"][c]

Unbanned(c) == c \notin convicts => banLeft[c] = None
EarnedOf(k, c) ==
    c \notin convicts => counts[k][c] <= mistakes[k][c] \/ mistakes[k][c] = Threshold
Earned == \A c \in Client : Unbanned(c) /\ \A k \in Kind : EarnedOf(k, c)

-----------------------------------------------------------------------------
(* Types.                                                                  *)
LEMMA TypeOKInit == Init => TypeOK
  BY AccessAssumption DEF Init, TypeOK

LEMMA TypeOKStep == TypeOK /\ [Next]_vars => TypeOK'
<1> SUFFICES ASSUME TypeOK, [Next]_vars PROVE TypeOK'
  OBVIOUS
<1> USE AccessAssumption DEF TypeOK
<1>1. ASSUME NEW r \in Request, NEW c \in Client, NEW k \in Kind, Admit(r, c, k)
      PROVE  TypeOK'
  BY <1>1 DEF Admit, observed
<1>2. ASSUME NEW r \in Request, TakeToken(r) PROVE TypeOK'
  BY <1>2 DEF TakeToken, Go, Finish, observed
<1>3. ASSUME NEW r \in Request, Malformed(r) PROVE TypeOK'
  BY <1>3 DEF Malformed, Finish, observed
<1>4. ASSUME NEW r \in Request, RightKey(r) PROVE TypeOK'
  BY <1>4 DEF RightKey, Finish
<1>5. ASSUME NEW r \in Request, RecordFailure(r) PROVE TypeOK'
  <2>1. request[r].client \in Client /\ request[r].kind \in Kind
    BY <1>5 DEF RecordFailure
  <2>2. counts' \in [Kind -> [Client -> 0..CountBound]]
    BY <1>5, <2>1 DEF RecordFailure, NextCount, Capped
  <2>3. request' \in [Request -> [at : Stage, client : Client, kind : Kind] \cup {Free}]
    BY <1>5, <2>1 DEF RecordFailure, Go, Finish
  <2>4. guesses' \in [Client -> 0..CountBound]
    BY <1>5, <2>1 DEF RecordFailure, Capped
  <2>5. mistakes' \in [Kind -> [Client -> 0..Threshold]]
    BY <1>5, <2>1 DEF RecordFailure, Capped
  <2> QED
    BY <1>5, <2>2, <2>3, <2>4, <2>5 DEF RecordFailure
<1>6. ASSUME NEW r \in Request, Ban(r) PROVE TypeOK'
  BY <1>6 DEF Ban, Finish
<1>7. ASSUME TimePasses PROVE TypeOK'
  BY <1>7 DEF TimePasses, Elapsed
<1>8. ASSUME Restart PROVE TypeOK'
  BY <1>8 DEF Restart
<1>9. ASSUME UNCHANGED vars PROVE TypeOK'
  BY <1>9 DEF vars, observed
<1> QED
  BY <1>1, <1>2, <1>3, <1>4, <1>5, <1>6, <1>7, <1>8, <1>9 DEF Next, Handle

(* For any clients, requests and limits, counts, buckets and bans stay     *)
(* within their ranges: a bucket never holds more than its burst.          *)
THEOREM AccessTypeOK == Spec => []TypeOK
<1>1. Init => TypeOK
  BY TypeOKInit
<1>2. TypeOK /\ [Next]_vars => TypeOK'
  BY TypeOKStep
<1> QED
  BY <1>1, <1>2, PTL DEF Spec
-----------------------------------------------------------------------------
(* Bans.                                                                   *)
LEMMA ServedStep == TypeOK /\ Served /\ [Next]_vars => Served'
<1> SUFFICES ASSUME TypeOK, Served, [Next]_vars PROVE Served'
  OBVIOUS
<1> USE AccessAssumption DEF TypeOK, Served
<1>1. ASSUME UNCHANGED <<banLeft, sinceBan>> PROVE Served'
  BY <1>1
<1>2. ASSUME NEW r \in Request, NEW c \in Client, NEW k \in Kind, Admit(r, c, k)
      PROVE  Served'
  BY <1>1, <1>2 DEF Admit, observed
<1>3. ASSUME NEW r \in Request, TakeToken(r) \/ Malformed(r) \/ RightKey(r) \/ RecordFailure(r)
      PROVE  Served'
  BY <1>1, <1>3 DEF TakeToken, Malformed, RightKey, RecordFailure, observed
<1>4. ASSUME NEW r \in Request, Ban(r) PROVE Served'
  BY <1>4 DEF Ban, Finish
<1>5. ASSUME TimePasses PROVE Served'
  BY <1>5 DEF TimePasses, Elapsed
<1>6. ASSUME Restart PROVE Served'
  BY <1>6 DEF Restart
<1>7. ASSUME UNCHANGED vars PROVE Served'
  BY <1>1, <1>7 DEF vars, observed
<1> QED
  BY <1>2, <1>3, <1>4, <1>5, <1>6, <1>7 DEF Next, Handle

(* Only Admit gives a request to a client.                                 *)
LEMMA AdmittedInTime ==
  ASSUME TypeOK, Served, [Next]_vars,
         NEW r \in Request, request[r] = Free, request'[r] # Free
  PROVE  sinceBan[request'[r].client] > BanLength
<1> USE AccessAssumption DEF TypeOK
<1>1. ASSUME NEW q \in Request, NEW c \in Client, NEW k \in Kind, Admit(q, c, k)
      PROVE  sinceBan[request'[r].client] > BanLength
  <2>1. r = q
    BY <1>1 DEF Admit
  <2>2. request'[r].client = c
    BY <1>1, <2>1 DEF Admit
  <2>3. sinceBan[c] = BanLength + 1
    BY <1>1 DEF Admit, Banned, Served
  <2> QED
    BY <2>2, <2>3
<1>2. ASSUME NEW q \in Request, Handle(q) PROVE FALSE
  <2>1. request[q] # Free /\ \A p \in Request \ {q} : request'[p] = request[p]
    BY <1>2 DEF Handle, TakeToken, Malformed, RightKey, RecordFailure, Ban, Go, Finish
  <2> QED
    BY <2>1
<1>3. ASSUME TimePasses \/ Restart \/ UNCHANGED vars PROVE FALSE
  BY <1>3 DEF TimePasses, Restart, vars
<1> QED
  BY <1>1, <1>2, <1>3 DEF Next

(* For any clients and limits a ban is served in full: no reset, no expiry *)
(* and no other ban lets a request of the client through before its time.  *)
THEOREM BansAreServed == Spec => BanServedInFull
<1>1. Init => TypeOK /\ Served
  <2>1. Init => Served
    BY AccessAssumption DEF Init, Served
  <2> QED
    BY <2>1, TypeOKInit
<1>2. TypeOK /\ Served /\ [Next]_vars => (TypeOK /\ Served)'
  BY TypeOKStep, ServedStep
<1>3. TypeOK /\ Served /\ [Next]_vars =>
        [\A r \in Request : request[r] = Free /\ request'[r] # Free =>
           sinceBan[request'[r].client] > BanLength]_vars
  BY AdmittedInTime
<1> QED
  BY <1>1, <1>2, <1>3, PTL DEF Spec, BanServedInFull
-----------------------------------------------------------------------------
(* Guesses.                                                                *)
LEMMA CountedStep == TypeOK /\ Counted /\ [Next]_vars => Counted'
<1> SUFFICES ASSUME TypeOK, Counted, [Next]_vars PROVE Counted'
  OBVIOUS
<1> USE AccessAssumption DEF TypeOK, Counted
<1>1. ASSUME UNCHANGED <<counts, guesses>> PROVE Counted'
  BY <1>1
<1>2. ASSUME NEW r \in Request, NEW c \in Client, NEW k \in Kind, Admit(r, c, k)
      PROVE  Counted'
  BY <1>1, <1>2 DEF Admit, observed
<1>3. ASSUME NEW r \in Request, TakeToken(r) \/ Malformed(r) PROVE Counted'
  BY <1>1, <1>3 DEF TakeToken, Malformed, observed
<1>4. ASSUME NEW r \in Request, RightKey(r) PROVE Counted'
  BY <1>4 DEF RightKey
<1>5. ASSUME NEW r \in Request, RecordFailure(r) PROVE Counted'
  BY <1>5 DEF RecordFailure, NextCount, Capped
<1>6. ASSUME NEW r \in Request, Ban(r) PROVE Counted'
  BY <1>6 DEF Ban
<1>7. ASSUME TimePasses \/ UNCHANGED vars PROVE Counted'
  BY <1>1, <1>7 DEF TimePasses, vars, observed
<1>8. ASSUME Restart PROVE Counted'
  BY <1>8 DEF Restart
<1> QED
  BY <1>2, <1>3, <1>4, <1>5, <1>6, <1>7, <1>8 DEF Next, Handle

LEMMA BanningFinite ==
  ASSUME NEW k \in Kind, NEW c \in Client
  PROVE  /\ IsFiniteSet(Banning(k, c)) /\ Cardinality(Banning(k, c)) \in Nat
         /\ IsFiniteSet(Banning(k, c)') /\ Cardinality(Banning(k, c)') \in Nat
  BY AccessAssumption, FS_Subset, FS_CardinalityType DEF Banning

(* A client whose guesses do not grow stays within its bound as long as    *)
(* none of its requests stops short of its ban.                            *)
LEMMA StillBounded ==
  ASSUME TypeOK, TypeOK', GuessesBounded, NEW c \in Client,
         guesses'[c] <= guesses[c],
         Banning("login", c) \subseteq Banning("login", c)'
  PROVE  guesses'[c] < Threshold + Cardinality(Banning("login", c)')
<1>1. Cardinality(Banning("login", c)) <= Cardinality(Banning("login", c)')
  BY BanningFinite, FS_Subset
<1>2. guesses[c] < Threshold + Cardinality(Banning("login", c))
  BY DEF GuessesBounded
<1> QED
  BY <1>1, <1>2, BanningFinite, AccessAssumption DEF TypeOK

(* Without a guess there is nothing to show.                               *)
LEMMA NoGuess ==
  ASSUME NEW c \in Client, guesses'[c] = 0
  PROVE  guesses'[c] < Threshold + Cardinality(Banning("login", c)')
  BY BanningFinite, AccessAssumption

(* The one step that adds a guess also adds the request that will ban.     *)
LEMMA FailureIsPaidFor ==
  ASSUME TypeOK, TypeOK', Counted, GuessesBounded,
         NEW r \in Request, RecordFailure(r), request[r].kind = "login",
         NEW c \in Client, request[r].client = c
  PROVE  guesses'[c] < Threshold + Cardinality(Banning("login", c)')
<1> DEFINE B == Banning("login", c)
<1>0. request[r].at = "handle" /\ guesses[c] \in Nat /\ counts["login"][c] \in Nat
  BY DEF TypeOK, RecordFailure
<1>1. guesses'[c] = Capped(guesses[c] + 1, CountBound)
  BY <1>0 DEF TypeOK, RecordFailure
<1>2. guesses'[c] \in Nat /\ guesses'[c] <= guesses[c] + 1
  BY <1>0, <1>1, AccessAssumption DEF Capped
<1>3. CASE Reaches(counts["login"][c] + 1)
  <2>1. Banning("login", c)' = B \cup {r}
    BY <1>0, <1>3 DEF RecordFailure, NextCount, Go, Banning, TypeOK
  <2>2. r \notin B
    BY <1>0 DEF Banning
  <2>3. Cardinality(Banning("login", c)') = Cardinality(B) + 1
    BY <1>0, <2>1, <2>2, BanningFinite, FS_AddElement
  <2>4. guesses[c] < Threshold + Cardinality(B)
    BY <1>0 DEF GuessesBounded
  <2>5. Cardinality(B) \in Nat
    BY BanningFinite
  <2> QED
    BY <1>0, <1>2, <2>3, <2>4, <2>5, AccessAssumption
<1>4. CASE ~Reaches(counts["login"][c] + 1)
  <2>1. guesses[c] <= counts["login"][c]
    BY <1>0 DEF Counted
  <2>2. guesses'[c] < Threshold
    BY <1>0, <1>2, <1>4, <2>1, AccessAssumption DEF Reaches
  <2> QED
    BY <1>0, <1>2, <2>2, BanningFinite, AccessAssumption
<1> QED
  BY <1>3, <1>4

LEMMA GuessesStep ==
  TypeOK /\ TypeOK' /\ Counted /\ GuessesBounded /\ [Next]_vars => GuessesBounded'
<1> SUFFICES ASSUME TypeOK, TypeOK', Counted, GuessesBounded, [Next]_vars, NEW c \in Client
             PROVE  guesses'[c] < Threshold + Cardinality(Banning("login", c)')
  BY DEF GuessesBounded
<1> DEFINE Bounded == guesses'[c] < Threshold + Cardinality(Banning("login", c)')
<1>1. ASSUME NEW r \in Request, NEW d \in Client, NEW k \in Kind, Admit(r, d, k) PROVE Bounded
  <2>1. guesses'[c] <= guesses[c]
    BY <1>1 DEF Admit, observed, TypeOK
  <2>2. Banning("login", c) \subseteq Banning("login", c)'
    BY <1>1 DEF Admit, Banning, TypeOK
  <2> QED
    BY <2>1, <2>2, StillBounded
<1>2. ASSUME NEW r \in Request, TakeToken(r) \/ Malformed(r) PROVE Bounded
  <2>1. guesses'[c] <= guesses[c]
    BY <1>2 DEF TakeToken, Malformed, observed, TypeOK
  <2>2. Banning("login", c) \subseteq Banning("login", c)'
    BY <1>2 DEF TakeToken, Malformed, Go, Finish, Banning, TypeOK
  <2> QED
    BY <2>1, <2>2, StillBounded
<1>3. ASSUME NEW r \in Request, RightKey(r) PROVE Bounded
  <2>1. guesses'[c] <= guesses[c]
    BY <1>3 DEF RightKey, TypeOK
  <2>2. Banning("login", c) \subseteq Banning("login", c)'
    BY <1>3 DEF RightKey, Finish, Banning, TypeOK
  <2> QED
    BY <2>1, <2>2, StillBounded
<1>4. ASSUME NEW r \in Request, RecordFailure(r) PROVE Bounded
  <2>1. CASE request[r].kind = "login" /\ request[r].client = c
    BY <1>4, <2>1, FailureIsPaidFor
  <2>2. CASE ~(request[r].kind = "login" /\ request[r].client = c)
    <3>1. guesses'[c] <= guesses[c]
      BY <1>4, <2>2 DEF RecordFailure, TypeOK
    <3>2. Banning("login", c) \subseteq Banning("login", c)'
      BY <1>4 DEF RecordFailure, Go, Finish, Banning, TypeOK
    <3> QED
      BY <3>1, <3>2, StillBounded
  <2> QED
    BY <2>1, <2>2
<1>5. ASSUME NEW r \in Request, Ban(r) PROVE Bounded
  <2>1. CASE request[r].client = c
    BY <1>5, <2>1, NoGuess DEF Ban, TypeOK
  <2>2. CASE request[r].client # c
    <3>1. guesses'[c] <= guesses[c]
      BY <1>5, <2>2 DEF Ban, TypeOK
    <3>2. Banning("login", c) \subseteq Banning("login", c)'
      BY <1>5, <2>2 DEF Ban, Finish, Banning, TypeOK
    <3> QED
      BY <3>1, <3>2, StillBounded
  <2> QED
    BY <2>1, <2>2
<1>6. ASSUME TimePasses \/ UNCHANGED vars PROVE Bounded
  <2>1. guesses'[c] <= guesses[c]
    BY <1>6 DEF TimePasses, vars, observed, TypeOK
  <2>2. Banning("login", c) \subseteq Banning("login", c)'
    BY <1>6 DEF TimePasses, vars, Banning
  <2> QED
    BY <2>1, <2>2, StillBounded
<1>7. ASSUME Restart PROVE Bounded
  BY <1>7, NoGuess DEF Restart
<1> QED
  BY <1>1, <1>2, <1>3, <1>4, <1>5, <1>6, <1>7 DEF Next, Handle

(* For any number of requests at a time and any threshold, a client gets   *)
(* at most one wrong key less than the threshold answered between two      *)
(* bans, and beyond it only by requests that are about to ban it.          *)
THEOREM GuessesAreBounded == Spec => []GuessesBounded
<1>1. Init => TypeOK /\ Counted /\ GuessesBounded
  <2>1. Init => Counted /\ \A c \in Client : guesses[c] = 0
    BY AccessAssumption DEF Init, Counted
  <2>2. Init => GuessesBounded
    BY <2>1, BanningFinite, AccessAssumption DEF GuessesBounded
  <2> QED
    BY <2>1, <2>2, TypeOKInit
<1>2. TypeOK /\ Counted /\ GuessesBounded /\ [Next]_vars => (TypeOK /\ Counted /\ GuessesBounded)'
  BY TypeOKStep, CountedStep, GuessesStep
<1> QED
  BY <1>1, <1>2, PTL DEF Spec
-----------------------------------------------------------------------------
(* First bans.                                                             *)
LEMMA EarnedStep ==
  TypeOK /\ TypeOK' /\ Earned /\ FirstBanIsEarned /\ [Next]_vars => (Earned /\ FirstBanIsEarned)'
<1> SUFFICES ASSUME TypeOK, TypeOK', Earned, FirstBanIsEarned, [Next]_vars
             PROVE  Earned' /\ FirstBanIsEarned'
  OBVIOUS
<1> USE AccessAssumption
<1>1. ASSUME UNCHANGED <<banLeft, counts, mistakes, convicts>> PROVE Earned'
  BY <1>1 DEF Earned, EarnedOf, Unbanned
<1>2. ASSUME UNCHANGED <<mistakes, convicts>>,
             \A r \in Request : request'[r].at = "ban" => request'[r] = request[r]
      PROVE  FirstBanIsEarned'
  BY <1>2 DEF FirstBanIsEarned
<1>3. ASSUME NEW r \in Request, NEW c \in Client, NEW k \in Kind, Admit(r, c, k)
      PROVE  Earned' /\ FirstBanIsEarned'
  <2>1. \A q \in Request : request'[q].at = "ban" => request'[q] = request[q]
    BY <1>3 DEF Admit, TypeOK
  <2> QED
    BY <1>1, <1>2, <1>3, <2>1 DEF Admit, observed
<1>4. ASSUME NEW r \in Request, TakeToken(r) \/ Malformed(r) PROVE Earned' /\ FirstBanIsEarned'
  <2>1. \A q \in Request : request'[q].at = "ban" => request'[q] = request[q]
    BY <1>4 DEF TakeToken, Malformed, Go, Finish, TypeOK
  <2> QED
    BY <1>1, <1>2, <1>4, <2>1 DEF TakeToken, Malformed, observed
<1>5. ASSUME NEW r \in Request, RightKey(r) PROVE Earned' /\ FirstBanIsEarned'
  <2>1. \A q \in Request : request'[q].at = "ban" => request'[q] = request[q]
    BY <1>5 DEF RightKey, Finish, TypeOK
  <2>2. Earned'
    BY <1>5 DEF RightKey, Earned, EarnedOf, Unbanned, TypeOK
  <2> QED
    BY <1>2, <1>5, <2>1, <2>2 DEF RightKey
<1>6. ASSUME NEW r \in Request, RecordFailure(r) PROVE Earned' /\ FirstBanIsEarned'
  <2>0. PICK c \in Client, k \in Kind : request[r].client = c /\ request[r].kind = k
    BY <1>6 DEF RecordFailure, TypeOK
  <2>1. /\ banLeft' = banLeft /\ convicts' = convicts
        /\ counts[k][c] \in Nat /\ mistakes[k][c] \in 0..Threshold
        /\ counts'[k][c] <= counts[k][c] + 1
        /\ mistakes'[k][c] = Capped(mistakes[k][c] + 1, Threshold)
    BY <1>6, <2>0 DEF RecordFailure, NextCount, Capped, TypeOK
  <2>2. \A j \in Kind, d \in Client : j # k \/ d # c =>
           counts'[j][d] = counts[j][d] /\ mistakes'[j][d] = mistakes[j][d]
    BY <1>6, <2>0 DEF RecordFailure, TypeOK
  <2>3. mistakes'[k][c] >= mistakes[k][c] /\ mistakes'[k][c] \in Nat
    BY <2>1 DEF Capped
  <2>4. EarnedOf(k, c) /\ counts'[k][c] \in Nat
    BY DEF Earned, TypeOK
  <2>5. EarnedOf(k, c)'
    BY <2>1, <2>4 DEF EarnedOf, Capped
  <2>6. ASSUME NEW d \in Client, NEW j \in Kind PROVE Unbanned(d)' /\ EarnedOf(j, d)'
    <3>1. Unbanned(d) /\ EarnedOf(j, d)
      BY DEF Earned
    <3> QED
      BY <2>1, <2>2, <2>5, <3>1 DEF EarnedOf, Unbanned
  <2>7. Earned'
    BY <2>6 DEF Earned
  <2>8. ASSUME NEW q \in Request, request'[q].at = "ban", request'[q].client \notin convicts'
        PROVE  mistakes'[request'[q].kind][request'[q].client] >= Threshold
    <3>1. CASE q = r
      <4>1. request'[q].client = c /\ request'[q].kind = k
        BY <1>6, <2>0, <2>8, <3>1 DEF RecordFailure, Go, Finish, TypeOK
      <4>2. counts[k][c] + 1 >= Threshold
        BY <1>6, <2>0, <2>8, <3>1 DEF RecordFailure, NextCount, Reaches, Finish, TypeOK
      <4>3. mistakes'[k][c] >= Threshold
        BY <2>1, <2>4, <2>8, <4>1, <4>2 DEF EarnedOf, Capped
      <4> QED
        BY <4>1, <4>3
    <3>2. CASE q # r
      <4>1. request'[q] = request[q] /\ request[q].at = "ban"
        BY <1>6, <2>8, <3>2 DEF RecordFailure, Go, Finish, TypeOK
      <4>2. PICK d \in Client, j \in Kind : request[q].client = d /\ request[q].kind = j
        BY <4>1 DEF TypeOK
      <4>3. mistakes[j][d] >= Threshold /\ mistakes[j][d] \in Nat
        BY <2>1, <2>8, <4>1, <4>2 DEF FirstBanIsEarned, TypeOK
      <4>4. mistakes'[j][d] >= Threshold
        BY <2>1, <2>2, <2>3, <4>3
      <4> QED
        BY <4>1, <4>2, <4>4
    <3> QED
      BY <3>1, <3>2
  <2> QED
    BY <2>7, <2>8 DEF FirstBanIsEarned
<1>7. ASSUME NEW r \in Request, Ban(r) PROVE Earned' /\ FirstBanIsEarned'
  <2>1. Earned'
    BY <1>7 DEF Ban, Earned, EarnedOf, Unbanned, TypeOK
  <2>2. \A q \in Request : request'[q].at = "ban" => request'[q] = request[q]
    BY <1>7 DEF Ban, Finish, TypeOK
  <2> QED
    BY <1>7, <2>1, <2>2 DEF Ban, FirstBanIsEarned
<1>8. ASSUME TimePasses PROVE Earned' /\ FirstBanIsEarned'
  <2>1. \A c \in Client : c \notin convicts => banLeft[c] = None /\ banLeft'[c] = None
    BY <1>8 DEF TimePasses, Elapsed, Earned, Unbanned
  <2>2. \A c \in Client, k \in Kind : c \notin convicts => mistakes'[k][c] = mistakes[k][c]
    BY <1>8, <2>1 DEF TimePasses
  <2>3. Earned'
    BY <1>8, <2>1, <2>2 DEF TimePasses, Earned, EarnedOf, Unbanned
  <2>4. \A r \in Request : request[r].at = "ban" => request[r].client \in Client /\ request[r].kind \in Kind
    BY DEF TypeOK
  <2> QED
    BY <1>8, <2>2, <2>3, <2>4 DEF TimePasses, FirstBanIsEarned
<1>9. ASSUME Restart PROVE Earned' /\ FirstBanIsEarned'
  BY <1>9 DEF Restart, Earned, EarnedOf, Unbanned, FirstBanIsEarned
<1>10. ASSUME UNCHANGED vars PROVE Earned' /\ FirstBanIsEarned'
  BY <1>1, <1>2, <1>10 DEF vars, observed
<1> QED
  BY <1>3, <1>4, <1>5, <1>6, <1>7, <1>8, <1>9, <1>10 DEF Next, Handle

(* For any threshold and any number of requests at a time, nobody is       *)
(* banned for the first time without as many mistakes of one kind: neither *)
(* those of other clients nor those of another kind are held against it.   *)
THEOREM FirstBansAreEarned == Spec => []FirstBanIsEarned
<1>1. Init => TypeOK /\ Earned /\ FirstBanIsEarned
  <2>1. Init => Earned /\ FirstBanIsEarned
    BY AccessAssumption DEF Init, Earned, EarnedOf, Unbanned, FirstBanIsEarned
  <2> QED
    BY <2>1, TypeOKInit
<1>2. TypeOK /\ Earned /\ FirstBanIsEarned /\ [Next]_vars => (TypeOK /\ Earned /\ FirstBanIsEarned)'
  BY TypeOKStep, EarnedStep
<1> QED
  BY <1>1, <1>2, PTL DEF Spec
=============================================================================
