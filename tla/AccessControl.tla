---------------------------- MODULE AccessControl ----------------------------
(***************************************************************************)
(* The layer in front of the API that counts a client's mistakes and bans  *)
(* it: withBanCheck around everything, the token bucket of the login route *)
(* and the two handlers that count, handleLogin and handleScanProbe.       *)
(*                                                                         *)
(* Every request is a goroutine.  The ban store, each attempt tracker and  *)
(* the limiter have a mutex of their own, held for one method call: so the *)
(* check, the token, the count and the ban of a request are four steps,    *)
(* and the requests of one client interleave between them.                 *)
(*                                                                         *)
(* Time advances by the period in which the login bucket gains a token.    *)
(* A request that is refused changes nothing and does not appear.          *)
(***************************************************************************)
EXTENDS Naturals, FiniteSets

CONSTANTS Client,     \* client addresses, as clientIP tells them apart
          Request,    \* requests that may be handled at the same time
          Threshold,  \* failureBanThreshold
          BanLength,  \* loginBanDuration and scanBanDuration
          Burst,      \* the login limiter's burst
          CountBound, \* bound: the highest count told apart
          None        \* no client, no ban

ASSUME AccessAssumption ==
    /\ None \notin Client \cup Nat
    /\ IsFiniteSet(Request)
    /\ Threshold \in Nat \ {0}
    /\ BanLength \in Nat
    /\ Burst \in Nat \ {0}
    /\ CountBound \in Nat /\ CountBound > Threshold

VARIABLES banLeft, \* what is left of a client's ban; None once it is over
          counts,  \* the attemptTracker of each kind of mistake
          tokens,  \* the login bucket of each client
          request  \* where a request stands, whose it is and of which kind

(* Kept for the properties only.                                           *)
VARIABLES guesses,  \* wrong keys since the last ban or right key
          mistakes, \* mistakes of each kind since a client's last ban was over
          convicts, \* clients that have been banned before
          sinceBan  \* time since the last ban was placed, up to BanLength + 1

observed == <<guesses, mistakes, convicts, sinceBan>>
vars == <<banLeft, counts, tokens, request, observed>>

Kind == {"login", "probe"}
Free == [at |-> "free", client |-> None, kind |-> "login"]
Stage == {"limit", "handle", "ban"}

TypeOK ==
    /\ banLeft \in [Client -> 0..BanLength \cup {None}]
    /\ counts \in [Kind -> [Client -> 0..CountBound]]
    /\ tokens \in [Client -> 0..Burst]
    /\ request \in [Request -> [at : Stage, client : Client, kind : Kind] \cup {Free}]
    /\ guesses \in [Client -> 0..CountBound]
    /\ mistakes \in [Kind -> [Client -> 0..Threshold]]
    /\ convicts \subseteq Client
    /\ sinceBan \in [Client -> 0..(BanLength + 1)]

Init ==
    /\ banLeft = [c \in Client |-> None]
    /\ counts = [k \in Kind |-> [c \in Client |-> 0]]
    /\ tokens = [c \in Client |-> Burst]
    /\ request = [r \in Request |-> Free]
    /\ guesses = [c \in Client |-> 0]
    /\ mistakes = [k \in Kind |-> [c \in Client |-> 0]]
    /\ convicts = {}
    /\ sinceBan = [c \in Client |-> BanLength + 1]
-----------------------------------------------------------------------------
(* Plausible mistakes in this code, each of which breaks a property below. *)
ReachesAboveThreshold(count) == count > Threshold
CountTogether(k, c) == counts["login"][c] + counts["probe"][c] + 1
BannedWhileTimeIsLeft(c) == banLeft[c] \notin {None, 0}
NeverElapsed == banLeft
-----------------------------------------------------------------------------
(* isBanned: a ban holds up to and including its last moment.              *)
Banned(c) == banLeft[c] # None

(* The bans after one unit of time.                                        *)
Elapsed ==
    [c \in Client |-> IF banLeft[c] \in {None, 0} THEN None ELSE banLeft[c] - 1]

Reaches(count) == count >= Threshold

(* recordFailure's result, as far as counts are told apart.                *)
NextCount(k, c) == counts[k][c] + 1

Capped(n, bound) == IF n > bound THEN bound ELSE n

Go(r, stage) == request' = [request EXCEPT ![r].at = stage]
Finish(r) == request' = [request EXCEPT ![r] = Free]
-----------------------------------------------------------------------------
(* withBanCheck lets a request through; only the login route has a bucket. *)
Admit(r, c, k) ==
    /\ request[r] = Free
    /\ ~Banned(c)
    /\ request' = [request EXCEPT ![r] =
                     [at |-> IF k = "login" THEN "limit" ELSE "handle", client |-> c, kind |-> k]]
    /\ UNCHANGED <<banLeft, counts, tokens, observed>>

TakeToken(r) ==
    LET c == request[r].client IN
    /\ request[r].at = "limit"
    /\ \/ /\ tokens[c] > 0
          /\ tokens' = [tokens EXCEPT ![c] = @ - 1]
          /\ Go(r, "handle")
       \/ /\ tokens[c] = 0
          /\ Finish(r)
          /\ UNCHANGED tokens
    /\ UNCHANGED <<banLeft, counts, observed>>

(* The body of a login cannot be decoded.                                  *)
Malformed(r) ==
    /\ request[r].at = "handle"
    /\ request[r].kind = "login"
    /\ Finish(r)
    /\ UNCHANGED <<banLeft, counts, tokens, observed>>

RightKey(r) ==
    LET c == request[r].client IN
    /\ request[r].at = "handle"
    /\ request[r].kind = "login"
    /\ counts' = [counts EXCEPT !["login"][c] = 0]
    /\ Finish(r)
    /\ guesses' = [guesses EXCEPT ![c] = 0]
    /\ UNCHANGED <<banLeft, tokens, mistakes, convicts, sinceBan>>

(* A wrong key, or a path only scanners ask for, is counted.               *)
RecordFailure(r) ==
    LET c == request[r].client
        k == request[r].kind
        count == NextCount(k, c)
    IN  /\ request[r].at = "handle"
        /\ counts' = [counts EXCEPT ![k][c] = Capped(count, CountBound)]
        /\ IF Reaches(count) THEN Go(r, "ban") ELSE Finish(r)
        /\ guesses' = [guesses EXCEPT ![c] = IF k = "login" THEN Capped(@ + 1, CountBound) ELSE @]
        /\ mistakes' = [mistakes EXCEPT ![k][c] = Capped(@ + 1, Threshold)]
        /\ UNCHANGED <<banLeft, tokens, convicts, sinceBan>>

Ban(r) ==
    LET c == request[r].client IN
    /\ request[r].at = "ban"
    /\ banLeft' = [banLeft EXCEPT ![c] = BanLength]
    /\ Finish(r)
    /\ guesses' = [guesses EXCEPT ![c] = 0]
    /\ convicts' = convicts \cup {c}
    /\ sinceBan' = [sinceBan EXCEPT ![c] = 0]
    /\ UNCHANGED <<counts, tokens, mistakes>>

TimePasses ==
    /\ banLeft' = Elapsed
    /\ tokens' = [c \in Client |-> IF tokens[c] < Burst THEN tokens[c] + 1 ELSE Burst]
    /\ sinceBan' = [c \in Client |->
                      IF sinceBan[c] <= BanLength THEN sinceBan[c] + 1 ELSE sinceBan[c]]
    /\ mistakes' = [k \in Kind |-> [c \in Client |->
                      IF banLeft[c] = 0 THEN 0 ELSE mistakes[k][c]]]
    /\ UNCHANGED <<counts, request, guesses, convicts>>

(* Everything is in memory: a restart unbans everyone.                     *)
Restart ==
    /\ banLeft' = [c \in Client |-> None]
    /\ counts' = [k \in Kind |-> [c \in Client |-> 0]]
    /\ tokens' = [c \in Client |-> Burst]
    /\ request' = [r \in Request |-> Free]
    /\ guesses' = [c \in Client |-> 0]
    /\ mistakes' = [k \in Kind |-> [c \in Client |-> 0]]
    /\ convicts' = {}
    /\ sinceBan' = [c \in Client |-> BanLength + 1]

Handle(r) == TakeToken(r) \/ Malformed(r) \/ RightKey(r) \/ RecordFailure(r) \/ Ban(r)

Next ==
    \/ \E r \in Request : \/ \E c \in Client, k \in Kind : Admit(r, c, k)
                          \/ Handle(r)
    \/ TimePasses
    \/ Restart

Spec == Init /\ [][Next]_vars

(* A handler that runs goes on to its end, and time passes.                *)
FairSpec == Spec /\ WF_vars(TimePasses) /\ \A r \in Request : WF_vars(Handle(r))
-----------------------------------------------------------------------------
Banning(k, c) ==
    {r \in Request : request[r].at = "ban" /\ request[r].client = c /\ request[r].kind = k}

(* A client's requests cannot outrun its ban: beyond one less than the     *)
(* threshold, every wrong key that is answered between two bans belongs to *)
(* a request that is about to ban the client.                              *)
GuessesBounded ==
    \A c \in Client : guesses[c] < Threshold + Cardinality(Banning("login", c))

(* A ban is served in full: nobody's reset, expiry or later ban lets a     *)
(* request of the client through before the last ban's time is over.       *)
BanServedInFull ==
    [][\A r \in Request : request[r] = Free /\ request'[r] # Free =>
          sinceBan[request'[r].client] > BanLength]_vars

(* A client that was never banned before is about to be only when it has   *)
(* made Threshold mistakes of one kind: "A single mistake ... never        *)
(* triggers a ban on its own", and mistakes of different kinds do not add  *)
(* up. After a ban the count is left where it was, and one mistake does.   *)
FirstBanIsEarned ==
    \A r \in Request : request[r].at = "ban" /\ request[r].client \notin convicts =>
        mistakes[request[r].kind][request[r].client] >= Threshold

(* A client that makes no more mistakes is some day let in again for good. *)
BansEnd ==
    \A c \in Client :
        <>[][\A r \in Request : request[r].client = c => ~RecordFailure(r)]_vars
            => <>[](~Banned(c))
=============================================================================
