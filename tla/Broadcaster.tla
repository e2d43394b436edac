----------------------------- MODULE Broadcaster -----------------------------
(***************************************************************************)
(* The fan-out of broadcaster.go: one goroutine, the poller's, broadcasts  *)
(* events to the clients, each of which is a request goroutine reading its *)
(* own buffered channel.                                                   *)
(*                                                                         *)
(* Broadcast holds the read lock from its first line to its last, and      *)
(* register and unregister need the write lock, so they wait for it.  The  *)
(* channels are not under the lock: a client may receive between any two   *)
(* channel operations of Broadcast, in particular between the send that    *)
(* found the buffer full and the receive that makes room.                  *)
(*                                                                         *)
(* Events are numbered in the order they are broadcast.                    *)
(***************************************************************************)
EXTENDS Naturals, Sequences

CONSTANTS Client,    \* the connections that may be open at the same time
          Capacity,  \* the size of a client's channel, 50 in the code
          LastEvent, \* bound: events broadcast in a behavior
          None       \* no client

ASSUME BroadcasterAssumption ==
    /\ Capacity \in Nat \ {0}
    /\ LastEvent \in Nat
    /\ None \notin Client

VARIABLES clients,  \* Broadcaster.clients
          sendChan, \* what a client's channel holds
          closed,   \* whether its channel is closed
          handler,  \* its ServeHTTP: "absent", "streaming", or "leaving" when
                    \* streamLoop has returned and unregister waits for the lock
          step,     \* where Broadcast stands: "idle", "visit", "full", "retry"
          event,    \* the event being broadcast, or the last one
          todo,     \* clients the range loop has not come to
          at        \* the client whose buffer was found full

(* Kept for the properties only.                                           *)
VARIABLES written,  \* the last event written to a client's connection
          joined    \* the last event broadcast before a client registered

broadcastVars == <<step, event, todo, at>>
clientVars == <<clients, closed, handler, joined>>
vars == <<clients, sendChan, closed, handler, step, event, todo, at, written, joined>>

Event == 1..LastEvent

TypeOK ==
    /\ clients \subseteq Client
    /\ sendChan \in [Client -> Seq(Event)]
    /\ \A c \in Client : Len(sendChan[c]) <= Capacity
    /\ closed \in [Client -> BOOLEAN]
    /\ handler \in [Client -> {"absent", "streaming", "leaving"}]
    /\ step \in {"idle", "visit", "full", "retry"}
    /\ event \in 0..LastEvent
    /\ todo \subseteq Client
    /\ at \in Client \cup {None}
    /\ written \in [Client -> 0..LastEvent]
    /\ joined \in [Client -> 0..LastEvent]

Init ==
    /\ clients = {}
    /\ sendChan = [c \in Client |-> <<>>]
    /\ closed = [c \in Client |-> FALSE]
    /\ handler = [c \in Client |-> "absent"]
    /\ step = "idle"
    /\ event = 0
    /\ todo = {}
    /\ at = None
    /\ written = [c \in Client |-> 0]
    /\ joined = [c \in Client |-> 0]
-----------------------------------------------------------------------------
(* Plausible mistakes in this code, each of which breaks a property below. *)
LockIgnored == TRUE
DropNewest ==
    /\ step = "full"
    /\ sendChan' = [sendChan EXCEPT ![at] =
                      IF @ = <<>> THEN @ ELSE SubSeq(@, 1, Len(@) - 1)]
    /\ step' = "retry"
    /\ UNCHANGED <<clientVars, event, todo, at, written>>
DropNothing ==
    /\ step = "full"
    /\ step' = "retry"
    /\ UNCHANGED <<clientVars, sendChan, event, todo, at, written>>
DropBlocking ==
    /\ step = "full"
    /\ sendChan[at] # <<>>
    /\ sendChan' = [sendChan EXCEPT ![at] = Tail(@)]
    /\ step' = "retry"
    /\ UNCHANGED <<clientVars, event, todo, at, written>>
-----------------------------------------------------------------------------
(* No reader holds the mutex.                                              *)
WriteLockFree == step = "idle"
HasRoom(c) == Len(sendChan[c]) < Capacity

(* ServeHTTP makes a fresh client and registers it.                        *)
Register(c) ==
    /\ handler[c] = "absent"
    /\ WriteLockFree
    /\ clients' = clients \cup {c}
    /\ sendChan' = [sendChan EXCEPT ![c] = <<>>]
    /\ closed' = [closed EXCEPT ![c] = FALSE]
    /\ handler' = [handler EXCEPT ![c] = "streaming"]
    /\ written' = [written EXCEPT ![c] = 0]
    /\ joined' = [joined EXCEPT ![c] = event]
    /\ UNCHANGED broadcastVars

(* streamLoop receives an event and writes it.                             *)
WriteEvent(c) ==
    /\ handler[c] = "streaming"
    /\ sendChan[c] # <<>>
    /\ written' = [written EXCEPT ![c] = Head(sendChan[c])]
    /\ sendChan' = [sendChan EXCEPT ![c] = Tail(@)]
    /\ UNCHANGED <<broadcastVars, clientVars>>

(* It receives one and the write fails: the loop returns.                  *)
WriteFails(c) ==
    /\ handler[c] = "streaming"
    /\ sendChan[c] # <<>>
    /\ sendChan' = [sendChan EXCEPT ![c] = Tail(@)]
    /\ handler' = [handler EXCEPT ![c] = "leaving"]
    /\ UNCHANGED <<broadcastVars, clients, closed, joined, written>>

(* The request's context is done, or a heartbeat cannot be written.        *)
Disconnect(c) ==
    /\ handler[c] = "streaming"
    /\ handler' = [handler EXCEPT ![c] = "leaving"]
    /\ UNCHANGED <<broadcastVars, clients, closed, joined, sendChan, written>>

(* The deferred unregister: delete and close under the write lock.         *)
Unregister(c) ==
    /\ handler[c] = "leaving"
    /\ WriteLockFree
    /\ clients' = clients \ {c}
    /\ closed' = [closed EXCEPT ![c] = TRUE]
    /\ handler' = [handler EXCEPT ![c] = "absent"]
    /\ UNCHANGED <<broadcastVars, sendChan, written, joined>>
-----------------------------------------------------------------------------
BeginBroadcast ==
    /\ step = "idle"
    /\ event < LastEvent
    /\ event' = event + 1
    /\ todo' = clients
    /\ step' = "visit"
    /\ UNCHANGED <<clientVars, sendChan, at, written>>

(* The range loop takes the clients in any order.                          *)
Send(c) ==
    /\ step = "visit"
    /\ c \in todo
    /\ HasRoom(c)
    /\ sendChan' = [sendChan EXCEPT ![c] = Append(@, event)]
    /\ todo' = todo \ {c}
    /\ UNCHANGED <<clientVars, step, event, at, written>>

FindFull(c) ==
    /\ step = "visit"
    /\ c \in todo
    /\ ~HasRoom(c)
    /\ at' = c
    /\ todo' = todo \ {c}
    /\ step' = "full"
    /\ UNCHANGED <<clientVars, sendChan, event, written>>

(* Drop the oldest event, unless the client has drained its buffer.        *)
DropOldest ==
    /\ step = "full"
    /\ sendChan' = [sendChan EXCEPT ![at] = IF @ = <<>> THEN @ ELSE Tail(@)]
    /\ step' = "retry"
    /\ UNCHANGED <<clientVars, event, todo, at, written>>

(* Send again, or give up on this client if there still is no room.        *)
Retry ==
    /\ step = "retry"
    /\ sendChan' = [sendChan EXCEPT ![at] = IF HasRoom(at) THEN Append(@, event) ELSE @]
    /\ step' = "visit"
    /\ at' = None
    /\ UNCHANGED <<clientVars, event, todo, written>>

EndBroadcast ==
    /\ step = "visit"
    /\ todo = {}
    /\ step' = "idle"
    /\ UNCHANGED <<clientVars, sendChan, event, todo, at, written>>

Broadcasting ==
    \/ \E c \in Client : Send(c) \/ FindFull(c)
    \/ DropOldest
    \/ Retry
    \/ EndBroadcast

Next ==
    \/ BeginBroadcast
    \/ Broadcasting
    \/ \E c \in Client : \/ Register(c)
                         \/ WriteEvent(c)
                         \/ WriteFails(c)
                         \/ Disconnect(c)
                         \/ Unregister(c)

Spec == Init /\ [][Next]_vars

(* The poller's goroutine runs on, and an unregister that waits gets the   *)
(* mutex: Lock keeps new readers out until it has had its turn.  Nothing   *)
(* is assumed of the clients, which may stall for ever.                    *)
Fairness ==
    /\ WF_vars(Broadcasting)
    /\ \A c \in Client : SF_vars(Unregister(c))

FairSpec == Spec /\ Fairness
-----------------------------------------------------------------------------
(* Broadcast never sends on a closed channel, which would panic the poller *)
(* and with it the process.                                                *)
NoSendOnClosed ==
    /\ step # "idle" => \A c \in todo : ~closed[c]
    /\ step \in {"full", "retry"} => ~closed[at]

(* What a client has not read yet are consecutive events, newer than all   *)
(* it was sent: events are lost only off the old end, never reordered.     *)
BacklogConsecutive ==
    \A c \in Client : \A i \in 1..Len(sendChan[c]) :
        /\ i < Len(sendChan[c]) => sendChan[c][i + 1] = sendChan[c][i] + 1
        /\ sendChan[c][i] > written[c]

(* However slow a client is, between broadcasts the latest event is in its *)
(* buffer or was written to it.                                            *)
LatestReachesEveryClient ==
    step = "idle" =>
        \A c \in clients : handler[c] = "streaming" /\ joined[c] < event =>
            \/ sendChan[c] = <<>> /\ written[c] = event
            \/ sendChan[c] # <<>> /\ sendChan[c][Len(sendChan[c])] = event

(* No client, stalled or gone, keeps Broadcast from returning.             *)
BroadcastReturns == step # "idle" ~> step = "idle"

=============================================================================
