------------------------- MODULE Broadcaster_proofs -------------------------
(***************************************************************************)
(* Proofs about the fan-out of events, for any clients, any capacity of    *)
(* their buffers and any number of events.                                 *)
(***************************************************************************)
EXTENDS Broadcaster, Integers, TLAPS

(* A run of consecutive numbers, said without a successor at a time, so    *)
(* that no induction is needed to compare its far ends.                    *)
Run(s) == \A i, j \in 1..Len(s) : s[i] - s[j] = i - j

(* The client the range loop has yet to hand the event to.                 *)
Behind(c) == step # "idle" /\ (c \in todo \/ (step \in {"full", "retry"} /\ c = at))

(* The event that c's backlog should end with.                             *)
Newest(c) == IF Behind(c) THEN event - 1 ELSE event

(* Who is registered cannot change under a broadcast.                      *)
RegisteredInv ==
    /\ step # "idle" => todo \subseteq clients /\ event > 0
    /\ step \in {"full", "retry"} => at \in clients \ todo
    /\ step = "retry" => HasRoom(at)
    /\ \A c \in clients : ~closed[c]
    /\ \A c \in Client : handler[c] # "absent" <=> c \in clients

(* What is buffered for c is a run that c has not seen yet.                *)
BufferInv(c) ==
    /\ Run(sendChan[c])
    /\ \A i \in 1..Len(sendChan[c]) : sendChan[c][i] > written[c]

(* It ends with the newest event, and if there is nothing buffered, the    *)
(* newest event was written; unless room was just made for it.             *)
NewestInv(c) ==
    /\ sendChan[c] # <<>> => sendChan[c][Len(sendChan[c])] = Newest(c)
    /\ written[c] <= Newest(c)
    /\ /\ sendChan[c] = <<>>
       /\ handler[c] = "streaming" /\ joined[c] < Newest(c)
       /\ ~(step = "retry" /\ c = at)
       => written[c] = Newest(c)

BroadcasterInv ==
    /\ TypeOK
    /\ RegisteredInv
    /\ \A c \in Client : BufferInv(c)
    /\ \A c \in clients : NewestInv(c)
-----------------------------------------------------------------------------
(* Receiving leaves a run that ends as before and is newer than what was   *)
(* received.                                                               *)
LEMMA TailOfRun ==
  ASSUME NEW T \in SUBSET Int, NEW s \in Seq(T), Run(s), s # <<>>
  PROVE  /\ Tail(s) \in Seq(T) /\ Len(Tail(s)) = Len(s) - 1
         /\ Run(Tail(s))
         /\ \A i \in 1..Len(Tail(s)) : Tail(s)[i] = s[i + 1] /\ Tail(s)[i] > Head(s)
         /\ Tail(s) # <<>> => Tail(s)[Len(Tail(s))] = s[Len(s)]
         /\ Tail(s) = <<>> => Head(s) = s[Len(s)]
         /\ Head(s) \in T /\ Head(s) <= s[Len(s)]
<1>1. Len(s) \in Nat /\ Len(s) > 0 /\ Head(s) = s[1]
  OBVIOUS
<1>2. Tail(s) \in Seq(T) /\ Len(Tail(s)) = Len(s) - 1
  BY <1>1
<1>3. \A i \in 1..Len(Tail(s)) : i + 1 \in 1..Len(s) /\ Tail(s)[i] = s[i + 1]
  BY <1>1, <1>2
<1>4. \A i \in 1..Len(s) : s[i] \in Int
  <2>1. \A i \in 1..Len(s) : s[i] \in T
    OBVIOUS
  <2> QED BY <2>1
<1>5. \A i \in 1..Len(Tail(s)) : Tail(s)[i] > Head(s)
  BY <1>1, <1>3, <1>4 DEF Run
<1>6. Run(Tail(s))
  BY <1>3, <1>4 DEF Run
<1>7. Tail(s) # <<>> => Tail(s)[Len(Tail(s))] = s[Len(s)]
  BY <1>1, <1>2, <1>3
<1>8. Tail(s) = <<>> => Head(s) = s[Len(s)]
  <2>1. Len(<<>>) = 0
    OBVIOUS
  <2>2. Tail(s) = <<>> => Len(Tail(s)) = 0
    BY <2>1, Zenon
  <2> QED BY <1>1, <1>2, <2>2
<1>9. Head(s) \in T /\ Head(s) <= s[Len(s)]
  <2>1. 1 \in 1..Len(s) /\ Len(s) \in 1..Len(s) /\ s[1] \in T
    BY <1>1
  <2>2. s[Len(s)] - s[1] = Len(s) - 1
    BY <2>1 DEF Run
  <2> QED BY <1>1, <1>4, <2>1, <2>2
<1> QED BY <1>2, <1>3, <1>5, <1>6, <1>7, <1>8, <1>9

(* Sending the event after the last one keeps a run.                       *)
LEMMA AppendToRun ==
  ASSUME NEW T \in SUBSET Int, NEW s \in Seq(T), NEW e \in T,
         Run(s), s # <<>> => s[Len(s)] = e - 1
  PROVE  /\ Append(s, e) \in Seq(T) /\ Append(s, e) # <<>>
         /\ Len(Append(s, e)) = Len(s) + 1
         /\ \A i \in 1..Len(s) : Append(s, e)[i] = s[i]
         /\ Append(s, e)[Len(Append(s, e))] = e
         /\ Run(Append(s, e))
<1> DEFINE a == Append(s, e)
<1>1. a \in Seq(T) /\ Len(a) = Len(s) + 1 /\ a[Len(a)] = e /\ a # <<>>
  <2>1. a \in Seq(T) /\ Len(a) = Len(s) + 1 /\ Len(s) \in Nat
    OBVIOUS
  <2>2. a[Len(s) + 1] = e
    OBVIOUS
  <2>3. Len(<<>>) = 0
    OBVIOUS
  <2> HIDE DEF a
  <2> QED BY <2>1, <2>2, <2>3
<1>2. \A i \in 1..Len(s) : a[i] = s[i] /\ s[i] \in Int
  <2>1. \A i \in 1..Len(s) : a[i] = s[i] /\ s[i] \in T
    OBVIOUS
  <2> HIDE DEF a
  <2> QED BY <2>1
<1>3. \A i \in 1..Len(s) : s[i] = e - 1 - (Len(s) - i)
  <2> TAKE i \in 1..Len(s)
  <2>1. Len(s) \in Nat /\ Len(s) \in 1..Len(s) /\ s # <<>>
    OBVIOUS
  <2>2. s[Len(s)] - s[i] = Len(s) - i
    BY <2>1 DEF Run
  <2> QED BY <1>2, <2>1, <2>2
<1>4. \A i \in 1..Len(a) : a[i] = e - (Len(a) - i)
  <2> TAKE i \in 1..Len(a)
  <2>1. CASE i = Len(a)
    BY <1>1, <2>1
  <2>2. CASE i # Len(a)
    <3>1. i \in 1..Len(s) /\ Len(s) \in Nat
      BY <1>1, <2>2
    <3> QED BY <1>1, <1>2, <1>3, <3>1
  <2> QED BY <2>1, <2>2
<1>5. Run(a)
  <2> HIDE DEF a
  <2> QED BY <1>1, <1>4 DEF Run
<1> QED BY <1>1, <1>2, <1>5
-----------------------------------------------------------------------------
LEMMA EventsAreNumbers ==
  /\ Event \in SUBSET Int /\ LastEvent \in Nat
  /\ Capacity \in Nat \ {0} /\ None \notin Client
BY BroadcasterAssumption DEF Event

LEMMA InitInv == Init => BroadcasterInv
<1> SUFFICES ASSUME Init PROVE BroadcasterInv
  OBVIOUS
<1> USE EventsAreNumbers DEF Init
<1>1. Len(<<>>) = 0 /\ <<>> \in Seq(Event)
  OBVIOUS
<1>2. TypeOK
  <2>1. sendChan \in [Client -> Seq(Event)] /\ \A c \in Client : Len(sendChan[c]) = 0
    BY <1>1
  <2> QED BY <2>1 DEF TypeOK
<1>3. RegisteredInv
  BY DEF RegisteredInv
<1>4. \A c \in Client : BufferInv(c)
  <2> TAKE c \in Client
  <2>1. sendChan[c] = <<>>
    OBVIOUS
  <2>2. 1..Len(sendChan[c]) = {}
    BY <1>1, <2>1
  <2> QED BY <2>2 DEF BufferInv, Run
<1> QED BY <1>2, <1>3, <1>4 DEF BroadcasterInv

(* The range loop hands the event to a client with room.                   *)
LEMMA SendInv ==
  ASSUME BroadcasterInv, NEW c \in Client, Send(c)
  PROVE  BroadcasterInv'
<1> DEFINE s == sendChan[c]
<1> USE EventsAreNumbers DEF BroadcasterInv
<1>1. /\ step = "visit" /\ c \in todo /\ c \in clients /\ Len(s) < Capacity
      /\ sendChan' = [sendChan EXCEPT ![c] = Append(s, event)]
      /\ todo' = todo \ {c}
      /\ UNCHANGED <<clients, closed, handler, joined, step, event, at, written>>
  BY DEF Send, HasRoom, clientVars, RegisteredInv
<1>2. s \in Seq(Event) /\ event \in Event /\ sendChan \in [Client -> Seq(Event)]
  BY <1>1 DEF TypeOK, RegisteredInv, Event
<1>3. Run(s) /\ (s # <<>> => s[Len(s)] = event - 1) /\ written[c] <= event - 1
  BY <1>1 DEF BufferInv, NewestInv, Newest, Behind
<1>4. /\ Append(s, event) \in Seq(Event) /\ Append(s, event) # <<>>
      /\ Len(Append(s, event)) = Len(s) + 1
      /\ \A i \in 1..Len(s) : Append(s, event)[i] = s[i]
      /\ Append(s, event)[Len(Append(s, event))] = event
      /\ Run(Append(s, event))
  BY <1>2, <1>3, AppendToRun
<1>5. \A d \in Client : sendChan'[d] = IF d = c THEN Append(s, event) ELSE sendChan[d]
  BY <1>1, <1>2
<1> HIDE DEF s
<1>6. TypeOK'
  BY <1>1, <1>2, <1>4, <1>5 DEF TypeOK, s
<1>7. RegisteredInv'
  BY <1>1 DEF RegisteredInv
<1>8. \A d \in Client : BufferInv(d)'
  <2>1. BufferInv(c)'
    <3>1. written[c] \in Int /\ Len(s) \in Nat
      BY <1>2 DEF TypeOK
    <3>2. \A i \in 1..Len(sendChan'[c]) : sendChan'[c][i] > written'[c]
      BY <1>1, <1>2, <1>3, <1>4, <1>5, <3>1 DEF BufferInv, s
    <3> QED BY <1>4, <1>5, <3>2 DEF BufferInv
  <2>2. ASSUME NEW d \in Client, d # c PROVE BufferInv(d)'
    BY <1>1, <1>5, <2>2 DEF BufferInv
  <2> QED BY <2>1, <2>2
<1>9. \A d \in clients' : NewestInv(d)'
  <2>1. Newest(c)' = event /\ written[c] \in Int
    BY <1>1 DEF Newest, Behind, TypeOK
  <2>2. NewestInv(c)'
    BY <1>1, <1>2, <1>3, <1>4, <1>5, <2>1 DEF NewestInv
  <2>3. ASSUME NEW d \in clients, d # c PROVE NewestInv(d)'
    <3>1. Newest(d)' = Newest(d) /\ d \in Client
      BY <1>1, <2>3 DEF Newest, Behind, TypeOK
    <3> QED BY <1>1, <1>5, <2>3, <3>1 DEF NewestInv
  <2> QED BY <1>1, <2>2, <2>3
<1> QED BY <1>6, <1>7, <1>8, <1>9

(* A client receives an event and writes it.                               *)
LEMMA WriteEventInv ==
  ASSUME BroadcasterInv, NEW c \in Client, WriteEvent(c)
  PROVE  BroadcasterInv'
<1> DEFINE s == sendChan[c]
           h == Head(s)
           t == Tail(s)
<1> USE EventsAreNumbers DEF BroadcasterInv
<1>1. /\ handler[c] = "streaming" /\ c \in clients /\ s # <<>>
      /\ sendChan' = [sendChan EXCEPT ![c] = t]
      /\ written' = [written EXCEPT ![c] = h]
      /\ UNCHANGED <<clients, closed, handler, joined, step, event, todo, at>>
  BY DEF WriteEvent, broadcastVars, clientVars, RegisteredInv
<1>2. s \in Seq(Event) /\ Run(s) /\ Len(s) \in Nat /\ Len(s) <= Capacity
  BY <1>1 DEF TypeOK, BufferInv
<1>3. /\ t \in Seq(Event) /\ Len(t) = Len(s) - 1 /\ Run(t)
      /\ \A i \in 1..Len(t) : t[i] > h
      /\ t # <<>> => t[Len(t)] = s[Len(s)]
      /\ t = <<>> => h = s[Len(s)]
      /\ h \in Event /\ h <= s[Len(s)]
  BY <1>1, <1>2, TailOfRun
<1>4. \A d \in Client : /\ sendChan'[d] = IF d = c THEN t ELSE sendChan[d]
                        /\ written'[d] = IF d = c THEN h ELSE written[d]
  <2>1. DOMAIN sendChan = Client /\ DOMAIN written = Client
    BY DEF TypeOK
  <2> HIDE DEF s, h, t
  <2> QED BY <1>1, <2>1, Zenon
<1>5. s[Len(s)] = Newest(c)
  BY <1>1 DEF NewestInv
<1>6. HasRoom(at) => HasRoom(at)'
  <2>1. CASE at = c
    BY <1>1, <1>2, <1>3, <1>4, <2>1 DEF HasRoom
  <2>2. CASE at # c
    BY <1>1, <2>2 DEF HasRoom, TypeOK
  <2> QED BY <2>1, <2>2
<1>7. \A d \in clients : d \in Client /\ Newest(d)' = Newest(d) /\ Newest(d) \in Int
  BY <1>1 DEF Newest, Behind, TypeOK
<1> HIDE DEF s, h, t
<1>8. TypeOK'
  <2>1. sendChan' \in [Client -> Seq(Event)]
    BY <1>1, <1>3 DEF TypeOK
  <2>2. \A d \in Client : Len(sendChan'[d]) <= Capacity
    <3>1. Len(t) <= Capacity
      BY <1>2, <1>3
    <3>2. \A d \in Client : Len(sendChan[d]) <= Capacity
      BY DEF TypeOK
    <3> QED BY <1>4, <3>1, <3>2, Zenon
  <2>3. written' \in [Client -> 0..LastEvent]
    BY <1>1, <1>3 DEF TypeOK, Event
  <2> QED BY <1>1, <2>1, <2>2, <2>3 DEF TypeOK
<1>9. RegisteredInv'
  BY <1>1, <1>6 DEF RegisteredInv
<1>10. \A d \in Client : BufferInv(d)'
  BY <1>3, <1>4 DEF BufferInv
<1>11. \A d \in clients' : NewestInv(d)'
  <2>1. NewestInv(c)'
    BY <1>1, <1>3, <1>4, <1>5, <1>7 DEF NewestInv
  <2>2. ASSUME NEW d \in clients, d # c PROVE NewestInv(d)'
    BY <1>1, <1>4, <1>7, <2>2 DEF NewestInv
  <2> QED BY <1>1, <2>1, <2>2
<1> QED BY <1>8, <1>9, <1>10, <1>11

(* A client receives an event it cannot write.                             *)
LEMMA WriteFailsInv ==
  ASSUME BroadcasterInv, NEW c \in Client, WriteFails(c)
  PROVE  BroadcasterInv'
<1> DEFINE s == sendChan[c]
<1> USE EventsAreNumbers DEF BroadcasterInv
<1>1. /\ handler[c] = "streaming" /\ c \in clients /\ s # <<>>
      /\ sendChan' = [sendChan EXCEPT ![c] = Tail(s)]
      /\ handler' = [handler EXCEPT ![c] = "leaving"]
      /\ UNCHANGED <<clients, closed, joined, step, event, todo, at, written>>
  BY DEF WriteFails, broadcastVars, RegisteredInv
<1>2. s \in Seq(Event) /\ Run(s) /\ Len(s) \in Nat
  BY <1>1 DEF TypeOK, BufferInv
<1>3. /\ Tail(s) \in Seq(Event) /\ Len(Tail(s)) = Len(s) - 1
      /\ Run(Tail(s))
      /\ \A i \in 1..Len(Tail(s)) : Tail(s)[i] = s[i + 1]
      /\ Tail(s) # <<>> => Tail(s)[Len(Tail(s))] = s[Len(s)]
  BY <1>1, <1>2, TailOfRun
<1>4. \A d \in Client : /\ sendChan'[d] = IF d = c THEN Tail(s) ELSE sendChan[d]
                        /\ handler'[d] = IF d = c THEN "leaving" ELSE handler[d]
  <2>1. DOMAIN sendChan = Client /\ DOMAIN handler = Client
    BY DEF TypeOK
  <2> HIDE DEF s
  <2> QED BY <1>1, <2>1, Zenon
<1>5. \A i \in 1..Len(s) : s[i] > written[c]
  BY <1>1 DEF BufferInv
<1>6. \A d \in clients : d \in Client /\ Newest(d)' = Newest(d)
  BY <1>1 DEF Newest, Behind, TypeOK
<1> HIDE DEF s
<1>7. TypeOK'
  BY <1>1, <1>2, <1>3, <1>4 DEF TypeOK, s
<1>8. RegisteredInv'
  BY <1>1, <1>2, <1>3, <1>4 DEF RegisteredInv, HasRoom, TypeOK, s
<1>9. \A d \in Client : BufferInv(d)'
  BY <1>1, <1>2, <1>3, <1>4, <1>5 DEF BufferInv
<1>10. \A d \in clients' : NewestInv(d)'
  <2>1. NewestInv(c)'
    BY <1>1, <1>3, <1>4, <1>6 DEF NewestInv, s
  <2>2. ASSUME NEW d \in clients, d # c PROVE NewestInv(d)'
    BY <1>1, <1>4, <1>6, <2>2 DEF NewestInv
  <2> QED BY <1>1, <2>1, <2>2
<1> QED BY <1>7, <1>8, <1>9, <1>10

(* Room is made at the old end, unless the client has drained its buffer.  *)
LEMMA DropOldestInv ==
  ASSUME BroadcasterInv, DropOldest
  PROVE  BroadcasterInv'
<1> DEFINE s == sendChan[at]
           kept == IF s = <<>> THEN s ELSE Tail(s)
<1> USE EventsAreNumbers DEF BroadcasterInv
<1>1. /\ step = "full" /\ step' = "retry" /\ at \in clients \ todo /\ at \in Client
      /\ sendChan' = [sendChan EXCEPT ![at] = kept]
      /\ UNCHANGED <<clients, closed, handler, joined, event, todo, at, written>>
  BY DEF DropOldest, clientVars, RegisteredInv, TypeOK
<1>2. s \in Seq(Event) /\ Run(s) /\ Len(s) \in Nat /\ Len(s) <= Capacity
  BY <1>1 DEF TypeOK, BufferInv
<1>3. \A i \in 1..Len(s) : s[i] > written[at]
  BY <1>1 DEF BufferInv
<1>4. /\ kept \in Seq(Event) /\ Run(kept) /\ Len(kept) < Capacity
      /\ \A i \in 1..Len(kept) : kept[i] > written[at]
      /\ kept # <<>> => s # <<>> /\ kept[Len(kept)] = s[Len(s)]
  <2>1. CASE s = <<>>
    <3>1. Len(<<>>) = 0
      OBVIOUS
    <3> QED BY <1>2, <1>3, <2>1, <3>1
  <2>2. CASE s # <<>>
    <3>1. /\ Tail(s) \in Seq(Event) /\ Len(Tail(s)) = Len(s) - 1
          /\ Run(Tail(s))
          /\ \A i \in 1..Len(Tail(s)) : Tail(s)[i] = s[i + 1]
          /\ Tail(s) # <<>> => Tail(s)[Len(Tail(s))] = s[Len(s)]
      BY <1>2, <2>2, TailOfRun
    <3>2. \A i \in 1..Len(Tail(s)) : i + 1 \in 1..Len(s)
      BY <1>2, <3>1
    <3> QED BY <1>2, <1>3, <2>2, <3>1, <3>2
  <2> QED BY <2>1, <2>2
<1>5. \A d \in Client : sendChan'[d] = IF d = at THEN kept ELSE sendChan[d]
  BY <1>1 DEF TypeOK
<1>6. \A d \in clients : d \in Client /\ Newest(d)' = Newest(d)
  BY <1>1 DEF Newest, Behind, TypeOK
<1> HIDE DEF s, kept
<1>7. TypeOK'
  BY <1>1, <1>4, <1>5 DEF TypeOK
<1>8. RegisteredInv'
  BY <1>1, <1>4, <1>5 DEF RegisteredInv, HasRoom
<1>9. \A d \in Client : BufferInv(d)'
  BY <1>1, <1>4, <1>5 DEF BufferInv
<1>10. \A d \in clients' : NewestInv(d)'
  <2>1. NewestInv(at)'
    BY <1>1, <1>4, <1>5, <1>6 DEF NewestInv, s
  <2>2. ASSUME NEW d \in clients, d # at PROVE NewestInv(d)'
    BY <1>1, <1>5, <1>6, <2>2 DEF NewestInv
  <2> QED BY <1>1, <2>1, <2>2
<1> QED BY <1>7, <1>8, <1>9, <1>10

(* The event is sent to a client room was made for.                        *)
LEMMA RetryInv ==
  ASSUME BroadcasterInv, Retry
  PROVE  BroadcasterInv'
<1> DEFINE s == sendChan[at]
           a == Append(s, event)
<1> USE EventsAreNumbers DEF BroadcasterInv
<1>1. /\ step = "retry" /\ step' = "visit" /\ at \in clients \ todo /\ at \in Client
      /\ at' = None /\ event > 0 /\ Len(s) < Capacity
      /\ sendChan' = [sendChan EXCEPT ![at] = a]
      /\ UNCHANGED <<clients, closed, handler, joined, event, todo, written>>
  BY DEF Retry, clientVars, RegisteredInv, TypeOK, HasRoom
<1>2. s \in Seq(Event) /\ event \in Event /\ Run(s) /\ Len(s) \in Nat
  BY <1>1 DEF TypeOK, Event, BufferInv
<1>3. (s # <<>> => s[Len(s)] = event - 1) /\ written[at] <= event - 1 /\ written[at] \in Int
  BY <1>1 DEF NewestInv, Newest, Behind, TypeOK
<1>4. \A i \in 1..Len(s) : s[i] > written[at]
  BY <1>1 DEF BufferInv
<1>5. /\ a \in Seq(Event) /\ a # <<>> /\ Len(a) = Len(s) + 1
      /\ \A i \in 1..Len(s) : a[i] = s[i]
      /\ a[Len(a)] = event
      /\ Run(a)
  BY <1>2, <1>3, AppendToRun
<1>6. \A d \in Client : sendChan'[d] = IF d = at THEN a ELSE sendChan[d]
  BY <1>1 DEF TypeOK
<1>7. \A d \in clients : Newest(d)' = IF d = at THEN event ELSE Newest(d)
  BY <1>1 DEF Newest, Behind
<1> HIDE DEF s, a
<1>8. TypeOK'
  <2>1. sendChan' \in [Client -> Seq(Event)]
    BY <1>1, <1>5 DEF TypeOK
  <2>2. \A d \in Client : Len(sendChan'[d]) <= Capacity
    <3>1. Len(a) <= Capacity
      BY <1>1, <1>2, <1>5
    <3>2. \A d \in Client : Len(sendChan[d]) <= Capacity
      BY DEF TypeOK
    <3> QED BY <1>6, <3>1, <3>2, Zenon
  <2> QED BY <1>1, <2>1, <2>2 DEF TypeOK
<1>9. RegisteredInv'
  BY <1>1 DEF RegisteredInv
<1>10. \A d \in Client : BufferInv(d)'
  <2>1. \A i \in 1..Len(a) : a[i] > written[at]
    <3> TAKE i \in 1..Len(a)
    <3>1. CASE i = Len(a)
      BY <1>2, <1>3, <1>5, <3>1 DEF Event
    <3>2. CASE i # Len(a)
      BY <1>2, <1>4, <1>5, <3>2
    <3> QED BY <3>1, <3>2
  <2> QED BY <1>1, <1>5, <1>6, <2>1 DEF BufferInv
<1>11. \A d \in clients' : NewestInv(d)'
  <2>1. ASSUME NEW d \in clients, d = at PROVE NewestInv(d)'
    <3>1. sendChan'[d] = a /\ Newest(d)' = event /\ written'[d] = written[at]
      BY <1>1, <1>6, <1>7, <2>1
    <3>2. written[at] <= event
      BY <1>2, <1>3 DEF Event
    <3> QED BY <1>5, <3>1, <3>2 DEF NewestInv
  <2>2. ASSUME NEW d \in clients, d # at PROVE NewestInv(d)'
    <3>1. d \in Client
      BY DEF TypeOK
    <3> QED BY <1>1, <1>6, <1>7, <2>2, <3>1 DEF NewestInv
  <2> QED BY <1>1, <2>1, <2>2
<1> QED BY <1>8, <1>9, <1>10, <1>11

(* A broadcast begins: everyone registered is one event behind.            *)
LEMMA BeginBroadcastInv ==
  ASSUME BroadcasterInv, BeginBroadcast
  PROVE  BroadcasterInv'
<1> USE EventsAreNumbers DEF BroadcasterInv
<1>1. /\ step = "idle" /\ step' = "visit" /\ event' = event + 1 /\ event' <= LastEvent
      /\ todo' = clients /\ event \in Nat
      /\ UNCHANGED <<clients, closed, handler, joined, sendChan, at, written>>
  BY DEF BeginBroadcast, clientVars, TypeOK
<1>2. TypeOK'
  BY <1>1 DEF TypeOK
<1>3. RegisteredInv'
  BY <1>1 DEF RegisteredInv
<1>4. \A d \in Client : BufferInv(d)'
  BY <1>1 DEF BufferInv
<1>5. \A d \in clients' : NewestInv(d)'
  <2>1. \A d \in clients : Newest(d)' = Newest(d)
    BY <1>1 DEF Newest, Behind
  <2> QED BY <1>1, <2>1 DEF NewestInv
<1> QED BY <1>2, <1>3, <1>4, <1>5

(* It ends: nobody is behind any more.                                     *)
LEMMA EndBroadcastInv ==
  ASSUME BroadcasterInv, EndBroadcast
  PROVE  BroadcasterInv'
<1> USE DEF BroadcasterInv
<1>1. /\ step = "visit" /\ todo = {} /\ step' = "idle"
      /\ UNCHANGED <<clients, closed, handler, joined, sendChan, event, todo, at, written>>
  BY DEF EndBroadcast, clientVars
<1>2. TypeOK' /\ RegisteredInv'
  BY <1>1 DEF TypeOK, RegisteredInv
<1>3. \A d \in Client : BufferInv(d)'
  BY <1>1 DEF BufferInv
<1>4. \A d \in clients' : NewestInv(d)'
  <2>1. \A d \in clients : Newest(d)' = Newest(d)
    BY <1>1 DEF Newest, Behind
  <2> QED BY <1>1, <2>1 DEF NewestInv
<1> QED BY <1>2, <1>3, <1>4

(* The range loop meets a full buffer.                                     *)
LEMMA FindFullInv ==
  ASSUME BroadcasterInv, NEW c \in Client, FindFull(c)
  PROVE  BroadcasterInv'
<1> USE DEF BroadcasterInv
<1>1. /\ step = "visit" /\ c \in todo /\ at' = c /\ todo' = todo \ {c} /\ step' = "full"
      /\ UNCHANGED <<clients, closed, handler, joined, sendChan, event, written>>
  BY DEF FindFull, clientVars
<1>2. TypeOK' /\ RegisteredInv'
  BY <1>1 DEF TypeOK, RegisteredInv
<1>3. \A d \in Client : BufferInv(d)'
  BY <1>1 DEF BufferInv
<1>4. \A d \in clients' : NewestInv(d)'
  <2>1. \A d \in clients : Newest(d)' = Newest(d)
    BY <1>1 DEF Newest, Behind
  <2> QED BY <1>1, <2>1 DEF NewestInv
<1> QED BY <1>2, <1>3, <1>4

(* A client comes, stops streaming, or is forgotten.                       *)
LEMMA RegisterInv ==
  ASSUME BroadcasterInv, NEW c \in Client, Register(c)
  PROVE  BroadcasterInv'
<1> USE EventsAreNumbers DEF BroadcasterInv
<1>1. /\ handler[c] = "absent" /\ step = "idle" /\ c \notin clients
      /\ clients' = clients \cup {c}
      /\ sendChan' = [sendChan EXCEPT ![c] = <<>>]
      /\ closed' = [closed EXCEPT ![c] = FALSE]
      /\ handler' = [handler EXCEPT ![c] = "streaming"]
      /\ written' = [written EXCEPT ![c] = 0]
      /\ joined' = [joined EXCEPT ![c] = event]
      /\ UNCHANGED <<step, event, todo, at>>
  BY DEF Register, WriteLockFree, broadcastVars, RegisteredInv
<1>2. Len(<<>>) = 0 /\ <<>> \in Seq(Event)
  OBVIOUS
<1>3. \A d \in Client : /\ sendChan'[d] = IF d = c THEN <<>> ELSE sendChan[d]
                        /\ closed'[d] = IF d = c THEN FALSE ELSE closed[d]
                        /\ handler'[d] = IF d = c THEN "streaming" ELSE handler[d]
                        /\ written'[d] = IF d = c THEN 0 ELSE written[d]
                        /\ joined'[d] = IF d = c THEN event ELSE joined[d]
  <2>1. /\ DOMAIN sendChan = Client /\ DOMAIN closed = Client /\ DOMAIN handler = Client
        /\ DOMAIN written = Client /\ DOMAIN joined = Client
    BY DEF TypeOK
  <2> QED BY <1>1, <2>1, Zenon
<1>4. TypeOK'
  <2>1. sendChan' \in [Client -> Seq(Event)] /\ \A d \in Client : Len(sendChan'[d]) <= Capacity
    BY <1>1, <1>2, <1>3 DEF TypeOK
  <2> QED BY <1>1, <2>1 DEF TypeOK
<1>5. RegisteredInv'
  BY <1>1, <1>3 DEF RegisteredInv, TypeOK
<1>6. \A d \in Client : BufferInv(d)'
  <2>1. 1..Len(<<>>) = {}
    BY <1>2
  <2>2. BufferInv(c)'
    BY <1>3, <2>1, Zenon DEF BufferInv, Run
  <2>3. ASSUME NEW d \in Client, d # c PROVE BufferInv(d)'
    BY <1>3, <2>3 DEF BufferInv
  <2> QED BY <2>2, <2>3
<1>7. \A d \in clients' : NewestInv(d)'
  <2>1. \A d \in clients' : Newest(d)' = event
    BY <1>1 DEF Newest, Behind
  <2>2. \A d \in clients : Newest(d) = event /\ d \in Client
    BY <1>1 DEF Newest, Behind, TypeOK
  <2>3. NewestInv(c)'
    BY <1>1, <1>3, <2>1 DEF NewestInv, TypeOK
  <2>4. ASSUME NEW d \in clients, d # c PROVE NewestInv(d)'
    BY <1>1, <1>3, <2>1, <2>2, <2>4 DEF NewestInv
  <2> QED BY <1>1, <2>3, <2>4
<1> QED BY <1>4, <1>5, <1>6, <1>7

LEMMA DisconnectInv ==
  ASSUME BroadcasterInv, NEW c \in Client, Disconnect(c)
  PROVE  BroadcasterInv'
<1> USE DEF BroadcasterInv
<1>1. /\ handler[c] = "streaming" /\ handler' = [handler EXCEPT ![c] = "leaving"]
      /\ UNCHANGED <<clients, closed, joined, sendChan, step, event, todo, at, written>>
  BY DEF Disconnect, broadcastVars
<1>2. TypeOK' /\ RegisteredInv'
  BY <1>1 DEF TypeOK, RegisteredInv, HasRoom
<1>3. \A d \in Client : BufferInv(d)'
  BY <1>1 DEF BufferInv
<1>4. \A d \in clients' : NewestInv(d)'
  <2>1. \A d \in clients : Newest(d)' = Newest(d) /\ d \in Client
    BY <1>1 DEF Newest, Behind, TypeOK
  <2>2. \A d \in clients : handler'[d] = "streaming" => handler[d] = "streaming"
    BY <1>1, <2>1 DEF TypeOK
  <2> QED BY <1>1, <2>1, <2>2 DEF NewestInv
<1> QED BY <1>2, <1>3, <1>4

LEMMA UnregisterInv ==
  ASSUME BroadcasterInv, NEW c \in Client, Unregister(c)
  PROVE  BroadcasterInv'
<1> USE DEF BroadcasterInv
<1>1. /\ step = "idle" /\ clients' = clients \ {c}
      /\ closed' = [closed EXCEPT ![c] = TRUE]
      /\ handler' = [handler EXCEPT ![c] = "absent"]
      /\ UNCHANGED <<step, event, todo, at, sendChan, written, joined>>
  BY DEF Unregister, WriteLockFree, broadcastVars
<1>2. TypeOK' /\ RegisteredInv'
  BY <1>1 DEF TypeOK, RegisteredInv
<1>3. \A d \in Client : BufferInv(d)'
  BY <1>1 DEF BufferInv
<1>4. \A d \in clients' : NewestInv(d)'
  <2>1. \A d \in clients : Newest(d)' = Newest(d) /\ d \in Client
    BY <1>1 DEF Newest, Behind, TypeOK
  <2>2. \A d \in clients' : handler'[d] = handler[d] /\ d \in clients
    BY <1>1, <2>1 DEF TypeOK
  <2> QED BY <1>1, <2>1, <2>2 DEF NewestInv
<1> QED BY <1>2, <1>3, <1>4
-----------------------------------------------------------------------------
LEMMA StepInv ==
  ASSUME BroadcasterInv, [Next]_vars
  PROVE  BroadcasterInv'
<1>1. CASE BeginBroadcast
  BY <1>1, BeginBroadcastInv
<1>2. CASE Broadcasting
  BY <1>2, SendInv, FindFullInv, DropOldestInv, RetryInv, EndBroadcastInv DEF Broadcasting
<1>3. ASSUME NEW c \in Client,
             \/ Register(c) \/ WriteEvent(c) \/ WriteFails(c)
             \/ Disconnect(c) \/ Unregister(c)
      PROVE  BroadcasterInv'
  BY <1>3, RegisterInv, WriteEventInv, WriteFailsInv, DisconnectInv, UnregisterInv
<1>4. CASE UNCHANGED vars
  BY <1>4 DEF vars, BroadcasterInv, TypeOK, RegisteredInv, HasRoom, BufferInv, NewestInv,
              Newest, Behind
<1> QED BY <1>1, <1>2, <1>3, <1>4 DEF Next

LEMMA SpecInv == Spec => []BroadcasterInv
<1>1. BroadcasterInv /\ [Next]_vars => BroadcasterInv'
  BY StepInv
<1> QED BY <1>1, InitInv, PTL DEF Spec

(* Buffers stay within their capacity, and everything has its type.        *)
THEOREM BroadcasterTypeOK == Spec => []TypeOK
<1>1. BroadcasterInv => TypeOK
  BY DEF BroadcasterInv
<1> QED BY <1>1, SpecInv, PTL

(* However many clients come and go during however many broadcasts, none   *)
(* is sent to after its channel was closed.                                *)
THEOREM BroadcasterNeverPanics == Spec => []NoSendOnClosed
<1>1. BroadcasterInv => NoSendOnClosed
  BY DEF BroadcasterInv, RegisteredInv, NoSendOnClosed
<1> QED BY <1>1, SpecInv, PTL

(* What a client has yet to read is always a run of consecutive events,    *)
(* all of them later than what it has read, whoever takes events out of    *)
(* its buffer meanwhile.                                                   *)
THEOREM BroadcasterBacklog == Spec => []BacklogConsecutive
<1>1. BroadcasterInv => BacklogConsecutive
  <2> SUFFICES ASSUME BroadcasterInv, NEW c \in Client, NEW i \in 1..Len(sendChan[c])
               PROVE  /\ i < Len(sendChan[c]) => sendChan[c][i + 1] = sendChan[c][i] + 1
                      /\ sendChan[c][i] > written[c]
    BY DEF BacklogConsecutive
  <2>1. sendChan[c] \in Seq(Event) /\ Event \in SUBSET Int
    BY EventsAreNumbers DEF BroadcasterInv, TypeOK
  <2>2. Len(sendChan[c]) \in Nat /\ \A j \in 1..Len(sendChan[c]) : sendChan[c][j] \in Event
    BY <2>1
  <2>3. BufferInv(c)
    BY DEF BroadcasterInv
  <2>4. ASSUME i < Len(sendChan[c]) PROVE sendChan[c][i + 1] = sendChan[c][i] + 1
    <3>1. i + 1 \in 1..Len(sendChan[c])
      BY <2>2, <2>4
    <3> DEFINE x == sendChan[c][i + 1]
               y == sendChan[c][i]
    <3>2. x - y = (i + 1) - i /\ i \in Int
      BY <2>3, <3>1 DEF BufferInv, Run
    <3>3. x \in Int /\ y \in Int
      BY <2>1, <2>2, <3>1
    <3> HIDE DEF x, y
    <3>4. x = y + 1
      BY <3>2, <3>3
    <3> QED BY <3>4 DEF x, y
  <2> QED BY <2>3, <2>4 DEF BufferInv
<1> QED BY <1>1, SpecInv, PTL

(* Between broadcasts the latest event is in every client's backlog, or    *)
(* the client has read it.                                                 *)
THEOREM BroadcasterDelivery == Spec => []LatestReachesEveryClient
<1>1. BroadcasterInv => LatestReachesEveryClient
  BY DEF BroadcasterInv, LatestReachesEveryClient, NewestInv, Newest, Behind
<1> QED BY <1>1, SpecInv, PTL
=============================================================================
