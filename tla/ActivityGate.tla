---------------------------- MODULE ActivityGate ----------------------------
(***************************************************************************)
(* What the switch in front of live monitoring promises its callers, with  *)
(* no timers, goroutines or locks in it: a gate that is open or closed,    *)
(* and what was last wished of it.                                         *)
(*                                                                         *)
(*  - Opening it for a limited time always leaves an expiry outstanding.   *)
(*  - Opening it without a limit, or closing it, never creates one.        *)
(*  - Between two wishes the gate never opens, and it closes only through  *)
(*    an expiry that is outstanding.                                       *)
(*                                                                         *)
(* An expiry that is outstanding may outlive a wish: the gate does not     *)
(* promise to withdraw it in time.                                         *)
(***************************************************************************)

VARIABLES wish,     \* "stop", "timed" or "full", whichever came last
          open,     \* whether the guarded activity may run
          expiring  \* whether some expiry is outstanding

gate == <<wish, open, expiring>>

Init == wish = "stop" /\ open = FALSE /\ expiring = FALSE

OpenTimed == wish' = "timed" /\ open' = TRUE /\ expiring' = TRUE

OpenIndefinitely == wish' = "full" /\ open' = TRUE /\ (expiring' => expiring)

Close == wish' = "stop" /\ open' = FALSE /\ (expiring' => expiring)

Expire == expiring /\ open' = FALSE /\ expiring' \in BOOLEAN /\ UNCHANGED wish

Next == OpenTimed \/ OpenIndefinitely \/ Close \/ Expire

Spec == Init /\ [][Next]_gate
=============================================================================
