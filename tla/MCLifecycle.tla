---------------------------- MODULE MCLifecycle -----------------------------
(* Two requests of two queries, with the poller one user more than there   *)
(* are connections.                                                        *)
EXTENDS Lifecycle
=============================================================================
