----------------------------- MODULE MCSessions -----------------------------
(* Three sessions: one holds the lock, and a queue of two waits for it.    *)
EXTENDS SessionCollectors, TLC

(* No property is one of liveness, and no session differs from another.    *)
Symmetry == Permutations(Session)
=============================================================================
