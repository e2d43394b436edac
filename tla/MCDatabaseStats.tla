-------------------------- MODULE MCDatabaseStats ---------------------------
(* Three commits: one before a baseline, one between two readings and one  *)
(* that a reading misses.                                                  *)
EXTENDS DatabaseStats
=============================================================================
