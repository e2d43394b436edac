--------------------------- MODULE MCHistoryStore ---------------------------
(* Four snapshots over three times, a retention of one, room for two       *)
(* incidents and one page, batches of one row: every phase of a pruning    *)
(* pass takes more than one statement and an append fits between any two.  *)
EXTENDS HistoryStore
=============================================================================
