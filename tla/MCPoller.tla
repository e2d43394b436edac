------------------------------ MODULE MCPoller ------------------------------
EXTENDS Poller

(* A full activation, one of a minute, and one whose length wraps round to *)
(* a positive one.                                                         *)
MCMinutes == {0, 1, 6}
MCDurations == {1, 2}
=============================================================================
