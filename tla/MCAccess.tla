------------------------------ MODULE MCAccess ------------------------------
(* Two requests at a time, banned for two mistakes and a unit of time; the *)
(* bucket holds one token, so that it runs dry before the second mistake.  *)
EXTENDS AccessControl
=============================================================================
