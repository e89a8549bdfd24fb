-------------------------- MODULE MCCommonUpdates --------------------------
(* The instance of CommonUpdates that TLC checks.                          *)
EXTENDS CommonUpdates
=============================================================================
