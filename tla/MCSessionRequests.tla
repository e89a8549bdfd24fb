------------------------ MODULE MCSessionRequests -------------------------
(* Bounds for the model checker.                                           *)
EXTENDS SessionRequests
=============================================================================
