--------------------------- MODULE MCFederatedStreams ---------------------------
(* Small instances of FederatedStreams *)
EXTENDS FederatedStreams

CONSTANTS f1, f2, f3, r1, r2
=============================================================================
