-------------------------- MODULE MCRouteAuthorizer --------------------------
(* Small instances of RouteAuthorizer: calls about one pair, the decisions,  *)
(* revocations and invalidations they can run into.                         *)
EXTENDS RouteAuthorizer

CONSTANTS p1, c1, c2, c3, e1, e2, e3

MCCallPair == [c \in Calls |-> p1]
=============================================================================
