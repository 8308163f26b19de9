----------------------------- MODULE MCLeasePool -----------------------------
(* Two Guests: the first has two leases and two requests, one of the requests *)
(* federated; the second has one lease and, if chosen, one request.           *)
EXTENDS LeasePool, SequencesExt

CONSTANTS g1, g2, l1, l2, l3, r1, r2, r3

\* As functions on the sets the configurations choose.
MCLeaseGuest == [l \in Leases |-> ((l1 :> g1) @@ (l2 :> g1) @@ (l3 :> g2))[l]]
MCUniqueIds == [l \in Leases |-> ((l1 :> 1) @@ (l2 :> 2) @@ (l3 :> 1))[l]]
MCTarget == [r \in Requests |-> ((r1 :> g1) @@ (r2 :> g1) @@ (r3 :> g2))[r]]

\* Without is Array.filter on arrays without repetition.
ASSUME WithoutIsFilter ==
    \A s \in UNION {[1 .. n -> 1 .. 4] : n \in 0 .. 4} : \A x \in 1 .. 4 :
        IsInjective(s) => Without(s, x) = SelectSeq(s, LAMBDA y : y # x)
=============================================================================
