--------------------------------- MODULE Arrays ---------------------------------
(***************************************************************************)
(* The arrays of the Host: lists of objects in which an object is at most  *)
(* once, such as idle leases, queued acquisitions, streams and waiters.    *)
(***************************************************************************)
EXTENDS Integers, Sequences

Elements(s) == {s[i] : i \in DOMAIN s}

Distinct(s) == \A i, j \in DOMAIN s : s[i] = s[j] => i = j

\* s.filter(candidate => candidate !== x), for an array without repetition.
Without(s, x) ==
    IF x \in Elements(s)
    THEN LET k == CHOOSE i \in DOMAIN s : s[i] = x
         IN  [i \in 1 .. (Len(s) - 1) |-> IF i < k THEN s[i] ELSE s[i + 1]]
    ELSE s
=============================================================================
