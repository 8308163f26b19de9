----------------------------- MODULE StreamPairing -----------------------------
(***************************************************************************)
(* What a pool of single-use streams promises: a request is given an open  *)
(* stream that no request has had before, and the stream serves nobody     *)
(* else, even when it is still open after the request is over.  How        *)
(* streams are opened, counted and queued for is left open.                *)
(***************************************************************************)
CONSTANTS Streams, Requests, None

VARIABLES stream,   \* "closed", "fresh": open and not used, "taken": in use
                    \* by its holder, or "spent": open and used before
          holder    \* the stream of each request

pairing == <<stream, holder>>

Init == /\ stream = [s \in Streams |-> "closed"]
        /\ holder = [r \in Requests |-> None]

\* A stream is opened that no request still looks at.
Open(s) ==
    /\ stream[s] = "closed" /\ \A r \in Requests : holder[r] # s
    /\ stream' = [stream EXCEPT ![s] = "fresh"]
    /\ UNCHANGED holder

Take(r, s) ==
    /\ holder[r] = None /\ stream[s] = "fresh"
    /\ stream' = [stream EXCEPT ![s] = "taken"]
    /\ holder' = [holder EXCEPT ![r] = s]

\* A stream goes to a waiting request at once.
OpenTaken(r, s) ==
    /\ stream[s] = "closed" /\ \A q \in Requests : holder[q] # s
    /\ holder[r] = None
    /\ stream' = [stream EXCEPT ![s] = "taken"]
    /\ holder' = [holder EXCEPT ![r] = s]

\* Streams close, one or those of a session, under whoever has them.
Close(gone) ==
    /\ stream' = [s \in Streams |-> IF s \in gone THEN "closed" ELSE stream[s]]
    /\ UNCHANGED holder

\* A request is over, and its stream closes with it or is used up.
Release(r) ==
    /\ holder[r] # None
    /\ \E after \in {"closed", "spent"} : stream' = [stream EXCEPT ![holder[r]] = after]
    /\ holder' = [holder EXCEPT ![r] = None]

Next ==
    \/ \E s \in Streams : Open(s)
    \/ \E r \in Requests, s \in Streams : Take(r, s) \/ OpenTaken(r, s)
    \/ \E gone \in SUBSET Streams : Close(gone)
    \/ \E r \in Requests : Release(r)

Spec == Init /\ [][Next]_pairing
================================================================================
