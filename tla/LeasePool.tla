------------------------------ MODULE LeasePool ------------------------------
(***************************************************************************)
(* The Host's pool of Guest lease streams and the requests routed over     *)
(* them (packages/verser2-host/src/lib/lease-pool.ts, the lease half of    *)
(* broker-routing.ts, and the handlers of node-http2-verser-host.ts that   *)
(* drive the pool).                                                        *)
(*                                                                         *)
(* A Guest opens one-use lease streams.  A request for that Guest takes an *)
(* idle one or queues for the next one; the wait ends with a lease, with   *)
(* the acquisition timer, or with the Guest's disconnection.  A stream     *)
(* that closes does so in two steps: `stream.closed` becomes true first,   *)
(* its 'close' event (and with it removeLease) is delivered later, and any *)
(* other handler may run in between.                                       *)
(*                                                                         *)
(* A lease is resolved through a promise, so the code after `await         *)
(* acquireLease` is a step of its own (Continue).                          *)
(***************************************************************************)
EXTENDS Integers, Sequences, Arrays

CONSTANTS Guests,             \* Guest peer IDs
          Leases,             \* lease streams, each opened at most once
          LeaseIds,           \* x-verser-lease-id values
          Requests,           \* requests the Host routes to a remote Guest
          FederatedRequests,  \* those that pass the hop policy first
          LeaseGuest,         \* x-verser-peer-id of each lease stream
          LeaseId,            \* x-verser-lease-id of each lease stream
          Target,             \* the Guest each request is for
          NoLease             \* "undefined"

ASSUME LeasePoolAssumption ==
    /\ LeaseGuest \in [Leases -> Guests]
    /\ LeaseId \in [Leases -> LeaseIds]
    /\ Target \in [Requests -> Guests]
    /\ FederatedRequests \subseteq Requests
    /\ NoLease \notin Leases

VARIABLES
    registered,    \* Guests in Host.peers
    idleLeases,    \* LeasePool.idleLeases, in arrival order
    activeLeases,  \* LeasePool.activeLeases, keyed by guestId:leaseId
    queued,        \* LeasePool.queuedLeaseAcquisitions, in arrival order
    stream,        \* state of each lease stream
    request,       \* how far each request is, or how it ended
    assigned,      \* the lease each request was given
    live,          \* requests whose Broker still wants the answer
    stale          \* requests whose pending hop decision was invalidated

vars == <<registered, idleLeases, activeLeases, queued, stream, request,
          assigned, live, stale>>

-----------------------------------------------------------------------------
(* Types *)

StreamState == {"unopened", "open", "closed", "gone"}

InFlight == {"granted", "active", "responding"}

Settled == {"missing-guest", "authorization-denied", "timeout",
            "disconnected-target", "cancelled", "failed", "completed"}

RequestState == {"new", "authorizing", "queued"} \cup InFlight \cup Settled

Keys == Guests \X LeaseIds

Key(l) == <<LeaseGuest[l], LeaseId[l]>>

TypeOK ==
    /\ registered \in SUBSET Guests
    /\ idleLeases \in [Guests -> Seq(Leases)]
    /\ activeLeases \in [Keys -> Leases \cup {NoLease}]
    /\ queued \in [Guests -> Seq(Requests)]
    /\ stream \in [Leases -> StreamState]
    /\ request \in [Requests -> RequestState]
    /\ assigned \in [Requests -> Leases \cup {NoLease}]
    /\ live \in SUBSET Requests
    /\ stale \in SUBSET Requests

-----------------------------------------------------------------------------
(* Helpers.  An operator named Faulty... is a wrong variant of an operator     *)
(* that follows it, kept to show which property notices; nothing uses it.    *)

\* stream.closed, or a reset code other than NO_ERROR
IsClosed(l) == stream[l] # "open"

\* The leases whose streams Host-side or remote-side closing reaches now.
Close(S) == [l \in Leases |-> IF l \in S /\ stream[l] = "open"
                              THEN "closed" ELSE stream[l]]

LeasesOf(g) == {l \in Leases : LeaseGuest[l] = g}

\* Bookkeeping common to both ways a request gets a lease.
Assign(r, l) ==
    /\ assigned' = [assigned EXCEPT ![r] = l]
    /\ request' = [request EXCEPT ![r] = "granted"]
    /\ activeLeases' = [activeLeases EXCEPT ![Key(l)] = l]

-----------------------------------------------------------------------------
(* Initial state: a started Host without peers *)

Init ==
    /\ registered = {}
    /\ idleLeases = [g \in Guests |-> <<>>]
    /\ activeLeases = [k \in Keys |-> NoLease]
    /\ queued = [g \in Guests |-> <<>>]
    /\ stream = [l \in Leases |-> "unopened"]
    /\ request = [r \in Requests |-> "new"]
    /\ assigned = [r \in Requests |-> NoLease]
    /\ live = Requests
    /\ stale = {}

-----------------------------------------------------------------------------
(* Guest sessions *)

\* Every change of the route tables bumps the authorizer's generation: the hop
\* decisions pending at that moment will resolve to "denied".
FaultyInvalidateRouteAuthorizations == stale' = stale

InvalidateRouteAuthorizations ==
    stale' = stale \cup {r \in Requests : request[r] = "authorizing"}

RegisterGuest(g) ==
    /\ g \notin registered
    /\ registered' = registered \cup {g}
    /\ InvalidateRouteAuthorizations
    /\ UNCHANGED <<idleLeases, activeLeases, queued, stream, request, assigned, live>>

\* failQueuedLeaseAcquisitions, for the queues of the Guests in G
FailQueued(G) ==
    /\ queued' = [g \in Guests |-> IF g \in G THEN <<>> ELSE queued[g]]
    /\ request' = [r \in Requests |->
                     IF \E g \in G : r \in Elements(queued[g])
                     THEN "disconnected-target" ELSE request[r]]

\* closeGuestLeases / closeAllLeases: forget the leases of the Guests in G
ForgetLeases(G) ==
    /\ idleLeases' = [g \in Guests |-> IF g \in G THEN <<>> ELSE idleLeases[g]]
    /\ activeLeases' = [k \in Keys |-> IF k[1] \in G THEN NoLease ELSE activeLeases[k]]

\* The session of g closes, and all its streams with it: removeSessionPeers.
GuestDisconnect(g) ==
    /\ g \in registered
    /\ registered' = registered \ {g}
    /\ InvalidateRouteAuthorizations
    /\ ForgetLeases({g})
    /\ stream' = Close(LeasesOf(g))
    /\ FailQueued({g})
    /\ UNCHANGED <<assigned, live>>

\* Host.close(): every session is destroyed, so no Broker waits any longer.
HostClose ==
    /\ registered' = {}
    /\ InvalidateRouteAuthorizations
    /\ ForgetLeases(Guests)
    /\ stream' = Close(Leases)
    /\ FailQueued(Guests)
    /\ live' = {r \in live : request[r] = "new"}
    /\ UNCHANGED assigned

-----------------------------------------------------------------------------
(* Lease streams *)

\* addIdleLease with a waiter: the head of the queue gets the lease.
ServeFirst(g) == 1

HandToWaiter(l) ==
    LET g == LeaseGuest[l]
        k == ServeFirst(g)
    IN  /\ queued[g] # <<>>
        /\ Assign(queued[g][k], l)
        /\ queued' = [queued EXCEPT ![g] = Without(@, queued[g][k])]
        /\ UNCHANGED idleLeases

\* addIdleLease without a waiter
FaultyHasNoWaiter(g) == TRUE

HasNoWaiter(g) == queued[g] = <<>>

KeepIdle(l) ==
    LET g == LeaseGuest[l]
    IN  /\ HasNoWaiter(g)
        /\ idleLeases' = [idleLeases EXCEPT ![g] = Append(@, l)]
        /\ UNCHANGED <<queued, request, assigned, activeLeases>>

AddIdleLease(l) == HandToWaiter(l) \/ KeepIdle(l)

\* attachGuestLeaseStream for a stream that is still open ...
AttachLease(l) ==
    /\ stream[l] = "unopened"
    /\ LeaseGuest[l] \in registered
    /\ stream' = [stream EXCEPT ![l] = "open"]
    /\ AddIdleLease(l)
    /\ UNCHANGED <<registered, live, stale>>

\* ... and for one that closed before its handler ran: no waiter is consumed.
AttachClosedLease(l) ==
    /\ stream[l] = "unopened"
    /\ LeaseGuest[l] \in registered
    /\ stream' = [stream EXCEPT ![l] = "closed"]
    /\ UNCHANGED <<registered, idleLeases, activeLeases, queued, request,
                   assigned, live, stale>>

\* The Guest or the transport closes a lease stream; its event is pending.
StreamCloses(l) ==
    /\ stream[l] = "open"
    /\ stream' = Close({l})
    /\ UNCHANGED <<registered, idleLeases, activeLeases, queued, request,
                   assigned, live, stale>>

\* The 'close' event: removeLease, and the request still reading from the
\* stream fails ("Lease stream closed before metadata", or a broken body).
\* Events run from the event loop, after the promise continuations: the only
\* granted requests that 'close' can overtake are those HostClose killed.
StreamCloseEvent(l) ==
    /\ stream[l] = "closed"
    /\ \A r \in live : assigned[r] = l => request[r] # "granted"
    /\ stream' = [stream EXCEPT ![l] = "gone"]
    /\ idleLeases' = [idleLeases EXCEPT ![LeaseGuest[l]] = Without(@, l)]
    /\ activeLeases' = [activeLeases EXCEPT ![Key(l)] = NoLease]
    /\ request' = [r \in Requests |->
                     IF assigned[r] = l /\ request[r] \in {"active", "responding"}
                     THEN "failed" ELSE request[r]]
    /\ UNCHANGED <<registered, queued, assigned, live, stale>>

-----------------------------------------------------------------------------
(* Requests *)

\* acquireLease finds an idle lease: closed ones in front of it are dropped.
FaultyDropThrough(i) == i

DropThrough(i) == i + 1

TakeIdle(r) ==
    LET g == Target[r]
    IN  \E i \in DOMAIN idleLeases[g] :
          /\ ~IsClosed(idleLeases[g][i])
          /\ \A j \in 1 .. (i - 1) : IsClosed(idleLeases[g][j])
          /\ Assign(r, idleLeases[g][i])
          /\ idleLeases' = [idleLeases EXCEPT
                              ![g] = SubSeq(@, DropThrough(i), Len(@))]
          /\ UNCHANGED queued

\* acquireLease finds none: the acquisition queues and its timer starts.
Enqueue(r) ==
    LET g == Target[r]
    IN  /\ \A l \in Elements(idleLeases[g]) : IsClosed(l)
        /\ idleLeases' = [idleLeases EXCEPT ![g] = <<>>]
        /\ queued' = [queued EXCEPT ![g] = Append(@, r)]
        /\ request' = [request EXCEPT ![r] = "queued"]
        /\ UNCHANGED <<assigned, activeLeases>>

AcquireLease(r) == TakeIdle(r) \/ Enqueue(r)

\* routeBrokerRequest, routeLocalRequestDispatch: the target must be registered.
RouteRequest(r) ==
    /\ request[r] = "new"
    /\ r \in live
    /\ r \notin FederatedRequests
    /\ Target[r] \in registered
    /\ AcquireLease(r)
    /\ UNCHANGED <<registered, stream, live, stale>>

RouteRequestMissing(r) ==
    /\ request[r] = "new"
    /\ r \in live
    /\ Target[r] \notin registered
    /\ request' = [request EXCEPT ![r] = "missing-guest"]
    /\ UNCHANGED <<registered, idleLeases, activeLeases, queued, stream,
                   assigned, live, stale>>

\* An incoming federated request: the target is looked up, then the hop policy
\* is awaited.
RouteFederatedRequest(r) ==
    /\ request[r] = "new"
    /\ r \in live
    /\ r \in FederatedRequests
    /\ Target[r] \in registered
    /\ request' = [request EXCEPT ![r] = "authorizing"]
    /\ UNCHANGED <<registered, idleLeases, activeLeases, queued, stream,
                   assigned, live, stale>>

\* The policy answers.  An allow that an invalidation overtook is a deny; an
\* allow that was not goes on with the target looked up before the wait.
HopAllowed(r) ==
    /\ request[r] = "authorizing"
    /\ r \notin stale
    /\ AcquireLease(r)
    /\ UNCHANGED <<registered, stream, live, stale>>

HopDenied(r) ==
    /\ request[r] = "authorizing"
    /\ request' = [request EXCEPT ![r] = "authorization-denied"]
    /\ stale' = stale \ {r}
    /\ UNCHANGED <<registered, idleLeases, activeLeases, queued, stream,
                   assigned, live>>

FaultyLeaseTimeout(r) == FALSE /\ UNCHANGED vars

\* The acquisition timer of a queued request: removeQueuedLeaseAcquisition.
LeaseTimeout(r) ==
    /\ request[r] = "queued"
    /\ queued' = [queued EXCEPT ![Target[r]] = Without(@, r)]
    /\ request' = [request EXCEPT ![r] = "timeout"]
    /\ UNCHANGED <<registered, idleLeases, activeLeases, stream, assigned,
                   live, stale>>

\* The code after `await acquireLease`: a request nobody wants any longer gives
\* its one-use lease back by closing it, the others write their envelope.
FaultyCancelLease(r) == stream' = stream

CancelLease(r) == stream' = Close({assigned[r]})

ContinueDead(r) ==
    /\ request[r] = "granted"
    /\ r \notin live
    /\ CancelLease(r)
    /\ request' = [request EXCEPT ![r] = "cancelled"]
    /\ UNCHANGED <<registered, idleLeases, activeLeases, queued, assigned, live, stale>>

ContinueLive(r) ==
    /\ request[r] = "granted"
    /\ r \in live
    /\ request' = [request EXCEPT ![r] = "active"]
    /\ UNCHANGED <<registered, idleLeases, activeLeases, queued, stream,
                   assigned, live, stale>>

Continue(r) == ContinueDead(r) \/ ContinueLive(r)

\* The Guest's response envelope, its error envelope, and the end of the body.
GuestResponds(r) ==
    /\ request[r] = "active"
    /\ stream[assigned[r]] = "open"
    /\ request' = [request EXCEPT ![r] = "responding"]
    /\ UNCHANGED <<registered, idleLeases, activeLeases, queued, stream,
                   assigned, live, stale>>

GuestFails(r) ==
    /\ request[r] = "active"
    /\ stream[assigned[r]] = "open"
    /\ request' = [request EXCEPT ![r] = "failed"]
    /\ CancelLease(r)
    /\ UNCHANGED <<registered, idleLeases, activeLeases, queued, assigned, live, stale>>

ResponseEnds(r) ==
    /\ request[r] = "responding"
    /\ stream[assigned[r]] = "open"
    /\ request' = [request EXCEPT ![r] = "completed"]
    /\ CancelLease(r)
    /\ UNCHANGED <<registered, idleLeases, activeLeases, queued, assigned, live, stale>>

\* The Broker aborts.  Only a request that already uses its lease reacts (the
\* lease is cancelled); a queued one keeps its place and notices in Continue.
BrokerCancelsWaiting(r) ==
    /\ r \in live
    /\ request[r] \in {"authorizing", "queued", "granted"}
    /\ live' = live \ {r}
    /\ UNCHANGED <<registered, idleLeases, activeLeases, queued, stream,
                   request, assigned, stale>>

BrokerCancelsRunning(r) ==
    /\ r \in live
    /\ request[r] \in {"active", "responding"}
    /\ live' = live \ {r}
    /\ request' = [request EXCEPT ![r] = "cancelled"]
    /\ CancelLease(r)
    /\ UNCHANGED <<registered, idleLeases, activeLeases, queued, assigned, stale>>

-----------------------------------------------------------------------------
GuestSteps == \E g \in Guests : RegisterGuest(g) \/ GuestDisconnect(g)

LeaseSteps == \E l \in Leases : \/ AttachLease(l)
                                \/ AttachClosedLease(l)
                                \/ StreamCloses(l)
                                \/ StreamCloseEvent(l)

RequestSteps == \E r \in Requests : \/ RouteRequest(r)
                                    \/ RouteRequestMissing(r)
                                    \/ RouteFederatedRequest(r)
                                    \/ HopAllowed(r)
                                    \/ HopDenied(r)
                                    \/ LeaseTimeout(r)
                                    \/ Continue(r)
                                    \/ GuestResponds(r)
                                    \/ GuestFails(r)
                                    \/ ResponseEnds(r)
                                    \/ BrokerCancelsWaiting(r)
                                    \/ BrokerCancelsRunning(r)

Next == GuestSteps \/ HostClose \/ LeaseSteps \/ RequestSteps

Spec == Init /\ [][Next]_vars

\* What Node guarantees: timers fire, settled promises run their continuations
\* and a closed stream emits 'close'.  Nothing is assumed of Guests, Brokers or
\* the policy callback.
Fairness == /\ \A r \in Requests : WF_vars(LeaseTimeout(r)) /\ WF_vars(Continue(r))
            /\ \A l \in Leases : WF_vars(StreamCloseEvent(l))

FairSpec == Spec /\ Fairness

-----------------------------------------------------------------------------
(* Properties *)

\* Leases are one-use: no lease stream is ever given to two requests, whether
\* addIdleLease hands it to a waiter or acquireLease takes it from the idle list.
LeaseUsedOnce ==
    \A r, s \in Requests : assigned[r] # NoLease /\ assigned[r] = assigned[s] => r = s

\* Nobody waits next to a usable lease: while acquisitions of a Guest are
\* queued, every lease acquireLease left in its idle list is closed.
NoIdleWhileQueued ==
    \A g \in Guests : queued[g] # <<>> =>
        \A l \in Elements(idleLeases[g]) : stream[l] # "open"

\* The queues hold exactly the unsettled acquisitions, each in its own Guest's
\* queue and once: a timed-out or failed one can never consume a later lease.
QueueHoldsPending ==
    /\ \A g \in Guests :
          /\ Distinct(queued[g])
          /\ \A r \in Elements(queued[g]) : request[r] = "queued" /\ Target[r] = g
    /\ \A r \in Requests : request[r] = "queued" => r \in Elements(queued[Target[r]])

\* Nobody waits for a Guest that left: a federated request that looked its
\* target up before the policy answered is denied when the target is gone.
QueuedTargetRegistered ==
    \A g \in Guests : queued[g] # <<>> => g \in registered

\* A queued acquisition settles: with a lease, by its timer or by disconnection.
AcquisitionSettles ==
    \A r \in Requests : request[r] = "queued" ~> request[r] # "queued"

\* A request that was cancelled while it waited gives the lease it gets back:
\* the stream is closed and leaves the pool, so the Guest can open another.
DeadLeaseReturned ==
    \A r \in Requests, l \in Leases :
        request[r] = "granted" /\ r \notin live /\ assigned[r] = l ~> stream[l] = "gone"

-----------------------------------------------------------------------------
(* Strengthenings the proofs of LeasePoolProofs need *)

\* A lease in an idle list belongs to that Guest, has been opened and was never
\* given to a request; it is there once.
IdleSound ==
    \A g \in Guests :
        /\ Distinct(idleLeases[g])
        /\ \A l \in Elements(idleLeases[g]) :
              /\ LeaseGuest[l] = g
              /\ stream[l] # "unopened"
              /\ \A r \in Requests : assigned[r] # l

AssignedOpened ==
    \A r \in Requests : assigned[r] # NoLease => stream[assigned[r]] # "unopened"

LeaseInv == TypeOK /\ IdleSound /\ AssignedOpened /\ LeaseUsedOnce

\* A hop decision that is still valid was asked for a Guest that is still there.
FreshTargets ==
    \A r \in Requests :
        request[r] = "authorizing" /\ r \notin stale => Target[r] \in registered

QueueInv == TypeOK /\ QueueHoldsPending /\ QueuedTargetRegistered /\ FreshTargets
=============================================================================
