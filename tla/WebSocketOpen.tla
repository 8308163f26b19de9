----------------------------- MODULE WebSocketOpen -----------------------------
(***************************************************************************)
(* How the Host finds a stream for a WebSocket: an open comes from a Broker *)
(* or from another Host and is tried on the candidates of its route one     *)
(* after the other.  A local candidate takes an idle WebSocket lease of the *)
(* Guest, an inbound federated Host the one pool stream it keeps with this  *)
(* Host (opens wait for it in line), an upstream Host a stream opened for   *)
(* the occasion.  The open frame is written, the answer raced against a     *)
(* timeout and against the source, and the two streams are bridged.         *)
(*                                                                          *)
(* A step is what runs between two awaits.  close() on a stream is followed *)
(* by its 'close' event later, in a step of its own.                        *)
(***************************************************************************)
EXTENDS Arrays, FiniteSets

CONSTANTS Opens,          \* WebSocket opens that reach the Host
          Plan,           \* the candidates of each open, in order
          Federated,      \* the opens that come from another Host
          Authorizer,     \* the Host has a routeAuthorizer
          Leases,         \* lease streams the Guest opens
          PoolStreams,    \* acquire streams the downstream Host opens
          UpStreams,      \* streams this Host opens to its upstream
          MaxIdle,        \* MAX_WS_IDLE_LEASES_PER_GUEST
          GuestPool,      \* WebSocket lease streams the Guest keeps
          MaxWaiters,     \* MAX_FEDERATION_VWS_WAITERS
          None

Streams == Leases \cup PoolStreams \cup UpStreams
(* "back" is a candidate whose next hop is the Host the open came from.     *)
Kinds == {"local", "pool", "up", "back"}

ASSUME OpenConstants ==
    /\ Plan \in [Opens -> Seq(Kinds)]
    /\ Federated \subseteq Opens
    /\ Authorizer \in BOOLEAN
    /\ None \notin Streams
    /\ Leases \cap PoolStreams = {} /\ Leases \cap UpStreams = {}
    /\ PoolStreams \cap UpStreams = {}
    /\ MaxIdle \in Nat /\ GuestPool \in Nat /\ MaxWaiters \in Nat

VARIABLES
    stream,     \* every destination stream, as the Host sees it
    idle,       \* wsIdleLeases of the Guest
    guest,      \* the Guest is registered
    inbound,    \* the downstream Host is in inboundFederationHosts
    vwsStream,  \* and its pool stream
    vwsBusy,    \* which is reserved by an open
    waiters,    \* federatedVwsPoolWaiters of that Host
    acquirer,   \* what the downstream Host does about the pool stream
    session,    \* the HTTP/2 session of the downstream Host is up
    orphan,     \* the pool stream a removed entry left behind (history)
    source,     \* the source stream of each open
    pc,         \* where the handler of each open waits
    tried,      \* the candidate it is at
    dest        \* its destination

vars == <<stream, idle, guest, inbound, vwsStream, vwsBusy, waiters, acquirer, session,
          orphan, source, pc, tried, dest>>

pool == <<inbound, vwsStream, vwsBusy, waiters, acquirer, session, orphan>>

Waits == {"authorize", "waiting", "opening", "acquired", "negotiate"}
Settled == {"bridged", "failed"}

(* stream.closed || stream.destroyed, before and after the 'close' event.   *)
Closing(st, s) == IF s = None \/ st[s] # "open" THEN st ELSE [st EXCEPT ![s] = "closing"]

(* The stream that is opened next: unused ones do not differ. *)
NextUnused(S) == CHOOSE s \in S : stream[s] = "none"

(* isFederationVwsSourceLive: the stream is open and its session is the one *)
(* the source is registered with.                                           *)
isFederationVwsSourceLive(o) == source[o] = "live"

Candidate(o) == Plan[o][tried[o]]

----------------------------------------------------------------------------
(* The candidate loop of routeFederationVwsInternal *)

(* The catch of one candidate, and the way out of the loop: close what was  *)
(* acquired and go on, or give up when the source is gone.                  *)
CandidateFails(o, live) ==
    /\ stream' = Closing(stream, dest[o])
    /\ dest' = [dest EXCEPT ![o] = None]
    /\ IF live THEN pc' = [pc EXCEPT ![o] = "next"] /\ tried' = [tried EXCEPT ![o] = @ + 1]
               ELSE pc' = [pc EXCEPT ![o] = "failed"] /\ UNCHANGED tried

(* Mutant: a destination acquired for a dead source is dropped, not closed. *)
FaultyForwardOpen(o, s) ==
    /\ dest' = [dest EXCEPT ![o] = IF isFederationVwsSourceLive(o) THEN s ELSE None]
    /\ pc' = [pc EXCEPT ![o] = IF isFederationVwsSourceLive(o) THEN "negotiate" ELSE "failed"]
    /\ UNCHANGED <<stream, tried>>

(* A destination is there: the source is checked again, the open frame is   *)
(* written and its answer awaited.                                          *)
ForwardOpen(o, s) ==
    IF isFederationVwsSourceLive(o)
    THEN /\ dest' = [dest EXCEPT ![o] = s]
         /\ pc' = [pc EXCEPT ![o] = "negotiate"]
         /\ UNCHANGED <<stream, tried>>
    ELSE /\ stream' = Closing(stream, s)
         /\ dest' = [dest EXCEPT ![o] = None]
         /\ pc' = [pc EXCEPT ![o] = "failed"]
         /\ UNCHANGED tried

acquireLocal(o) ==
    IF idle = <<>>
    THEN CandidateFails(o, TRUE) /\ UNCHANGED idle
    ELSE ForwardOpen(o, Head(idle)) /\ idle' = Tail(idle)

PoolAvailable(st) == inbound /\ vwsStream # None /\ st[vwsStream] = "open" /\ ~vwsBusy

(* Mutant: the reservation does not mark the pool stream busy. *)
FaultyWaitForPool(o) ==
    /\ inbound /\ PoolAvailable(stream)
    /\ dest' = [dest EXCEPT ![o] = vwsStream]
    /\ pc' = [pc EXCEPT ![o] = "acquired"]
    /\ UNCHANGED <<stream, tried, pool>>

(* waitForFederationVwsPool: the queue is full, the stream is free, or the  *)
(* open waits in line.                                                      *)
waitForFederationVwsPool(o) ==
    /\ UNCHANGED <<inbound, vwsStream, acquirer, session, orphan>>
    /\ \/ /\ ~inbound \/ Len(waiters) >= MaxWaiters
          /\ CandidateFails(o, TRUE)
          /\ UNCHANGED <<vwsBusy, waiters>>
       \/ /\ inbound /\ Len(waiters) < MaxWaiters
          /\ PoolAvailable(stream)
          /\ vwsBusy' = TRUE
          /\ dest' = [dest EXCEPT ![o] = vwsStream]
          /\ pc' = [pc EXCEPT ![o] = "acquired"]
          /\ UNCHANGED <<stream, tried, waiters>>
       \/ /\ inbound /\ Len(waiters) < MaxWaiters
          /\ ~PoolAvailable(stream)
          /\ waiters' = Append(waiters, o)
          /\ pc' = [pc EXCEPT ![o] = "waiting"]
          /\ UNCHANGED <<stream, tried, dest, vwsBusy>>

(* openUpstreamFederationVwsStream up to the response of the upstream.      *)
openUpstream(o) ==
    \/ \E s \in UpStreams :
         /\ stream[s] = "none"
         /\ stream' = [stream EXCEPT ![s] = "open"]
         /\ dest' = [dest EXCEPT ![o] = s]
         /\ pc' = [pc EXCEPT ![o] = "opening"]
         /\ UNCHANGED tried
    \/ CandidateFails(o, TRUE)      \* no upstream link is up

Acquire(o) ==
    \/ Candidate(o) = "local" /\ acquireLocal(o) /\ UNCHANGED pool
    \/ Candidate(o) = "pool" /\ waitForFederationVwsPool(o) /\ UNCHANGED idle
    \/ Candidate(o) = "up" /\ openUpstream(o) /\ UNCHANGED <<idle, pool>>

NeedsAuthorization(o) == Authorizer /\ (o \in Federated \/ Candidate(o) # "local")

(* The hop metadata of the open is refused before any candidate is tried:   *)
(* a loop, too many hops, or a path that does not end with the sender.      *)
validateFederationVwsOpen(o) ==
    /\ pc[o] = "next" /\ tried[o] = 1 /\ o \in Federated
    /\ pc' = [pc EXCEPT ![o] = "failed"]
    /\ UNCHANGED <<stream, idle, guest, source, pool, tried, dest>>

(* One turn of the loop, up to its first await. *)
TryCandidate(o) ==
    /\ pc[o] = "next"
    /\ UNCHANGED <<guest, source>>
    /\ \/ /\ ~isFederationVwsSourceLive(o) \/ tried[o] > Len(Plan[o])
          /\ pc' = [pc EXCEPT ![o] = "failed"]
          /\ UNCHANGED <<stream, idle, pool, tried, dest>>
       \/ /\ isFederationVwsSourceLive(o) /\ tried[o] <= Len(Plan[o])
          /\ \/ /\ Candidate(o) = "back"
                /\ tried' = [tried EXCEPT ![o] = @ + 1]
                /\ UNCHANGED <<stream, idle, pool, pc, dest>>
             \/ /\ Candidate(o) # "back" /\ NeedsAuthorization(o)
                /\ pc' = [pc EXCEPT ![o] = "authorize"]
                /\ UNCHANGED <<stream, idle, pool, tried, dest>>
             \/ Candidate(o) # "back" /\ ~NeedsAuthorization(o) /\ Acquire(o)

(* The verdict of the authorizer: a denial, or a route that is gone in the  *)
(* meantime, fails the candidate.                                           *)
Authorized(o) ==
    /\ pc[o] = "authorize"
    /\ UNCHANGED <<guest, source>>
    /\ \/ isFederationVwsSourceLive(o) /\ Acquire(o)
       \/ /\ CandidateFails(o, isFederationVwsSourceLive(o))
          /\ UNCHANGED <<idle, pool>>

(* The upstream answers: the stream is there, or it is refused.             *)
UpstreamResponds(o) ==
    /\ pc[o] = "opening"
    /\ UNCHANGED <<guest, source, idle, pool>>
    /\ \/ stream[dest[o]] = "open" /\ ForwardOpen(o, dest[o])
       \/ CandidateFails(o, isFederationVwsSourceLive(o))

(* The code after the reservation of the pool stream. *)
PoolAcquired(o) ==
    /\ pc[o] = "acquired"
    /\ ForwardOpen(o, dest[o])
    /\ UNCHANGED <<guest, source, idle, pool>>

(* Mutant: the timer is never armed. *)
FaultyWaitTimeout(o) == FALSE /\ UNCHANGED vars

(* The wait for the pool stream takes five seconds. *)
WaitTimeout(o) ==
    /\ pc[o] = "waiting"
    /\ waiters' = Without(waiters, o)
    /\ CandidateFails(o, isFederationVwsSourceLive(o))
    /\ UNCHANGED <<guest, source, idle, inbound, vwsStream, vwsBusy, acquirer, session, orphan>>

(* The accept frame: bridge the streams, unless the source is gone. *)
VwsAccepted(o) ==
    /\ pc[o] = "negotiate"
    /\ stream[dest[o]] = "open"
    /\ IF isFederationVwsSourceLive(o)
       THEN /\ pc' = [pc EXCEPT ![o] = "bridged"]
            /\ UNCHANGED <<stream, dest>>
       ELSE /\ pc' = [pc EXCEPT ![o] = "failed"]
            /\ stream' = Closing(stream, dest[o])
            /\ dest' = [dest EXCEPT ![o] = None]
    /\ UNCHANGED <<guest, source, idle, pool, tried>>

(* An error frame, a frame that is no accept frame, or the timeout.         *)
VwsRefused(o) ==
    /\ pc[o] = "negotiate"
    /\ CandidateFails(o, isFederationVwsSourceLive(o))
    /\ UNCHANGED <<guest, source, idle, pool>>

----------------------------------------------------------------------------
(* Streams open and close *)

(* The Broker is no longer registered with this session, or the link of the *)
(* Host is no longer this one; its stream is still open.                    *)
SourceUnregistered(o) ==
    /\ source[o] = "live" /\ pc[o] \notin Settled
    /\ source' = [source EXCEPT ![o] = "unregistered"]
    /\ UNCHANGED <<stream, idle, guest, pool, pc, tried, dest>>

(* 'close' of the source: what waits on it is rejected, a bridge closes its *)
(* other side.  (After a failure the Host has ended the source itself.)     *)
SourceCloses(o) ==
    /\ source[o] # "closed" /\ pc[o] # "failed"
    /\ source' = [source EXCEPT ![o] = "closed"]
    /\ waiters' = Without(waiters, o)
    /\ \/ /\ pc[o] \in {"waiting", "negotiate"}
          /\ CandidateFails(o, FALSE)
       \/ /\ pc[o] = "bridged"
          /\ stream' = Closing(stream, dest[o])
          /\ UNCHANGED <<pc, tried, dest>>
       \/ /\ pc[o] \notin {"waiting", "negotiate", "bridged"}
          /\ UNCHANGED <<stream, pc, tried, dest>>
    /\ UNCHANGED <<idle, guest, inbound, vwsStream, vwsBusy, acquirer, session, orphan>>

(* 'close' of a destination: it leaves the idle leases or the pool, fails   *)
(* the negotiation it is in or closes the other side of its bridge.         *)
StreamCloses(s) ==
    /\ stream[s] \in {"open", "closing"}
    /\ idle' = Without(idle, s)
    /\ vwsStream' = IF vwsStream = s THEN None ELSE vwsStream
    /\ orphan' = IF orphan = s THEN None ELSE orphan
    /\ acquirer' = IF s \in PoolStreams /\ acquirer = "open" THEN "opening" ELSE acquirer
    /\ LET users == {o \in Opens : dest[o] = s}
       IN  /\ source' = [o \in Opens |->
                 IF o \in users /\ pc[o] = "bridged" THEN "closed" ELSE source[o]]
           /\ \/ /\ \E o \in users : /\ pc[o] = "negotiate"
                                     /\ dest' = [dest EXCEPT ![o] = None]
                                     /\ IF isFederationVwsSourceLive(o)
                                        THEN /\ pc' = [pc EXCEPT ![o] = "next"]
                                             /\ tried' = [tried EXCEPT ![o] = @ + 1]
                                        ELSE /\ pc' = [pc EXCEPT ![o] = "failed"]
                                             /\ UNCHANGED tried
              \/ /\ \A o \in users : pc[o] # "negotiate"
                 /\ UNCHANGED <<pc, tried, dest>>
    /\ stream' = [stream EXCEPT ![s] = "closed"]
    /\ UNCHANGED <<guest, inbound, vwsBusy, waiters, session>>

(* The Guest opens a stream at first, when the last one was accepted and    *)
(* when one has closed, up to a number that counts the busy ones.           *)
maintainWsLeasePool ==
    guest /\ Cardinality({l \in Leases : stream[l] = "open"}) < GuestPool

(* attachGuestWsLeaseStream: a lease beyond the limit is refused.           *)
attachGuestWsLeaseStream(l) ==
    /\ stream[l] = "none" /\ l = NextUnused(Leases)
    /\ maintainWsLeasePool
    /\ IF Len(idle) >= MaxIdle
       THEN stream' = [stream EXCEPT ![l] = "closed"] /\ UNCHANGED idle
       ELSE stream' = [stream EXCEPT ![l] = "open"] /\ idle' = Append(idle, l)
    /\ UNCHANGED <<guest, pool, source, pc, tried, dest>>

(* The session of the Guest closes: clearWsIdleLeases; its streams follow.  *)
clearWsIdleLeases ==
    /\ guest
    /\ guest' = FALSE
    /\ idle' = <<>>
    /\ stream' = [s \in Streams |-> IF s \in Leases /\ stream[s] = "open"
                                    THEN "closing" ELSE stream[s]]
    /\ UNCHANGED <<pool, source, pc, tried, dest>>

(* The first waiter is resolved with the stream s, which reserves it.       *)
resolveFederationVwsWaiters(s) ==
    /\ vwsBusy' = (waiters # <<>>)
    /\ IF waiters = <<>> THEN UNCHANGED <<waiters, pc, dest>>
       ELSE /\ waiters' = Tail(waiters)
            /\ pc' = [pc EXCEPT ![Head(waiters)] = "acquired"]
            /\ dest' = [dest EXCEPT ![Head(waiters)] = s]

(* The acquire stream of the downstream Host, at first and each time one    *)
(* has closed: it is the pool stream.  (An acquire beside a live pool       *)
(* stream gets 409; the downstream Host asks only when its last one has     *)
(* closed.)                                                                 *)
handleFederationVwsAcquire(s) ==
    /\ inbound /\ acquirer = "opening" /\ stream[s] = "none" /\ s = NextUnused(PoolStreams)
    /\ stream' = [stream EXCEPT ![s] = "open"]
    /\ acquirer' = "open"
    /\ vwsStream' = s
    /\ resolveFederationVwsWaiters(s)
    /\ UNCHANGED <<idle, guest, inbound, session, orphan, source, tried>>

(* replenishUpstreamVwsStream fails, as it must without an entry: the error *)
(* is emitted, nothing retries.                                             *)
ReplenishFails ==
    /\ acquirer = "opening"
    /\ acquirer' = "gave up"
    /\ UNCHANGED <<stream, idle, guest, inbound, vwsStream, vwsBusy, waiters, session,
                   orphan, source, pc, tried, dest>>

(* Every waiter is rejected and goes on with its next candidate.            *)
failFederationVwsWaiters ==
    /\ waiters' = <<>>
    /\ pc' = [o \in Opens |-> IF o \notin Elements(waiters) THEN pc[o]
                              ELSE IF isFederationVwsSourceLive(o) THEN "next" ELSE "failed"]
    /\ tried' = [o \in Opens |-> IF o \in Elements(waiters) THEN tried[o] + 1 ELSE tried[o]]

(* removeInboundFederationHost: the entry is deleted with what it says of   *)
(* the pool stream, and the waiters fail.  No stream is closed.             *)
removeInboundFederationHost ==
    /\ inbound' = FALSE /\ vwsStream' = None /\ vwsBusy' = FALSE
    /\ failFederationVwsWaiters
    /\ UNCHANGED <<idle, guest, source, dest>>

(* The entry goes while the session stays: the route stream has closed      *)
(* alone, or the close handler of an earlier session has found it by ID.    *)
EntryRemoved ==
    /\ inbound
    /\ removeInboundFederationHost
    /\ orphan' = IF vwsBusy THEN None ELSE vwsStream
    /\ UNCHANGED <<stream, acquirer, session>>

(* The session closes, and its streams with it. *)
FederationSessionCloses ==
    /\ session
    /\ session' = FALSE
    /\ removeInboundFederationHost
    /\ acquirer' = "gave up"
    /\ stream' = [s \in Streams |-> IF s \in PoolStreams /\ stream[s] = "open"
                                    THEN "closing" ELSE stream[s]]
    /\ orphan' = None

----------------------------------------------------------------------------
Init ==
    /\ stream = [s \in Streams |-> "none"]
    /\ idle = <<>> /\ guest = TRUE
    /\ inbound = TRUE /\ vwsStream = None /\ vwsBusy = FALSE /\ waiters = <<>>
    /\ acquirer = "opening" /\ session = TRUE /\ orphan = None
    /\ source = [o \in Opens |-> "live"]
    /\ pc = [o \in Opens |-> "next"]
    /\ tried = [o \in Opens |-> 1]
    /\ dest = [o \in Opens |-> None]

OpenStep(o) ==
    \/ TryCandidate(o) \/ Authorized(o) \/ UpstreamResponds(o) \/ PoolAcquired(o)
    \/ WaitTimeout(o) \/ VwsRefused(o)

Next ==
    \/ \E o \in Opens : \/ OpenStep(o) \/ VwsAccepted(o)
                        \/ validateFederationVwsOpen(o)
                        \/ SourceUnregistered(o) \/ SourceCloses(o)
    \/ \E s \in Streams : StreamCloses(s)
    \/ \E l \in Leases : attachGuestWsLeaseStream(l)
    \/ \E s \in PoolStreams : handleFederationVwsAcquire(s)
    \/ clearWsIdleLeases \/ ReplenishFails
    \/ EntryRemoved \/ FederationSessionCloses

Spec == Init /\ [][Next]_vars

(* The handler of an open runs on; the authorizer and the upstream answer,  *)
(* the timers of the waits fire; a stream told to close closes.             *)
Fairness ==
    /\ \A o \in Opens : WF_vars(OpenStep(o))
    /\ \A s \in Streams : WF_vars(stream[s] = "closing" /\ StreamCloses(s))

FairSpec == Spec /\ Fairness

----------------------------------------------------------------------------
(* Properties *)

TypeOK ==
    /\ stream \in [Streams -> {"none", "open", "closing", "closed"}]
    /\ idle \in Seq(Leases) /\ Len(idle) <= MaxIdle
    /\ {guest, inbound, vwsBusy, session} \subseteq BOOLEAN
    /\ {vwsStream, orphan} \subseteq PoolStreams \cup {None}
    /\ waiters \in Seq(Opens) /\ Len(waiters) <= MaxWaiters
    /\ acquirer \in {"opening", "open", "gave up"}
    /\ source \in [Opens -> {"live", "unregistered", "closed"}]
    /\ pc \in [Opens -> {"next"} \cup Waits \cup Settled]
    /\ tried \in [Opens -> Nat]
    /\ dest \in [Opens -> Streams \cup {None}]

(* A stream carries one WebSocket: no two opens hold the same destination,  *)
(* and one that an open holds is neither an idle lease nor a free pool      *)
(* stream.                                                                  *)
OneOpenPerStream ==
    \A o \in Opens : dest[o] # None =>
        /\ \A p \in Opens \ {o} : dest[p] # dest[o]
        /\ dest[o] \notin Elements(idle)
        /\ dest[o] = vwsStream /\ inbound => vwsBusy

(* The pool stream that no open has: that of the entry while it is free,    *)
(* and one that was free when its entry was removed under a session that is *)
(* still up.  The code forgets that one until the session closes.           *)
Spare(s) ==
    \/ s = vwsStream /\ ~vwsBusy
    \/ s = orphan

(* Nothing else leaks: an open stream is an idle lease, a spare pool stream *)
(* or belongs to an open that is still at work or is bridged to a source    *)
(* that is open.                                                            *)
NoStreamLeaked ==
    \A s \in Streams : stream[s] = "open" =>
        \/ s \in Elements(idle)
        \/ Spare(s)
        \/ \E o \in Opens :
             /\ dest[o] = s
             /\ \/ pc[o] \in {"opening", "acquired", "negotiate"}
                \/ pc[o] = "bridged" /\ source[o] # "closed"

(* No open waits beside a free pool stream, and only opens that wait are in *)
(* line, once each.                                                         *)
WaitersWait ==
    /\ waiters # <<>> => ~PoolAvailable(stream)
    /\ Elements(waiters) = {o \in Opens : pc[o] = "waiting"}
    /\ Distinct(waiters)

(* Opens and streams are paired one to one, and nobody is passed over. *)
OpensPaired == OneOpenPerStream /\ WaitersWait

(* Every open is bridged or fails, whatever the Guest, the other Hosts and  *)
(* the source do.                                                           *)
OpensSettle == <>(\A o \in Opens : pc[o] \in Settled)

----------------------------------------------------------------------------
(* The inductive invariant *)

(* An open has a destination exactly while its handler is at work with it   *)
(* or the bridge stands, and that stream was opened.                        *)
DestinationsOpened ==
    \A o \in Opens :
        /\ (dest[o] # None) <=> (pc[o] \in {"opening", "acquired", "negotiate", "bridged"})
        /\ dest[o] # None => stream[dest[o]] # "none"

(* wsIdleLeases holds each lease once, and only leases that are open.       *)
IdleLeasesOpen ==
    /\ Distinct(idle)
    /\ \A l \in Elements(idle) : stream[l] = "open"

(* The pool stream is the only one of the link that has not closed, and the *)
(* downstream Host asks for another one only when there is none.            *)
OnePoolStream ==
    /\ acquirer = "opening" => vwsStream = None
    /\ vwsStream # None => inbound /\ stream[vwsStream] # "none"
    /\ inbound => /\ \A s \in PoolStreams : stream[s] \in {"open", "closing"} => s = vwsStream
                  /\ session /\ orphan = None
    /\ ~session => \A s \in PoolStreams : stream[s] # "open"

OpenInv ==
    /\ TypeOK
    /\ OneOpenPerStream /\ WaitersWait /\ NoStreamLeaked
    /\ DestinationsOpened /\ IdleLeasesOpen /\ OnePoolStream
================================================================================
