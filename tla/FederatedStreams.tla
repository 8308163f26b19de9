---------------------------- MODULE FederatedStreams ----------------------------
(***************************************************************************)
(* The reverse request streams between two federated Hosts, both ends:     *)
(* packages/verser2-host/src/lib/node-http2-verser-host.ts and             *)
(* broker-routing.ts.                                                      *)
(*                                                                         *)
(* The downstream Host connects to the upstream one and keeps streams open *)
(* to it (one, or a pool of them), on each of which the upstream Host may  *)
(* send one request.  The upstream Host gives waiting streams to requests  *)
(* and queues the requests when there is none.  Either end of a stream     *)
(* closes without the other knowing at once.                               *)
(***************************************************************************)
EXTENDS Integers, Sequences, FiniteSets, Arrays

CONSTANTS Streams,       \* reverse request streams; one stands for the next once
                         \* both its ends are gone
          Requests,      \* requests the upstream Host routes downstream
          LocalRequests, \* those of local Brokers, or forwarded for another Host
          None,          \* "undefined"
          MinWaiting,    \* upstreamPool.minWaitingStreams
          MaxOpen,       \* upstreamPool.maxOpenStreams
          MaxQueued      \* upstreamPool.maxQueuedAcquires

ASSUME FederatedStreamsAssumption ==
    /\ IsFiniteSet(Streams)
    /\ LocalRequests \subseteq Requests
    /\ None \notin Streams
    /\ MinWaiting \in Nat /\ MaxOpen \in Nat /\ MaxQueued \in Nat

VARIABLES
    policy,         \* was connectUpstream given an upstreamPool?
    \* the upstream Host: the entry of inboundFederationHosts, and the requests
    linked,         \* is there an entry?
    requestPool,    \* has it a requestPool, sent with the first stream?
    requestStreams, \* in the order in which they were added
    busyStreams,    \* requestBusyStreams
    requestStream,  \* the latest stream
    requestBusy,    \* is it in use?  (without a pool)
    waiters,        \* federatedRequestStreamWaiters: requests, and whether they queued
                    \* for the pool or before it was known
    request,        \* how far each request is
    live,           \* has nobody cancelled it?
    assigned,       \* the stream it was given
    left,           \* did a request leave its stream open, and is its body still piped?
    upEnd,          \* the upstream Host's end of each stream
    \* the downstream Host: its UpstreamLink
    link,           \* is the link there?
    pool,           \* link.requestStreams, which matters with one
    active,         \* link.activeRequestStreams
    single,         \* link.requestStream, which matters without a pool
    opening,        \* the stream being opened
    downEnd         \* the downstream Host's end of each stream

tableVars == <<linked, requestPool, requestStreams, busyStreams, requestStream, requestBusy>>

requestVars == <<waiters, request, live, assigned, left>>

linkVars == <<link, pool, active, single, opening>>

vars == <<policy, tableVars, requestVars, upEnd, linkVars, downEnd>>

-----------------------------------------------------------------------------
(* Types *)

Waiters == [request : Requests, pooled : BOOLEAN]

TypeOK ==
    /\ policy \in BOOLEAN /\ linked \in BOOLEAN /\ requestPool \in BOOLEAN
    /\ requestBusy \in BOOLEAN
    /\ requestStreams \in Seq(Streams) /\ waiters \in Seq(Waiters)
    /\ busyStreams \in SUBSET Streams
    /\ requestStream \in Streams \cup {None}
    /\ request \in [Requests -> {"idle", "waiting", "granted", "running"}]
    /\ live \in [Requests -> BOOLEAN]
    /\ assigned \in [Requests -> Streams \cup {None}]
    /\ \A r \in Requests : assigned[r] \in Streams <=> request[r] \in {"granted", "running"}
    /\ left \in [Streams -> {"no", "piped", "unpiped"}]
    /\ upEnd \in [Streams -> {"none", "open", "closed"}]
    /\ link \in {"down", "connecting", "up"}
    /\ pool \in SUBSET Streams /\ active \in SUBSET Streams
    /\ single \in Streams \cup {None} /\ opening \in Streams \cup {None}
    /\ downEnd \in [Streams -> {"none", "opening", "answered", "open", "closed"}]

-----------------------------------------------------------------------------
(* Helpers.  An operator named Faulty... is a wrong variant of the operator    *)
(* after it, kept to show which property notices; nothing uses it.           *)

\* The streams the pool can give away.
FaultyUsable(streams, busy) == {s \in Elements(streams) : upEnd'[s] = "open"}

Usable(streams, busy) == {s \in Elements(streams) : s \notin busy /\ upEnd'[s] = "open"}

\* [...requestStreams].find(...)
IsFirst(s, streams, busy) ==
    \E i \in DOMAIN streams : /\ s = streams[i]
                              /\ s \in Usable(streams, busy)
                              /\ \A j \in 1 .. (i - 1) : streams[j] \notin Usable(streams, busy)

\* The entry after a deletion, and before any stream.
NoEntry ==
    /\ requestPool' = FALSE
    /\ requestStreams' = <<>>
    /\ busyStreams' = {}
    /\ requestStream' = None
    /\ requestBusy' = FALSE

-----------------------------------------------------------------------------
Init ==
    /\ policy \in BOOLEAN
    /\ linked = FALSE
    /\ requestPool = FALSE
    /\ requestStreams = <<>>
    /\ busyStreams = {}
    /\ requestStream = None
    /\ requestBusy = FALSE
    /\ waiters = <<>>
    /\ request = [r \in Requests |-> "idle"]
    /\ live = [r \in Requests |-> TRUE]
    /\ assigned = [r \in Requests |-> None]
    /\ left = [s \in Streams |-> "no"]
    /\ upEnd = [s \in Streams |-> "none"]
    /\ link = "down"
    /\ pool = {}
    /\ active = {}
    /\ single = None
    /\ opening = None
    /\ downEnd = [s \in Streams |-> "none"]

-----------------------------------------------------------------------------
(* The downstream Host *)

\* The streams nobody knows of any more.
Unused == {s \in Streams : /\ upEnd[s] = "none" /\ downEnd[s] = "none"
                           /\ \A r \in Requests : assigned[r] # s}

\* The one that is opened next: they do not differ.
NextStream == CHOOSE s \in Unused : TRUE

\* openUpstreamRequestStream up to its await, on top of other changes of the ends.
Open(ends) ==
    /\ Unused # {}
    /\ opening' = NextStream
    /\ downEnd' = [ends EXCEPT ![NextStream] = "opening"]

\* Does the loop of maintainUpstreamRequestPool go on?
Wanted(streams, busy) ==
    /\ Cardinality(streams) < MaxOpen
    /\ Cardinality(streams) - Cardinality(busy) < MinWaiting

\* maintainUpstreamRequestPool, or the next turn of its loop.
Maintain(streams, busy, ends) ==
    IF Wanted(streams, busy) THEN Open(ends)
    ELSE opening' = None /\ downEnd' = ends

\* connectUpstream, up to the opening of the first stream.  The upstream Host
\* admits a Host that it has no entry of.
ConnectUpstream ==
    /\ link = "down"
    /\ ~linked
    /\ link' = "connecting"
    /\ linked' = TRUE
    /\ NoEntry
    /\ Open(downEnd)
    /\ UNCHANGED <<policy, requestVars, upEnd, pool, active, single>>

\* The upstream Host has answered.
StreamOpened(s) ==
    /\ opening = s
    /\ downEnd[s] = "answered"
    /\ link' = "up"
    /\ single' = IF policy THEN None ELSE s
    /\ pool' = IF policy THEN pool \cup {s} ELSE {}
    /\ IF policy
       THEN Maintain(pool', active, [downEnd EXCEPT ![s] = "open"])
       ELSE opening' = None /\ downEnd' = [downEnd EXCEPT ![s] = "open"]
    /\ UNCHANGED <<policy, tableVars, requestVars, upEnd, active>>

\* The link is lost, or given up because a stream could not be opened.  Its
\* streams are closed, and nothing they do later finds the link.
LinkLost ==
    /\ link # "down"
    /\ link' = "down"
    /\ pool' = {}
    /\ active' = {}
    /\ single' = None
    /\ opening' = None
    /\ downEnd' = [s \in Streams |-> "none"]
    /\ UNCHANGED <<policy, tableVars, requestVars, upEnd>>

\* 'readable' on a stream of the pool: a request, or the end of the stream.
StreamReadable(s) ==
    /\ policy
    /\ downEnd[s] = "open"
    /\ s \notin active
    /\ upEnd[s] # "open" \/ \E r \in Requests : request[r] = "running" /\ assigned[r] = s
    /\ active' = active \cup {s}
    /\ IF opening = None THEN Maintain(pool, active', downEnd)
       ELSE UNCHANGED <<opening, downEnd>>
    /\ UNCHANGED <<policy, tableVars, requestVars, upEnd, link, pool, single>>

\* The response is complete or failed, or the other end has closed.
StreamCloses(s) ==
    /\ downEnd[s] = "open"
    /\ upEnd[s] # "open" \/ \E r \in Requests : request[r] = "running" /\ assigned[r] = s
    /\ downEnd' = [downEnd EXCEPT ![s] = "closed"]
    /\ UNCHANGED <<policy, tableVars, requestVars, upEnd, linkVars>>

\* replenishUpstreamRequestStream, when the stream has closed and its request is
\* finished.
FaultyReplenish(s) ==
    /\ pool' = pool \ {s}
    /\ active' = active \ {s}
    /\ downEnd' = [downEnd EXCEPT ![s] = "none"]
    /\ UNCHANGED opening

Replenish(s) ==
    LET ends == [downEnd EXCEPT ![s] = "none"]
    IN  IF policy /\ link = "up"
        THEN /\ pool' = pool \ {s}
             /\ active' = active \ {s}
             /\ IF opening = None THEN Maintain(pool', active', ends)
                ELSE downEnd' = ends /\ UNCHANGED opening
        ELSE /\ IF link = "up" /\ single = s THEN Open(ends)
                ELSE downEnd' = ends /\ UNCHANGED opening
             /\ UNCHANGED <<pool, active>>

StreamCloseEvent(s) ==
    /\ downEnd[s] = "closed"
    /\ Replenish(s)
    /\ UNCHANGED <<policy, tableVars, requestVars, upEnd, link, single>>

-----------------------------------------------------------------------------
(* The upstream Host: streams *)

Grant(r, s) ==
    /\ request' = [request EXCEPT ![r] = "granted"]
    /\ assigned' = [assigned EXCEPT ![r] = s]

Reject(r) == request' = [request EXCEPT ![r] = "idle"] /\ UNCHANGED assigned

\* waiter.resolve: a request that queued before the pool was known insists on the
\* latest stream, and is rejected otherwise.
ResolveWaiter(w, s, latest) ==
    /\ IF w.pooled \/ latest = s THEN Grant(w.request, s) ELSE Reject(w.request)
    /\ requestBusy' = (~w.pooled /\ latest = s)

FaultyResolveNext(known, streams, busy, latest) ==
    /\ busyStreams' = busy
    /\ requestBusy' = FALSE
    /\ UNCHANGED <<waiters, request, assigned>>

\* resolveNextFederatedRequestStreamWaiter, for an entry whose latest stream is
\* not in use: from the pool if the entry has one, else the latest stream.
ResolveNext(known, streams, busy, latest) ==
    IF waiters = <<>> \/ (known /\ Usable(streams, busy) = {})
    THEN /\ busyStreams' = busy
         /\ requestBusy' = FALSE
         /\ UNCHANGED <<waiters, request, assigned>>
    ELSE /\ waiters' = Tail(waiters)
         /\ IF known
            THEN \E s \in Streams : /\ IsFirst(s, streams, busy)
                                    /\ busyStreams' = busy \cup {s}
                                    /\ ResolveWaiter(Head(waiters), s, latest)
            ELSE /\ busyStreams' = busy
                 /\ IF latest # None /\ upEnd'[latest] = "open"
                    THEN Grant(Head(waiters).request, latest) /\ requestBusy' = TRUE
                    ELSE Reject(Head(waiters).request) /\ requestBusy' = FALSE

\* handleHostFederationRequestStream.
AttachStream(s) ==
    /\ linked
    /\ downEnd[s] = "opening"
    /\ downEnd' = [downEnd EXCEPT ![s] = "answered"]
    /\ upEnd' = [upEnd EXCEPT ![s] = "open"]
    /\ requestPool' = policy
    /\ requestStreams' = IF policy THEN Append(requestStreams, s) ELSE requestStreams
    /\ requestStream' = s
    /\ ResolveNext(policy, requestStreams', busyStreams, s)
    /\ UNCHANGED <<policy, linked, live, left, linkVars>>

\* The downstream end has closed.
UpEndCloses(s) ==
    /\ upEnd[s] = "open"
    /\ downEnd[s] \in {"closed", "none"}
    /\ upEnd' = [upEnd EXCEPT ![s] = "closed"]
    /\ UNCHANGED <<policy, tableVars, requestVars, linkVars, downEnd>>

\* The 'close' event of the upstream end: the handler looks its entry up again and
\* may find that of a later link.
UpEndCloseEvent(s) ==
    /\ upEnd[s] = "closed"
    /\ upEnd' = [upEnd EXCEPT ![s] = "none"]
    /\ requestStream' = IF requestStream = s THEN None ELSE requestStream
    /\ requestStreams' = Without(requestStreams, s)
    /\ IF policy /\ linked
       THEN ResolveNext(requestPool, requestStreams', busyStreams \ {s}, requestStream')
       ELSE /\ busyStreams' = busyStreams \ {s}
            /\ requestBusy' = (requestBusy /\ requestStream # s)
            /\ UNCHANGED <<waiters, request, assigned>>
    /\ left' = [left EXCEPT ![s] = "no"]
    /\ UNCHANGED <<policy, linked, requestPool, live, linkVars, downEnd>>

\* removeInboundFederationHost: the waiters fail.
RemoveInboundHost ==
    /\ linked
    /\ linked' = FALSE
    /\ NoEntry
    /\ waiters' = <<>>
    /\ request' = [r \in Requests |-> IF request[r] = "waiting" THEN "idle" ELSE request[r]]
    /\ UNCHANGED <<policy, live, assigned, left, linkVars, downEnd>>

\* It runs when the route stream closes, at first without the other streams ...
RouteStreamCloses == RemoveInboundHost /\ UNCHANGED upEnd

\* ... or when the whole session does.
SessionCloses ==
    /\ RemoveInboundHost
    /\ upEnd' = [s \in Streams |-> IF upEnd[s] = "open" THEN "closed" ELSE upEnd[s]]

-----------------------------------------------------------------------------
(* The upstream Host: requests *)

\* acquireFederatedRequestStream with a stream that can be used.
AcquirePooled(r) ==
    /\ request[r] = "idle"
    /\ linked /\ requestPool
    /\ UNCHANGED upEnd
    /\ \E s \in Streams : /\ IsFirst(s, requestStreams, busyStreams)
                          /\ Grant(r, s)
                          /\ busyStreams' = busyStreams \cup {s}
    /\ live' = [live EXCEPT ![r] = TRUE]
    /\ UNCHANGED <<policy, linked, requestPool, requestStreams, requestStream, requestBusy,
                   waiters, left, linkVars, downEnd>>

SingleFree == requestStream # None /\ upEnd[requestStream] = "open" /\ ~requestBusy

AcquireSingle(r) ==
    /\ request[r] = "idle"
    /\ linked /\ ~requestPool
    /\ SingleFree
    /\ Grant(r, requestStream)
    /\ requestBusy' = TRUE
    /\ live' = [live EXCEPT ![r] = TRUE]
    /\ UNCHANGED <<policy, linked, requestPool, requestStreams, busyStreams, requestStream,
                   waiters, left, upEnd, linkVars, downEnd>>

\* Without one the request queues, unless the queue of the pool is full.
Queue(r) ==
    /\ request[r] = "idle"
    /\ linked
    /\ UNCHANGED upEnd
    /\ IF requestPool
       THEN Usable(requestStreams, busyStreams) = {} /\ Len(waiters) < MaxQueued
       ELSE ~SingleFree
    /\ request' = [request EXCEPT ![r] = "waiting"]
    /\ live' = [live EXCEPT ![r] = TRUE]
    /\ waiters' = Append(waiters, [request |-> r, pooled |-> requestPool])
    /\ UNCHANGED <<policy, tableVars, assigned, left, linkVars, downEnd>>

Leave(r) ==
    /\ \E w \in Elements(waiters) : w.request = r /\ waiters' = Without(waiters, w)
    /\ request' = [request EXCEPT ![r] = "idle"]

Timeout(r) ==
    /\ request[r] = "waiting"
    /\ Leave(r)
    /\ UNCHANGED <<policy, tableVars, live, assigned, left, upEnd, linkVars, downEnd>>

PoolWaiter(r) == \E w \in Elements(waiters) : w.request = r /\ w.pooled

\* The caller gives up: a waiter for the pool listens to that, and the request of a
\* remote Broker asks after its wait.
Cancel(r) ==
    /\ request[r] \in {"waiting", "granted"}
    /\ live[r]
    /\ \/ PoolWaiter(r) /\ Leave(r) /\ UNCHANGED live
       \/ /\ ~PoolWaiter(r) /\ r \notin LocalRequests
          /\ live' = [live EXCEPT ![r] = FALSE]
          /\ UNCHANGED <<waiters, request>>
    /\ UNCHANGED <<policy, tableVars, assigned, left, upEnd, linkVars, downEnd>>

\* After the await: the request of a remote Broker that is gone closes its stream,
\* any other is sent.
FaultyReturnStream(s) == UNCHANGED upEnd

ReturnStream(s) == upEnd' = [upEnd EXCEPT ![s] = IF @ = "open" THEN "closed" ELSE @]

ContinueDead(r) ==
    /\ request[r] = "granted"
    /\ ~live[r] /\ r \notin LocalRequests
    /\ ReturnStream(assigned[r])
    /\ request' = [request EXCEPT ![r] = "idle"]
    /\ assigned' = [assigned EXCEPT ![r] = None]
    /\ live' = [live EXCEPT ![r] = TRUE]
    /\ UNCHANGED <<policy, tableVars, waiters, left, linkVars, downEnd>>

ContinueLive(r) ==
    /\ request[r] = "granted"
    /\ live[r] \/ r \in LocalRequests
    /\ request' = [request EXCEPT ![r] = "running"]
    /\ live' = [live EXCEPT ![r] = TRUE]
    /\ UNCHANGED <<policy, tableVars, waiters, assigned, left, upEnd, linkVars, downEnd>>

\* The caller cancels a request that was sent.
CancelRunning(r) ==
    /\ request[r] = "running"
    /\ upEnd[assigned[r]] = "open"
    /\ ReturnStream(assigned[r])
    /\ UNCHANGED <<policy, tableVars, requestVars, linkVars, downEnd>>

\* The response is complete before the request is: nobody ends the upstream end, so
\* the stream stays half-open.  The body of a local request is unpiped from it, that
\* of a remote Broker's is piped on.
ResponseEndsEarly(r) ==
    /\ request[r] = "running"
    /\ upEnd[assigned[r]] = "open" /\ downEnd[assigned[r]] = "open"
    /\ policy => assigned[r] \in active
    /\ request' = [request EXCEPT ![r] = "idle"]
    /\ assigned' = [assigned EXCEPT ![r] = None]
    /\ left' = [left EXCEPT ![assigned[r]] = IF r \in LocalRequests THEN "unpiped" ELSE "piped"]
    /\ UNCHANGED <<policy, tableVars, waiters, live, upEnd, linkVars, downEnd>>

\* The body of a remote Broker's request comes to its end, or fails.
UploadEnds(s) ==
    /\ left[s] = "piped" /\ upEnd[s] = "open"
    /\ ReturnStream(s)
    /\ UNCHANGED <<policy, tableVars, requestVars, linkVars, downEnd>>

\* The request ends with its stream.
RequestEnds(r) ==
    /\ request[r] = "running"
    /\ upEnd[assigned[r]] # "open"
    /\ request' = [request EXCEPT ![r] = "idle"]
    /\ assigned' = [assigned EXCEPT ![r] = None]
    /\ UNCHANGED <<policy, tableVars, waiters, live, left, upEnd, linkVars, downEnd>>

-----------------------------------------------------------------------------
StreamSteps == \E s \in Streams : \/ StreamOpened(s)
                                  \/ StreamReadable(s)
                                  \/ StreamCloses(s)
                                  \/ StreamCloseEvent(s)
                                  \/ AttachStream(s)
                                  \/ UpEndCloses(s)
                                  \/ UpEndCloseEvent(s)
                                  \/ UploadEnds(s)

RequestSteps == \E r \in Requests : \/ AcquirePooled(r)
                                    \/ AcquireSingle(r)
                                    \/ Queue(r)
                                    \/ Timeout(r)
                                    \/ Cancel(r)
                                    \/ ContinueDead(r)
                                    \/ ContinueLive(r)
                                    \/ CancelRunning(r)
                                    \/ ResponseEndsEarly(r)
                                    \/ RequestEnds(r)

LinkSteps == ConnectUpstream \/ LinkLost \/ RouteStreamCloses \/ SessionCloses

Next == StreamSteps \/ RequestSteps \/ LinkSteps

Spec == Init /\ [][Next]_vars

\* Closed streams emit 'close', what one end does reaches the other, and
\* a stream for a link the upstream Host has removed is refused.  Nothing is assumed
\* of handlers and callers.
Fairness ==
    /\ WF_vars(\E s \in Streams : AttachStream(s) \/ StreamOpened(s))
    /\ WF_vars(\E s \in Streams : (StreamCloses(s) /\ upEnd[s] # "open") \/ StreamCloseEvent(s))
    /\ WF_vars(\E s \in Streams : UpEndCloses(s) \/ UpEndCloseEvent(s))
    /\ WF_vars(LinkLost /\ ~linked /\ opening # None /\ downEnd[opening] = "opening")

FairSpec == Spec /\ Fairness

-----------------------------------------------------------------------------
(* The inductive invariant *)

Holds(r, s) == request[r] \in {"granted", "running"} /\ assigned[r] = s

Attached(s) == upEnd[s] # "none"

\* A stream that is being opened is new to the upstream Host.
OpeningIsNew ==
    \A s \in Streams : downEnd[s] = "opening" =>
        upEnd[s] = "none" /\ \A r \in Requests : assigned[r] # s

\* What the entry knows of is a stream whose 'close' event has not come.
EntryKnowsAttached ==
    /\ \A s \in Elements(requestStreams) \cup busyStreams : Attached(s)
    /\ requestStream # None => Attached(requestStream)
    /\ Distinct(requestStreams)

\* The pool is there with its first stream.
EntryShape ==
    /\ requestPool => policy
    /\ ~requestPool => requestStreams = <<>> /\ busyStreams = {}
    /\ policy /\ ~requestPool => requestStream = None

\* A stream is one request's.
OneHolder == \A r, q \in Requests : assigned[r] # None /\ assigned[q] = assigned[r] => q = r

\* Who has an open stream of the entry has it marked as in use.
HeldIsCounted ==
    \A r \in Requests : assigned[r] # None /\ upEnd[assigned[r]] = "open" =>
        /\ assigned[r] \in Elements(requestStreams) => assigned[r] \in busyStreams
        /\ ~requestPool /\ requestStream = assigned[r] => requestBusy

\* And so has an open stream that was left behind.
LeftIsCounted ==
    \A s \in Streams : left[s] # "no" =>
        /\ Attached(s)
        /\ upEnd[s] = "open" =>
             /\ s \in Elements(requestStreams) => s \in busyStreams
             /\ ~requestPool /\ requestStream = s => requestBusy

\* Those in line wait, each once.
QueueSound ==
    /\ \A w \in Elements(waiters) : request[w.request] = "waiting"
    /\ \A i, j \in DOMAIN waiters : waiters[i].request = waiters[j].request => i = j

-----------------------------------------------------------------------------
(* Properties *)

\* The upstream Host's streams as the requests see them.
PairedStream ==
    [s \in Streams |-> IF upEnd[s] # "open" THEN "closed"
                       ELSE IF \E r \in Requests : Holds(r, s) THEN "taken"
                       ELSE IF left[s] # "no" THEN "spent" ELSE "fresh"]

Pool == INSTANCE StreamPairing WITH stream <- PairedStream, holder <- assigned

\* The two Hosts together keep the promise of a pool of single-use streams: no two
\* requests share a stream, and none is given one that is closed or that a request
\* has had, a stream that is still open after its request included.  Every step of
\* theirs is a step of the pool.
SingleUse == Pool!Spec

\* A stream the entry counts as in use is used by some request, or closed, or its
\* response was complete before its request: in no other way a stream is lost to
\* the Host while the other end keeps it open for it.
NoStreamLost ==
    \A s \in Streams :
        /\ upEnd[s] = "open"
        /\ s \in busyStreams \/ (requestStream = s /\ requestBusy)
        => left[s] # "no" \/ \E r \in Requests : Holds(r, s)

\* Who waits is in line, where a stream, the timer or the loss of the link finds it,
\* and nobody waits beside a stream that could serve the request: whenever one comes
\* or closes, the line is looked at.
StreamWaitersServed ==
    /\ \A r \in Requests : request[r] = "waiting" => \E w \in Elements(waiters) : w.request = r
    /\ waiters # <<>> => IF requestPool
                         THEN \A s \in Elements(requestStreams) : s \in busyStreams \/ upEnd[s] # "open"
                         ELSE ~SingleFree

\* The downstream Host replaces streams that are used or gone: while the link stays
\* up, the pool comes to have minWaitingStreams not in use, or is at its limit.
PoolRefills ==
    policy /\ link = "up" /\ Wanted(pool, active) ~> link # "up" \/ ~Wanted(pool, active)

\* Why SingleUse and NoStreamLost hold.
StreamInv ==
    /\ TypeOK /\ OpeningIsNew /\ EntryKnowsAttached /\ EntryShape /\ OneHolder
    /\ HeldIsCounted /\ LeftIsCounted /\ QueueSound /\ StreamWaitersServed /\ NoStreamLost
=============================================================================
