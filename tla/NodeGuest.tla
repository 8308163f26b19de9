------------------------------- MODULE NodeGuest -------------------------------
(***************************************************************************)
(* Http2VerserNodeGuest of packages/verser2-guest-node/src/lib/            *)
(* http2-verser-node-guest.ts: one Guest object connects, registers, keeps *)
(* a pool of lease streams open on its session, serves one request on each *)
(* and closes, possibly to connect again.                                  *)
(*                                                                         *)
(* Sessions and streams are closed first and emit 'close' later; the       *)
(* handlers of these events act on this.session and this.leaseStreams,     *)
(* whichever session those belong to by then.                              *)
(***************************************************************************)
EXTENDS Integers, FiniteSets

CONSTANTS Sessions,      \* HTTP/2 client sessions
          Leases,        \* lease streams; the IDs are never used twice, here one
                         \* stands for the next stream once its own is gone
          None,          \* "undefined"
          MinWaiting,    \* minWaitingStreams
          MaxOpen        \* maxOpenStreams

ASSUME NodeGuestAssumption ==
    /\ IsFiniteSet(Leases)
    /\ None \notin Sessions
    /\ MinWaiting \in Nat /\ MaxOpen \in Nat

VARIABLES
    session,      \* state of each session
    current,      \* this.session
    closing,      \* this.closing
    call,         \* how far the connect() that opened the session is
    via,          \* the session that call registers over
    leaseStreams, \* the leases in the map this.leaseStreams
    state,        \* lease.state, also of a lease that is not in the map any more
    stream,       \* state of each lease stream
    on            \* the session each lease stream was opened on

sessionVars == <<session, current, closing, call, via>>

leaseVars == <<leaseStreams, state, stream, on>>

poolVars == <<sessionVars, leaseVars>>

-----------------------------------------------------------------------------
(* Types *)

PoolTypeOK ==
    /\ session \in [Sessions -> {"unused", "connecting", "open", "closed"}]
    /\ current \in Sessions \cup {None}
    /\ closing \in BOOLEAN
    /\ call \in [Sessions -> {"none", "connecting", "registering", "registered", "failed"}]
    /\ via \in [Sessions -> Sessions \cup {None}]
    /\ leaseStreams \in SUBSET Leases
    /\ state \in [Leases -> {"opening", "waiting", "active"}]
    /\ stream \in [Leases -> {"unused", "open", "closed"}]
    /\ on \in [Leases -> Sessions \cup {None}]

-----------------------------------------------------------------------------
(* The lease pool.  An operator named Faulty... is a wrong variant of the      *)
(* operator after it, kept to show which property notices; nothing uses it.  *)

Ready(pool, states) == Cardinality({l \in pool : states[l] \in {"opening", "waiting"}})

\* How many streams the loop of maintainLeasePool opens.
Missing(pool, states) ==
    LET wanted == MinWaiting - Ready(pool, states)
        room == MaxOpen - Cardinality(pool)
    IN  IF wanted <= 0 \/ room <= 0 THEN 0 ELSE IF wanted <= room THEN wanted ELSE room

\* connected: the session exists and is neither closed nor destroyed.
Connected == current # None /\ session[current] \in {"connecting", "open"}

\* maintainLeasePool, which follows a change of the map, of the leases' states and
\* of the streams to the given values.
MaintainLeasePool(pool, states, streams) ==
    IF closing \/ ~Connected
    THEN leaseStreams' = pool /\ state' = states /\ stream' = streams /\ on' = on
    ELSE \E new \in SUBSET {l \in Leases : streams[l] = "unused"} :
           /\ Cardinality(new) = Missing(pool, states)
           /\ leaseStreams' = pool \cup new
           /\ state' = [l \in Leases |-> IF l \in new THEN "opening" ELSE states[l]]
           /\ stream' = [l \in Leases |-> IF l \in new THEN "open" ELSE streams[l]]
           /\ on' = [l \in Leases |-> IF l \in new THEN current ELSE on[l]]

\* The streams after those in S were closed.
Close(S) == [l \in Leases |-> IF l \in S /\ stream[l] = "open" THEN "closed" ELSE stream[l]]

-----------------------------------------------------------------------------
PoolInit ==
    /\ session = [s \in Sessions |-> "unused"]
    /\ current = None
    /\ closing = FALSE
    /\ call = [s \in Sessions |-> "none"]
    /\ via = [s \in Sessions |-> None]
    /\ leaseStreams = {}
    /\ state = [l \in Leases |-> "opening"]
    /\ stream = [l \in Leases |-> "unused"]
    /\ on = [l \in Leases |-> None]

-----------------------------------------------------------------------------
(* connect() *)

\* A Guest that is connected returns at once; one whose session is closed replaces
\* it, also before that session's 'close' event.
Connect(s) ==
    /\ ~Connected
    /\ session[s] = "unused"
    /\ session' = [session EXCEPT ![s] = "connecting"]
    /\ call' = [call EXCEPT ![s] = "connecting"]
    /\ current' = s
    /\ closing' = FALSE
    /\ UNCHANGED <<via, leaseVars>>

\* The 'connect' event, and register() over whatever this.session is by then.
SessionConnects(s) ==
    /\ session[s] = "connecting"
    /\ session' = [session EXCEPT ![s] = "open"]
    /\ call' = [call EXCEPT ![s] = IF Connected THEN "registering" ELSE "failed"]
    /\ via' = [via EXCEPT ![s] = current]
    /\ UNCHANGED <<current, closing, leaseVars>>

\* The Host registers the Guest, over a session that may be closing by then: the
\* control stream is opened on the session of this call, which must be open, and
\* the pool is filled.
HostRegisters(s) ==
    /\ call[s] = "registering"
    /\ session[via[s]] # "connecting"
    /\ session[s] = "open"
    /\ call' = [call EXCEPT ![s] = "registered"]
    /\ MaintainLeasePool(leaseStreams, state, stream)
    /\ UNCHANGED <<session, current, closing, via>>

\* The Host refuses, or the session of this call is closed when it registers it:
\* connect() rejects.  The session stays as it is.
RegistrationFails(s) ==
    /\ call[s] = "registering"
    /\ call' = [call EXCEPT ![s] = "failed"]
    /\ UNCHANGED <<session, current, closing, via, leaseVars>>

-----------------------------------------------------------------------------
(* Sessions close *)

\* The connection breaks, or the Host ends it, also of a session that is closing:
\* the streams go with it, those of registrations too.
SessionCloses(s) ==
    /\ session[s] # "unused"
    /\ session' = [session EXCEPT ![s] = "closed"]
    /\ stream' = Close({l \in Leases : on[l] = s})
    /\ call' = [t \in Sessions |-> IF call[t] = "registering" /\ via[t] = s THEN "failed"
                                  ELSE call[t]]
    /\ UNCHANGED <<current, closing, via, leaseStreams, state, on>>

ForgetLeases == leaseStreams' = {}

RegistersOver(s) == \E t \in Sessions : call[t] = "registering" /\ via[t] = s

\* The 'close' event of a session, once all its streams are closed.
SessionCloseEvent(s) ==
    /\ session[s] = "closed"
    /\ ~RegistersOver(s)
    /\ \A l \in Leases : on[l] = s => stream[l] # "open"
    /\ session' = [session EXCEPT ![s] = "unused"]
    /\ call' = [call EXCEPT ![s] = "none"]
    /\ current' = None
    /\ via' = [via EXCEPT ![s] = None]
    /\ ForgetLeases
    /\ UNCHANGED <<closing, state, stream, on>>

\* close(): the leases in the map are closed and forgotten, the session closes
\* when its last stream has.
FaultyClosable == {l \in leaseStreams : state[l] # "active"}

Closable == leaseStreams

GuestClose ==
    /\ current # None
    /\ closing' = TRUE
    /\ stream' = Close(Closable)
    /\ ForgetLeases
    /\ session' = [session EXCEPT ![current] = "closed"]
    /\ UNCHANGED <<current, call, via, state, on>>

-----------------------------------------------------------------------------
(* Lease streams *)

\* The Host answers 200.
Mark(l, value) == [state EXCEPT ![l] = value]

LeaseAccepted(l) ==
    /\ stream[l] = "open"
    /\ state[l] = "opening"
    /\ MaintainLeasePool(leaseStreams, Mark(l, "waiting"), stream)
    /\ UNCHANGED sessionVars

\* Another answer, or none in time: the Guest closes the stream, or the Host does.
LeaseRefused(l) ==
    /\ stream[l] = "open"
    /\ state[l] = "opening"
    /\ stream' = Close({l})
    /\ UNCHANGED <<sessionVars, leaseStreams, state, on>>

\* The metadata of a request: the lease is active until its stream closes.  The
\* pool is not maintained.
RequestArrives(l) ==
    /\ stream[l] = "open"
    /\ state[l] = "waiting"
    /\ state' = Mark(l, "active")
    /\ UNCHANGED <<sessionVars, leaseStreams, stream, on>>

\* The response is complete, the request failed, or the Host closed the stream.
LeaseStreamCloses(l) ==
    /\ stream[l] = "open"
    /\ state[l] # "opening"
    /\ stream' = Close({l})
    /\ UNCHANGED <<sessionVars, leaseStreams, state, on>>

\* The 'close' event of a lease stream.
FaultyRefill(l) ==
    /\ leaseStreams' = leaseStreams \ {l}
    /\ stream' = [stream EXCEPT ![l] = "unused"]
    /\ UNCHANGED <<state, on>>

Refill(l) ==
    MaintainLeasePool(leaseStreams \ {l}, Mark(l, "opening"), [stream EXCEPT ![l] = "unused"])

LeaseCloseEvent(l) ==
    /\ stream[l] = "closed"
    /\ Refill(l)
    /\ UNCHANGED sessionVars

-----------------------------------------------------------------------------
SessionSteps == \E s \in Sessions : \/ Connect(s)
                                    \/ SessionConnects(s)
                                    \/ HostRegisters(s)
                                    \/ RegistrationFails(s)
                                    \/ SessionCloses(s)
                                    \/ SessionCloseEvent(s)

LeaseSteps == \E l \in Leases : \/ LeaseAccepted(l)
                                \/ LeaseRefused(l)
                                \/ RequestArrives(l)
                                \/ LeaseStreamCloses(l)
                                \/ LeaseCloseEvent(l)

PoolNext == SessionSteps \/ GuestClose \/ LeaseSteps

PoolSpec == PoolInit /\ [][PoolNext]_poolVars

\* Closed streams and sessions emit 'close'.  Nothing is assumed of the Host, the
\* application or the attached handler, which may never finish a request.
PoolFairness == /\ \A s \in Sessions : WF_poolVars(SessionCloseEvent(s))
            /\ \A l \in Leases : WF_poolVars(LeaseCloseEvent(l))

PoolFairSpec == PoolSpec /\ PoolFairness

-----------------------------------------------------------------------------
(* Properties *)

\* A registered Guest never loses a place of its pool: it has minWaitingStreams
\* streams (or maxOpenStreams, if that is less) that are opening, waiting, busy
\* with a request, or whose 'close' event is still to come and will replace them.
PoolKeepsItsSize ==
    Connected /\ ~closing /\ call[current] = "registered"
        => Cardinality(leaseStreams) >= MinWaiting \/ Cardinality(leaseStreams) >= MaxOpen

\* close() returns: the session emits 'close' although a handler never finishes,
\* unless it is registering and the Host does not answer.
CloseReturns == closing /\ ~RegistersOver(current) ~> current = None \/ ~closing
-----------------------------------------------------------------------------
(* The inductive invariant *)

\* A lease is deleted from the map no later than its stream emits 'close', so that
\* a stream the loop opens is never one the map has already.
MapHoldsStreams == \A l \in leaseStreams : stream[l] # "unused"

PoolInv == PoolTypeOK /\ MapHoldsStreams /\ PoolKeepsItsSize
=============================================================================
