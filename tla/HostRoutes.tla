------------------------------ MODULE HostRoutes ------------------------------
(***************************************************************************)
(* One Host's Guest registrations, its table of local routes, and what the *)
(* connected Brokers are told about it: registerPeer, attachLocalGuest,    *)
(* removeSessionPeers, detachLocalPeer, handleGuestRevocation and close of *)
(* node-http2-verser-host.ts, the local half of route-registry.ts,         *)
(* degraded-route-cleanup.ts, and the Brokers' route snapshots             *)
(* (local-peers.ts, verser2-guest-node http2-verser-broker.ts).            *)
(*                                                                         *)
(* A registration awaits the authorization callback between its checks and *)
(* its effect; sessions close, other Guests register and the Host closes   *)
(* meanwhile.  A closed session emits 'close' later.  A Broker connected   *)
(* over HTTP/2 reads its control frames in order but late; a local Broker  *)
(* is updated in place.                                                    *)
(***************************************************************************)
EXTENDS Integers, Sequences

CONSTANTS Guests,         \* Guest peer IDs
          Domains,        \* routed domains
          Sessions,       \* HTTP/2 sessions of Guests and handles of local Guests
          Brokers,        \* Broker peer IDs
          LocalBrokers,   \* those attached in process
          Registrations,  \* the sets of domains a Guest may register
          None,           \* "undefined"
          MaxFrames       \* bound: unread control frames of a Broker

ASSUME HostRoutesAssumption ==
    /\ Registrations \subseteq SUBSET Domains
    /\ LocalBrokers \subseteq Brokers
    /\ None \notin Sessions \cup Guests \cup Domains
    /\ MaxFrames \in Nat

VARIABLES
    running,      \* Host.server # undefined
    session,      \* state of each session or local handle
    claim,        \* what the registration on the session asked for
    admission,    \* how far that registration is
    invalid,      \* admissions overtaken by Host.close (lifecycleGeneration)
    peers,        \* Host.peers: the session each Guest is registered with
    localRoutes,  \* HostRouteRegistry.localRoutes
    degraded,     \* HostRouteRegistry.degradedRoutes
    elapsed,      \* Guests whose degraded entry is past its timeout
    timer,        \* DegradedRouteCleanup.timer is set
    joined,       \* connected Brokers
    channel,      \* unread control frames of each Broker
    view,         \* Broker.routes
    heard,        \* the routes the Broker's route-change listeners take for degraded:
                  \* told over this connection, or before it and not corrected since
    waiting       \* domains with a pending waitForRoute

hostVars == <<running, session, claim, admission, invalid, peers>>

tableVars == <<localRoutes, degraded, elapsed, timer>>

brokerVars == <<joined, channel, view, heard, waiting>>

vars == <<hostVars, tableVars, brokerVars>>

-----------------------------------------------------------------------------
(* Types *)

\* A Map without the key: no session of a Guest, no list of routed domains.
NoSession == None

NoEntry == {None}

Entries == (SUBSET Domains) \cup {NoEntry}

Routes == Guests \X Domains

Claims == [guest : Guests, domains : Registrations, local : BOOLEAN]

NoClaim == [guest |-> None, domains |-> {}, local |-> FALSE]

\* A snapshot frame replaces the Broker's routes; a lifecycle frame lists the
\* routes that are now active (added, changed), degraded or removed.
Frames == [type : {"routes"}, routes : SUBSET Routes]
            \cup [type : {"route-lifecycle"}, active : SUBSET Routes,
                  degraded : SUBSET Routes, removed : SUBSET Routes]

TypeOK ==
    /\ running \in BOOLEAN
    /\ session \in [Sessions -> {"unused", "open", "closed", "gone"}]
    /\ claim \in [Sessions -> Claims \cup {NoClaim}]
    /\ admission \in [Sessions -> {"none", "authorizing", "admitted", "rejected"}]
    /\ invalid \subseteq Sessions
    /\ peers \in [Guests -> Sessions \cup {NoSession}]
    /\ localRoutes \in [Guests -> Entries]
    /\ degraded \in [Guests -> Entries]
    /\ elapsed \subseteq Guests
    /\ timer \in BOOLEAN
    /\ joined \subseteq Brokers
    /\ channel \in [Brokers -> Seq(Frames)]
    /\ view \in [Brokers -> SUBSET Routes]
    /\ heard \in [Brokers -> [before : SUBSET Routes, degraded : SUBSET Routes]]
    /\ waiting \in [Brokers -> SUBSET Domains]

-----------------------------------------------------------------------------
(* The route table.  An operator named Faulty... is a wrong variant of the     *)
(* operator after it, kept to show which property notices; nothing uses it.  *)

EntryRoutes(table, g) == {<<g, d>> : d \in table[g] \cap Domains}

\* getBrokerRoutes: active routes and degraded ones, each once.
BrokerRoutes(active, lost) ==
    UNION {EntryRoutes(active, g) \cup EntryRoutes(lost, g) : g \in Guests}

\* Those of them that are degraded.
DegradedRoutes(lost) == UNION {EntryRoutes(lost, g) : g \in Guests}

\* getDegradedBrokerRoutesForPeer(g).length > 0: an empty entry does not count.
HasDegraded(g) == EntryRoutes(degraded, g) # {}

\* hasAnyDegradedRoutes counts entries, empty ones included.
AnyEntry(table) == \E g \in Guests : table[g] # NoEntry

\* setDegraded: without local entry, or with a degraded one, nothing moves.
CanDegrade(g) == localRoutes[g] # NoEntry /\ degraded[g] = NoEntry

SetDegraded(g) ==
    /\ degraded' = [degraded EXCEPT ![g] = IF CanDegrade(g) THEN localRoutes[g] ELSE @]
    /\ localRoutes' = [localRoutes EXCEPT ![g] = IF CanDegrade(g) THEN NoEntry ELSE @]
    /\ elapsed' = IF CanDegrade(g) THEN elapsed \ {g} ELSE elapsed

-----------------------------------------------------------------------------
(* What Brokers are told *)

Snapshot(routes) == [type |-> "routes", routes |-> routes]

Lifecycle(active, lost, removed) ==
    [type |-> "route-lifecycle", active |-> active, degraded |-> lost, removed |-> removed]

\* The route snapshot after one frame (handleControlFrame of a remote Broker;
\* emitLocalBrokerRouteChange and updateLocalBrokerRoutes of a local one) ...
ViewAfter(v, f) ==
    IF f.type = "routes" THEN f.routes ELSE (v \ f.removed) \cup f.active \cup f.degraded

\* ... and the waitForRoute calls that are still pending ...
WaitingAfter(w, f) ==
    w \ {r[2] : r \in (IF f.type = "routes" THEN f.routes ELSE f.active)}

\* ... and what the route-change events leave its listeners with: a snapshot
\* tells them of routes that are new or gone, never that one is degraded or not.
HeardAfter(h, f) ==
    IF f.type = "routes"
    THEN [before |-> h.before \cap f.routes, degraded |-> h.degraded \cap f.routes]
    ELSE [before |-> h.before \ (f.removed \cup f.active \cup f.degraded),
          degraded |-> (h.degraded \ (f.removed \cup f.active)) \cup f.degraded]

\* advertiseRouteLifecycleEvents(events), which sends nothing for no events,
\* then advertiseRoutes().  A local Broker applies both at once, and its
\* snapshot update emits no events.
Announce(event, routes) ==
    LET frames == IF event.active \cup event.degraded \cup event.removed = {}
                  THEN <<Snapshot(routes)>> ELSE <<event, Snapshot(routes)>>
        local == joined \cap LocalBrokers
    IN  /\ channel' = [b \in Brokers |-> IF b \in joined \ LocalBrokers
                                         THEN channel[b] \o frames ELSE channel[b]]
        /\ view' = [b \in Brokers |-> IF b \in local THEN routes ELSE view[b]]
        /\ heard' = [b \in Brokers |-> IF b \in local THEN HeardAfter(heard[b], event)
                                       ELSE heard[b]]
        /\ waiting' = [b \in Brokers |->
                         IF b \in local
                         THEN WaitingAfter(WaitingAfter(waiting[b], event), Snapshot(routes))
                         ELSE waiting[b]]
        /\ UNCHANGED joined

FaultyAnnounceTable(event) == Announce(event, BrokerRoutes(localRoutes, degraded))

AnnounceTable(event) == Announce(event, BrokerRoutes(localRoutes', degraded'))

CanAnnounce == \A b \in Brokers : Len(channel[b]) + 2 <= MaxFrames

-----------------------------------------------------------------------------
(* Initial state: a Host that was constructed, not started *)

Init ==
    /\ running = FALSE
    /\ session = [s \in Sessions |-> "unused"]
    /\ claim = [s \in Sessions |-> NoClaim]
    /\ admission = [s \in Sessions |-> "none"]
    /\ invalid = {}
    /\ peers = [g \in Guests |-> NoSession]
    /\ localRoutes = [g \in Guests |-> NoEntry]
    /\ degraded = [g \in Guests |-> NoEntry]
    /\ elapsed = {}
    /\ timer = FALSE
    /\ joined = {}
    /\ channel = [b \in Brokers |-> <<>>]
    /\ view = [b \in Brokers |-> {}]
    /\ heard = [b \in Brokers |-> [before |-> {}, degraded |-> {}]]
    /\ waiting = [b \in Brokers |-> {}]

-----------------------------------------------------------------------------
(* Registration of Guests *)

\* The first half of registerPeer and attachLocalGuest: a Guest ID in use is
\* refused, otherwise the authorization callback is awaited.  A Host that is
\* not running has no sessions, but Guests can be attached to it locally.
BeginAdmission(s, c) ==
    /\ session[s] = "unused"
    /\ ~c.local => running
    /\ session' = [session EXCEPT ![s] = "open"]
    /\ claim' = [claim EXCEPT ![s] = c]
    /\ admission' = [admission EXCEPT
                       ![s] = IF peers[c.guest] = NoSession THEN "authorizing" ELSE "rejected"]
    /\ UNCHANGED <<running, invalid, peers, tableVars, brokerVars>>

\* The callback refuses: a remote session is closed.
AdmissionDenied(s) ==
    /\ admission[s] = "authorizing"
    /\ admission' = [admission EXCEPT ![s] = "rejected"]
    /\ session' = [session EXCEPT ![s] = IF @ = "open" THEN "closed" ELSE @]
    /\ UNCHANGED <<running, claim, invalid, peers, tableVars, brokerVars>>

\* The checks are repeated after the wait: Host shutdown, the session, the ID.
FaultyMayPublish(s) == s \notin invalid /\ peers[claim[s].guest] = NoSession

MayPublish(s) ==
    /\ s \notin invalid
    /\ session[s] = "open"
    /\ peers[claim[s].guest] = NoSession

AdmissionDropped(s) ==
    /\ admission[s] = "authorizing"
    /\ ~MayPublish(s)
    /\ admission' = [admission EXCEPT ![s] = "rejected"]
    /\ UNCHANGED <<running, session, claim, invalid, peers, tableVars, brokerVars>>

\* Re-registration over degraded routes: the new list is authoritative, and the
\* cleanup timer stops when no degraded entry is left.
RestoreRoutes(g, new) ==
    /\ degraded' = [degraded EXCEPT ![g] = NoEntry]
    /\ localRoutes' = [localRoutes EXCEPT ![g] = IF new = {} THEN NoEntry ELSE new]
    /\ elapsed' = elapsed \ {g}
    /\ timer' = (timer /\ AnyEntry(degraded'))

\* The lifecycle events of a re-registration: the diff of the two lists.
FaultyRestoreEvent(g, new) ==
    LET old == degraded[g]
    IN  Lifecycle({<<g, d>> : d \in new \ old}, {}, {<<g, d>> : d \in old \ new})

RestoreEvent(g, new) ==
    LET old == degraded[g]
    IN  Lifecycle({<<g, d>> : d \in new}, {}, {<<g, d>> : d \in old \ new})

\* A fresh registration sets the list; only a local Guest's is announced with
\* events, a remote Guest's routes appear in the snapshot alone.
FreshEvent(s) ==
    LET c == claim[s]
    IN  Lifecycle(IF c.local THEN {<<c.guest, d>> : d \in c.domains} ELSE {}, {}, {})

\* The second half of registerPeer and attachLocalGuest.
PublishRestored(s) ==
    LET c == claim[s]
    IN  /\ HasDegraded(c.guest)
        /\ RestoreRoutes(c.guest, c.domains)
        /\ AnnounceTable(RestoreEvent(c.guest, c.domains))

PublishFresh(s) ==
    LET c == claim[s]
    IN  /\ ~HasDegraded(c.guest)
        /\ localRoutes' = [localRoutes EXCEPT ![c.guest] = c.domains]
        /\ UNCHANGED <<degraded, elapsed, timer>>
        /\ AnnounceTable(FreshEvent(s))

RegisterGuest(s) ==
    /\ admission[s] = "authorizing"
    /\ MayPublish(s)
    /\ CanAnnounce
    /\ admission' = [admission EXCEPT ![s] = "admitted"]
    /\ peers' = [peers EXCEPT ![claim[s].guest] = s]
    /\ PublishRestored(s) \/ PublishFresh(s)
    /\ UNCHANGED <<running, session, claim, invalid>>

-----------------------------------------------------------------------------
(* Guests leave *)

\* What removeSessionPeers and detachLocalPeer do to the routes of g.
DegradeRoutes(g) ==
    LET lost == EntryRoutes(degraded', g)
    IN  /\ SetDegraded(g)
        /\ timer' = (timer \/ lost # {})
        /\ AnnounceTable(Lifecycle({}, lost, {}))

\* The session closes: session.closed is true, its 'close' event is pending.
SessionCloses(s) ==
    /\ session[s] = "open"
    /\ ~claim[s].local
    /\ session' = [session EXCEPT ![s] = "closed"]
    /\ UNCHANGED <<running, claim, admission, invalid, peers, tableVars, brokerVars>>

\* The 'close' event: removeSessionPeers.
SessionCloseEvent(s) ==
    /\ session[s] = "closed"
    /\ ~claim[s].local
    /\ CanAnnounce
    /\ session' = [session EXCEPT ![s] = "gone"]
    /\ IF peers[claim[s].guest] = s
       THEN /\ peers' = [peers EXCEPT ![claim[s].guest] = NoSession]
            /\ DegradeRoutes(claim[s].guest)
       ELSE UNCHANGED <<peers, tableVars, brokerVars>>
    /\ UNCHANGED <<running, claim, admission, invalid>>

\* handle.close() of a local Guest: detachLocalPeer goes by the ID, and finds
\* whichever local Guest has it now.
CloseHandle(s) ==
    LET g == claim[s].guest
    IN  /\ claim[s].local
        /\ admission[s] = "admitted"
        /\ session[s] = "open"
        /\ CanAnnounce
        /\ session' = [session EXCEPT ![s] = "gone"]
        /\ IF peers[g] # NoSession /\ claim[peers[g]].local
           THEN /\ peers' = [peers EXCEPT ![g] = NoSession]
                /\ DegradeRoutes(g)
           ELSE UNCHANGED <<peers, tableVars, brokerVars>>
        /\ UNCHANGED <<running, claim, admission, invalid>>

-----------------------------------------------------------------------------
(* Revocation and expiry *)

\* revokeRoutes, which drops a list that becomes (or was) empty, and the
\* announcement of what it removed.
RevokeRoutes(g, domains) ==
    LET revoked == localRoutes[g] \cap domains
    IN  /\ localRoutes' = [localRoutes EXCEPT
                             ![g] = IF @ = revoked THEN NoEntry ELSE @ \ revoked]
        /\ UNCHANGED <<degraded, elapsed, timer>>
        /\ IF revoked = {} THEN UNCHANGED brokerVars
           ELSE AnnounceTable(Lifecycle({}, {}, {<<g, d>> : d \in revoked}))

\* handleGuestRevocation: from the session the Guest is registered with.
GuestRevokes(s, domains) ==
    /\ ~claim[s].local
    /\ session[s] = "open"
    /\ peers[claim[s].guest] = s
    /\ CanAnnounce
    /\ RevokeRoutes(claim[s].guest, domains)
    /\ UNCHANGED hostVars

\* handle.revokeRoutes() of a local Guest whose handle is not closed.
HandleRevokes(s, domains) ==
    /\ claim[s].local
    /\ admission[s] = "admitted"
    /\ session[s] = "open"
    /\ CanAnnounce
    /\ RevokeRoutes(claim[s].guest, domains)
    /\ UNCHANGED hostVars

\* degradedRouteTimeoutMs passes for the degraded entry of g.
Elapse(g) ==
    /\ degraded[g] # NoEntry
    /\ g \notin elapsed
    /\ elapsed' = elapsed \cup {g}
    /\ UNCHANGED <<hostVars, localRoutes, degraded, timer, brokerVars>>

\* One tick of the cleanup timer: check().
ExpireEvent == Lifecycle({}, {}, UNION {EntryRoutes(degraded, g) : g \in elapsed})

FaultyCleanupTick ==
    /\ timer
    /\ CanAnnounce
    /\ degraded' = [g \in Guests |-> IF g \in elapsed THEN NoEntry ELSE degraded[g]]
    /\ elapsed' = {}
    /\ timer' = FALSE
    /\ UNCHANGED <<hostVars, localRoutes>>
    /\ IF elapsed = {} THEN UNCHANGED brokerVars ELSE AnnounceTable(ExpireEvent)

CleanupTick ==
    /\ timer
    /\ CanAnnounce
    /\ degraded' = [g \in Guests |-> IF g \in elapsed THEN NoEntry ELSE degraded[g]]
    /\ elapsed' = {}
    /\ timer' = AnyEntry(degraded')
    /\ UNCHANGED <<hostVars, localRoutes>>
    /\ IF elapsed = {} THEN UNCHANGED brokerVars ELSE AnnounceTable(ExpireEvent)

-----------------------------------------------------------------------------
(* The Host itself *)

Start ==
    /\ ~running
    /\ running' = TRUE
    /\ UNCHANGED <<session, claim, admission, invalid, peers, tableVars, brokerVars>>

ClearRoutes ==
    /\ localRoutes' = [g \in Guests |-> NoEntry]
    /\ degraded' = [g \in Guests |-> NoEntry]
    /\ elapsed' = {}
    /\ timer' = FALSE

OvertakeAdmissions == invalid' = invalid \cup {s \in Sessions : admission[s] = "authorizing"}

\* close() of a running Host: every session and control stream is closed, local
\* Brokers are closed (their waiters rejected), all maps are cleared.
HostClose ==
    /\ running
    /\ running' = FALSE
    /\ OvertakeAdmissions
    /\ session' = [s \in Sessions |-> IF session[s] = "open" /\ ~claim[s].local
                                      THEN "closed" ELSE session[s]]
    /\ peers' = [g \in Guests |-> NoSession]
    /\ ClearRoutes
    /\ joined' = {}
    /\ channel' = [b \in Brokers |-> <<>>]
    /\ view' = [b \in Brokers |-> IF b \in joined \cap LocalBrokers THEN {} ELSE view[b]]
    /\ waiting' = [b \in Brokers |-> IF b \in joined \cap LocalBrokers THEN {} ELSE waiting[b]]
    /\ UNCHANGED <<claim, admission, heard>>

\* close() of a Host that is not running returns after it cleared the routes.
HostCloseIdle ==
    /\ ~running
    /\ OvertakeAdmissions
    /\ ClearRoutes
    /\ UNCHANGED <<running, session, claim, admission, peers, brokerVars>>

-----------------------------------------------------------------------------
(* Brokers *)

\* A remote Broker's registration is answered with the table; a local Broker's
\* state is created with it, and without listeners.  connect() of a remote Broker
\* keeps the listeners of the object and tells them nothing: what they were told
\* over the last connection stands until a frame corrects it.
BrokerJoins(b) ==
    LET routes == BrokerRoutes(localRoutes, degraded)
        isLocal == b \in LocalBrokers
    IN  /\ b \notin joined
        /\ ~isLocal => running
        /\ joined' = joined \cup {b}
        /\ channel' = [channel EXCEPT ![b] = IF isLocal THEN <<>> ELSE <<Snapshot(routes)>>]
        /\ view' = [view EXCEPT ![b] = IF isLocal THEN routes ELSE @]
        /\ heard' = [heard EXCEPT ![b] = [before |-> IF isLocal THEN {}
                                                     ELSE @.before \cup @.degraded,
                                          degraded |-> {}]]
        /\ UNCHANGED <<hostVars, tableVars, waiting>>

\* The Broker's session or handle closes.  A remote Broker object keeps its
\* last snapshot and its waiters, and may connect again.
BrokerLeaves(b) ==
    LET isLocal == b \in LocalBrokers
    IN  /\ b \in joined
        /\ joined' = joined \ {b}
        /\ channel' = [channel EXCEPT ![b] = <<>>]
        /\ view' = [view EXCEPT ![b] = IF isLocal THEN {} ELSE @]
        /\ waiting' = [waiting EXCEPT ![b] = IF isLocal THEN {} ELSE @]
        /\ UNCHANGED <<hostVars, tableVars, heard>>

\* A remote Broker reads its next control frame.
BrokerReads(b) ==
    /\ channel[b] # <<>>
    /\ channel' = [channel EXCEPT ![b] = Tail(@)]
    /\ view' = [view EXCEPT ![b] = ViewAfter(@, Head(channel[b]))]
    /\ heard' = [heard EXCEPT ![b] = HeardAfter(@, Head(channel[b]))]
    /\ waiting' = [waiting EXCEPT ![b] = WaitingAfter(@, Head(channel[b]))]
    /\ UNCHANGED <<hostVars, tableVars, joined>>

FaultyWaitForRoute(b, d) ==
    /\ b \in joined
    /\ waiting' = [waiting EXCEPT ![b] = @ \cup {d}]
    /\ UNCHANGED <<hostVars, tableVars, joined, channel, view, heard>>

\* waitForRoute resolves at once for a domain in the snapshot.
WaitForRoute(b, d) ==
    /\ b \in joined
    /\ \A r \in view[b] : r[2] # d
    /\ waiting' = [waiting EXCEPT ![b] = @ \cup {d}]
    /\ UNCHANGED <<hostVars, tableVars, joined, channel, view, heard>>

-----------------------------------------------------------------------------
SessionSteps == \E s \in Sessions : \/ \E c \in Claims : BeginAdmission(s, c)
                                    \/ AdmissionDenied(s)
                                    \/ AdmissionDropped(s)
                                    \/ RegisterGuest(s)
                                    \/ SessionCloses(s)
                                    \/ SessionCloseEvent(s)
                                    \/ CloseHandle(s)
                                    \/ \E D \in SUBSET Domains : GuestRevokes(s, D)
                                    \/ \E D \in SUBSET Domains : HandleRevokes(s, D)

TableSteps == CleanupTick \/ \E g \in Guests : Elapse(g)

HostSteps == Start \/ HostClose \/ HostCloseIdle

BrokerSteps == \E b \in Brokers : \/ BrokerJoins(b)
                                  \/ BrokerLeaves(b)
                                  \/ BrokerReads(b)
                                  \/ \E d \in Domains : WaitForRoute(b, d)

Next == SessionSteps \/ TableSteps \/ HostSteps \/ BrokerSteps

Spec == Init /\ [][Next]_vars

-----------------------------------------------------------------------------
(* Properties *)

\* No registration survives its session: the session of a registered remote
\* Guest is open or still has its 'close' event to come, so removeSessionPeers
\* will find the Guest.
NoZombiePeer ==
    \A g \in Guests : peers[g] # NoSession /\ ~claim[peers[g]].local
        => session[peers[g]] \in {"open", "closed"}

\* Degraded routes wait for a Guest that is away, and the timer that will remove
\* them is running.
DegradedIsPending ==
    \A g \in Guests : HasDegraded(g) => peers[g] = NoSession /\ timer

\* A remote Broker that has read all its frames has the Host's routes.  (A local
\* one keeps its table when a Host that was never started is closed.)
BrokerConverges ==
    \A b \in joined \ LocalBrokers : channel[b] = <<>> => view[b] = BrokerRoutes(localRoutes, degraded)

\* No remote Broker keeps a restored, expired or revoked route for a degraded one:
\* once the frames are read, what its listeners were told is degraded over this
\* connection is degraded at the Host.  What they were told over an earlier one may
\* have been restored meanwhile without an event; it is a route of the Host still.
NoStaleDegraded ==
    \A b \in joined \ LocalBrokers : channel[b] = <<>> =>
        /\ heard[b].degraded \subseteq DegradedRoutes(degraded)
        /\ heard[b].before \subseteq BrokerRoutes(localRoutes, degraded)

\* waitForRoute is never left pending for a domain in the Broker's snapshot.
WaitersServed ==
    \A b \in Brokers : \A r \in view[b] : r[2] \notin waiting[b]

-----------------------------------------------------------------------------
(* The inductive invariant: what the properties above rest on.  A Broker is   *)
(* as good as the frames it has not read yet.                                 *)

\* A session in use has a claim, and a Guest is registered with a session that
\* claims it.
ClaimsMatch ==
    /\ \A s \in Sessions : session[s] # "unused" => claim[s] \in Claims
    /\ \A s \in Sessions : admission[s] # "none" => session[s] # "unused"
    /\ \A g \in Guests : peers[g] # NoSession =>
          session[peers[g]] # "unused" /\ claim[peers[g]].guest = g

\* Only the frames of a connected remote Broker are on their way, only a running
\* Host has one, and a local Broker that is gone waits for nothing.
ConnectedBrokers ==
    /\ ~running => joined \subseteq LocalBrokers
    /\ \A b \in Brokers : channel[b] # <<>> => b \in joined \ LocalBrokers
    /\ \A b \in LocalBrokers : b \notin joined => waiting[b] = {}

\* The last frame on its way is a snapshot of the table as it is.
LastFrameIsTable ==
    \A b \in joined \ LocalBrokers :
        IF channel[b] = <<>> THEN view[b] = BrokerRoutes(localRoutes, degraded)
        ELSE channel[b][Len(channel[b])] = Snapshot(BrokerRoutes(localRoutes, degraded))

\* A lifecycle frame reports as degraded only routes the Broker has by then.
DegradedAreKnown ==
    \A b \in Brokers : \A i \in DOMAIN channel[b] :
        channel[b][i].type = "route-lifecycle" =>
            IF i = 1 THEN channel[b][i].degraded \subseteq view[b]
            ELSE /\ channel[b][i - 1].type = "routes"
                 /\ channel[b][i].degraded \subseteq channel[b][i - 1].routes

\* A frame after which no listener takes r for degraded, unless it says so.
Clears(f, r) ==
    IF f.type = "routes" THEN r \notin f.routes ELSE r \in f.removed \cup f.active

\* Whoever was told that the routes in lost are degraded takes r for degraded
\* once it has read the frames.
EndsDegraded(lost, frames, r) ==
    \/ r \in lost /\ \A i \in DOMAIN frames : ~Clears(frames[i], r)
    \/ \E i \in DOMAIN frames :
          /\ frames[i].type = "route-lifecycle"
          /\ r \in frames[i].degraded
          /\ \A j \in DOMAIN frames : j > i => ~Clears(frames[j], r)

NoStaleFrames ==
    \A b \in joined \ LocalBrokers : \A r \in Routes :
        EndsDegraded(heard[b].degraded, channel[b], r) => r \in DegradedRoutes(degraded)

\* Listeners take for degraded only routes of the snapshot.
ToldIsListed ==
    \A b \in Brokers \ LocalBrokers : heard[b].degraded \cup heard[b].before \subseteq view[b]

HostInv ==
    /\ TypeOK
    /\ ClaimsMatch
    /\ NoZombiePeer
    /\ DegradedIsPending
    /\ ConnectedBrokers
    /\ LastFrameIsTable
    /\ DegradedAreKnown
    /\ NoStaleFrames
    /\ ToldIsListed
    /\ WaitersServed
=============================================================================
