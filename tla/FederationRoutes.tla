---------------------------- MODULE FederationRoutes ----------------------------
(***************************************************************************)
(* How Hosts tell each other about routes.  A downstream Host dials its     *)
(* upstream; each side keeps a route stream on which it writes its whole    *)
(* export table after a change (a "routes" frame) and, before that, the     *)
(* lifecycle event of the change.  A table replaces what was imported from  *)
(* that Host, a lifecycle event is passed on to every other Host and to the *)
(* Brokers, and is recognised by its ID when it comes back.                 *)
(*                                                                          *)
(* A link is <<d, u>>: d dials u.  Every attempt is a session of its own;   *)
(* frames are read in the order written until the reader has seen the close.*)
(* An imported route has as many hops as its via list is long, its origin   *)
(* is the first of the list and its next hop the last.                      *)
(***************************************************************************)
EXTENDS Integers, Sequences, FiniteSets, Arrays

CONSTANTS Hosts,        \* numbered, in the order of their IDs
          Links,        \* who dials whom
          Aliased,      \* links whose upstreamId is not the remote Host ID
          Home,         \* the Host whose Guest serves a route, for each route
          MaxHop,       \* maxFederationHopCount
          MaxSeen,      \* size at which the seen IDs are cleared (10000)
          MaxChanges, MaxSessions, MaxDials, MaxFaults    \* bounds

Routes == DOMAIN Home

ASSUME FederationConstants ==
    /\ Hosts \subseteq Nat
    /\ Links \subseteq Hosts \X Hosts
    /\ \A l \in Links : l[1] # l[2]
    /\ Aliased \subseteq Links
    /\ \A r \in Routes : Home[r] \in Hosts
    /\ MaxHop \in Nat /\ MaxSeen \in Nat \ {0}
    /\ MaxChanges \in Nat /\ MaxSessions \in Nat /\ MaxDials \in Nat /\ MaxFaults \in Nat

VARIABLES
    local,      \* localRoutes
    imported,   \* importedRoutes, by owner: the ID a Host knows the other by
    seen,       \* seenFederationLifecycleEventIds
    counter,    \* federationLifecycleEventIdCounter
    view,       \* the routes of a Broker that has read all it was sent
    upstream,   \* upstreamLinks of the downstream: the session, or 0
    pending,    \* pendingUpstreamConnections: the session, or 0
    failed,     \* links whose last attempt failed
    inbound,    \* inboundFederationHosts of the upstream: the session, or 0
    routed,     \* inbound links with a route stream
    alive,      \* sessions that are open
    dialled,    \* sessions tried so far
    handlers,   \* close handlers the upstream has on sessions that are open
    closes,     \* close events the upstream has not handled
    overtaken,  \* links whose entry the handler of an earlier session has removed
    wire,       \* frames written and not yet read
    changes, faults

links == <<upstream, pending, failed, inbound, routed, alive, dialled, handlers, closes,
           overtaken>>
bounds == <<changes, faults>>
federationVars == <<local, imported, seen, counter, view, links, wire, bounds>>

Sessions == 1 .. MaxSessions
Pipes == Links \X Sessions \X {"up", "down"}

Sender(p) == IF p[3] = "up" THEN p[1][1] ELSE p[1][2]
Reader(p) == IF p[3] = "up" THEN p[1][2] ELSE p[1][1]

(* IDs: that of a Host, or an alias of it *)
Owners == Hosts \X BOOLEAN

Id(g) == <<g, FALSE>>
UpstreamId(l) == <<l[2], l \in Aliased>>

(* ownerId, by which the reader of a pipe knows the sender *)
Owner(p) == IF p[3] = "up" THEN Id(Sender(p)) ELSE UpstreamId(p[1])

(* The link the other way round, where its Host knows this one by its ID.   *)
Reverse(l) == {m \in Links : m = <<l[2], l[1]>> /\ m \notin Aliased}

----------------------------------------------------------------------------
(* HostRouteRegistry *)

Imports(imp, h) == UNION {imp[h][k] : k \in Owners}

(* getBrokerRoutes, without degraded ones *)
getBrokerRoutes(loc, imp, h) == loc[h] \cup {x.route : x \in Imports(imp, h)}

NextHop(x) == x.via[Len(x.via)]

(* compareCandidates, for two candidates of one route *)
Better(x, y) ==
    \/ Len(x.via) < Len(y.via)
    \/ Len(x.via) = Len(y.via) /\ NextHop(x) < NextHop(y)

(* selectCandidates: a local route first, else the best imported one. *)
Selected(imp, h, r) ==
    CHOOSE x \in {i \in Imports(imp, h) : i.route = r} :
        \A y \in Imports(imp, h) : y.route = r => ~Better(y, x)

(* What is written of a candidate: one hop more, and this Host on the via   *)
(* list once (a local route starts with it).                                *)
Exported(loc, imp, h, r) ==
    [route |-> r, via |-> IF r \in loc[h] THEN <<h>> ELSE Append(Selected(imp, h, r).via, h)]

(* getFederatedRoutesForExport: the selected candidate of each route, never *)
(* to a Host it came through, never past the hop limit.                     *)
getFederatedRoutesForExport(loc, imp, h, g) ==
    {x \in {Exported(loc, imp, h, r) : r \in getBrokerRoutes(loc, imp, h)} :
        /\ g \notin Elements(x.via)
        /\ Len(x.via) <= MaxHop}

(* getImportedRouteRejection: isFederatedRouteLoop and                      *)
(* exceedsFederatedRouteHopLimit                                            *)
Accepted(h, routes) == {x \in routes : h \notin Elements(x.via) /\ Len(x.via) <= MaxHop}

(* What replaces, and what takes from, the imports of Host h from owner k.  *)
setImportedRoutes(h, k, routes) == [imported EXCEPT ![h][k] = Accepted(h, routes)]

removeImportedRoute(h, k, r) == [imported EXCEPT ![h][k] = {x \in @ : x.route # r}]

removeImportedRoutes(h, k) == [imported EXCEPT ![h][k] = {}]

----------------------------------------------------------------------------
(* Writing to the other Hosts *)

(* The pipes Host h writes to, for given links: its upstream links and the  *)
(* inbound Hosts with a route stream that is open.                          *)
Writable(h, up, inb, rou, liv) ==
    {p \in Pipes :
        /\ Sender(p) = h /\ <<p[1], p[2]>> \in liv
        /\ IF p[3] = "up" THEN up[p[1]] = p[2] ELSE inb[p[1]] = p[2] /\ p[1] \in rou}

Table(loc, imp, h, g) == [type |-> "routes", routes |-> getFederatedRoutesForExport(loc, imp, h, g)]

(* advertiseFederatedRoutes: writeFederatedRoutes to every other Host *)
advertiseFederatedRoutes(w, h, pipes, loc, imp) ==
    [p \in Pipes |-> IF p \in pipes THEN Append(w[p], Table(loc, imp, h, Reader(p))) ELSE w[p]]

(* forwardFederatedLifecycleEventsExcluding: the sender is told from the    *)
(* others by its Host ID, so one known by an alias is sent its own event.   *)
forwardLifecycleEvents(w, h, pipes, from, event) ==
    [p \in Pipes |->
        IF p \in pipes /\ Id(Reader(p)) # from
        THEN Append(w[p], event) ELSE w[p]]

(* A set that is cleared when it is full *)
Remember(s, eid) == (IF Cardinality(s) >= MaxSeen THEN {} ELSE s) \cup {eid}

(* What a lifecycle event does to the routes of a Broker *)
AfterEvent(v, event) == IF event.type = "added" THEN v \cup {event.route} ELSE v \ {event.route}

Pipes0(h) == Writable(h, upstream, inbound, routed, alive)

----------------------------------------------------------------------------
(* Local changes *)

(* registerPeer and handleGuestRevocation as far as the routes go: the      *)
(* lifecycle event goes out first, then the tables.                         *)
Change(r, type, loc) ==
    LET h == Home[r]
        event == [type |-> type, route |-> r, eid |-> <<h, counter[h] + 1>>]
    IN  /\ changes < MaxChanges
        /\ changes' = changes + 1
        /\ local' = loc
        /\ counter' = [counter EXCEPT ![h] = @ + 1]
        /\ seen' = [seen EXCEPT ![h] = Remember(@, event.eid)]
        /\ view' = [view EXCEPT ![h] = getBrokerRoutes(loc, imported, h)]
        /\ wire' = advertiseFederatedRoutes(
                     forwardLifecycleEvents(wire, h, Pipes0(h), Id(h), event),
                     h, Pipes0(h), loc, imported)
        /\ UNCHANGED <<imported, links, faults>>

RouteAdded(r) == r \notin local[Home[r]] /\ Change(r, "added", [local EXCEPT ![Home[r]] = @ \cup {r}])

RouteRevoked(r) == r \in local[Home[r]] /\ Change(r, "removed", [local EXCEPT ![Home[r]] = @ \ {r}])

----------------------------------------------------------------------------
(* handleFederatedRouteFrame *)

(* Mutant: a changed table is told to the Brokers only. *)
FaultySetImported(w, h, k, frame) ==
    LET imp == setImportedRoutes(h, k, frame.routes)
    IN  /\ imported' = imp
        /\ wire' = w
        /\ view' = [view EXCEPT ![h] = getBrokerRoutes(local, imp, h)]
        /\ UNCHANGED seen

(* Mutant: the Brokers are not told. *)
QuietSetImported(w, h, k, frame) ==
    LET imp == setImportedRoutes(h, k, frame.routes)
    IN  /\ imported' = imp
        /\ wire' = IF imp = imported THEN w
                   ELSE advertiseFederatedRoutes(w, h, Pipes0(h), local, imp)
        /\ UNCHANGED <<seen, view>>

(* setImportedFederatedRoutes: a table that differs from the last one is    *)
(* told to the Brokers and to the other Hosts.                              *)
setImportedFederatedRoutes(w, h, k, frame) ==
    LET imp == setImportedRoutes(h, k, frame.routes)
    IN  /\ imported' = imp
        /\ IF imp = imported
           THEN wire' = w /\ UNCHANGED view
           ELSE /\ wire' = advertiseFederatedRoutes(w, h, Pipes0(h), local, imp)
                /\ view' = [view EXCEPT ![h] = getBrokerRoutes(local, imp, h)]
        /\ UNCHANGED seen

(* A lifecycle event is dropped when its ID was seen; else it goes to the   *)
(* Brokers and the other Hosts, and a removed route leaves the imports of   *)
(* the sender at once, which by itself tells nobody.                        *)
handleLifecycle(w, h, k, event) ==
    IF event.eid \in seen[h]
    THEN wire' = w /\ UNCHANGED <<seen, view, imported>>
    ELSE /\ seen' = [seen EXCEPT ![h] = Remember(@, event.eid)]
         /\ view' = [view EXCEPT ![h] = AfterEvent(@, event)]
         /\ wire' = forwardLifecycleEvents(w, h, Pipes0(h), k, event)
         /\ imported' = IF event.type # "removed" THEN imported
                        ELSE removeImportedRoute(h, k, event.route)

Receive(p) ==
    LET frame == Head(wire[p])
        w == [wire EXCEPT ![p] = Tail(@)]
    IN  /\ wire[p] # <<>>
        /\ IF frame.type = "routes"
           THEN setImportedFederatedRoutes(w, Reader(p), Owner(p), frame)
           ELSE handleLifecycle(w, Reader(p), Owner(p), frame)
        /\ UNCHANGED <<local, counter, links, bounds>>

----------------------------------------------------------------------------
(* Links *)

(* connectUpstream up to its first await: not to an ID it is connected with *)
(* in either direction.                                                     *)
connectUpstream(l) ==
    /\ upstream[l] = 0 /\ pending[l] = 0
    /\ l \notin Aliased /\ <<l[2], l[1]>> \in Links => inbound[<<l[2], l[1]>>] = 0
    /\ dialled[l] < MaxSessions
    /\ Cardinality({a \in Links \X Sessions : a[2] <= dialled[a[1]]}) < MaxDials
    /\ dialled' = [dialled EXCEPT ![l] = @ + 1]
    /\ pending' = [pending EXCEPT ![l] = dialled'[l]]
    /\ alive' = alive \cup {<<l, dialled'[l]>>}
    /\ failed' = failed \ {l}
    /\ UNCHANGED <<local, imported, seen, counter, view, upstream, inbound, routed,
                   handlers, closes, overtaken, wire, bounds>>

(* sendUpstreamHandshake has written its request on a session that is open. *)
HandshakeSent(l) == pending[l] # 0 /\ <<l, pending[l]>> \in alive

(* waitForUpstreamHandshakeResponse, withUpstreamHandshakeTimeout: the wait *)
(* for the upstream ends with an error, a close or the timeout, at any time.*)
HandshakeGivesUp(l) == pending[l] # 0

(* handleHostFederationStream: the upstream registers a Host whose ID it is *)
(* not connected with in either direction.                                  *)
handleHostFederationStream(l) ==
    /\ HandshakeSent(l)
    /\ inbound[l] = 0
    /\ \A m \in Reverse(l) : upstream[m] = 0 /\ pending[m] = 0
    /\ inbound' = [inbound EXCEPT ![l] = pending[l]]
    /\ handlers' = handlers \cup {<<l, pending[l], "session">>}
    /\ UNCHANGED <<local, imported, seen, counter, view, upstream, pending, failed, routed,
                   alive, dialled, closes, overtaken, wire, bounds>>

(* handleHostFederationRouteStream: the route stream is attached and the    *)
(* whole table written to it.  The first request stream, which follows, is  *)
(* part of the step.                                                        *)
handleHostFederationRouteStream(l) ==
    LET s == pending[l]
    IN  /\ HandshakeSent(l)
        /\ inbound[l] = s /\ l \notin routed
        /\ routed' = routed \cup {l}
        /\ handlers' = handlers \cup {<<l, s, "stream">>}
        /\ wire' = [wire EXCEPT ![<<l, s, "down">>] =
                      Append(@, Table(local, imported, l[2], l[1]))]
        /\ UNCHANGED <<local, imported, seen, counter, view, upstream, pending, failed,
                       inbound, alive, dialled, closes, overtaken, bounds>>

(* The rest of connectUpstream, once the upstream has attached the streams: *)
(* the link is stored and the table written to every other Host.            *)
Connected(l) ==
    LET s == pending[l]
        up == [upstream EXCEPT ![l] = s]
    IN  /\ HandshakeSent(l)
        /\ <<l, s, "stream">> \in handlers
        /\ upstream' = up
        /\ pending' = [pending EXCEPT ![l] = 0]
        /\ wire' = advertiseFederatedRoutes(wire, l[1],
                     Writable(l[1], up, inbound, routed, alive), local, imported)
        /\ UNCHANGED <<local, imported, seen, counter, view, failed, inbound, routed, alive,
                       dialled, handlers, closes, overtaken, bounds>>

HandlersOf(l, s) == {x \in handlers : x[1] = l /\ x[2] = s}

(* The session is gone; the handlers the upstream has on it and on its      *)
(* route stream will run, each on its own.                                  *)
Destroy(l, s) ==
    /\ alive' = alive \ {<<l, s>>}
    /\ handlers' = handlers \ HandlersOf(l, s)
    /\ closes' = closes \cup HandlersOf(l, s)

(* The catch of connectUpstream: what was imported meanwhile stays. *)
ConnectFails(l) ==
    /\ faults < MaxFaults /\ faults' = faults + 1
    /\ HandshakeGivesUp(l)
    /\ Destroy(l, pending[l])
    /\ pending' = [pending EXCEPT ![l] = 0]
    /\ failed' = failed \cup {l}
    /\ wire' = [wire EXCEPT ![<<l, pending[l], "down">>] = <<>>]
    /\ UNCHANGED <<local, imported, seen, counter, view, upstream, inbound, routed, dialled,
                   overtaken, changes>>

(* A connection breaks. *)
SessionDies(l) ==
    \E s \in Sessions :
        /\ faults < MaxFaults /\ faults' = faults + 1
        /\ <<l, s>> \in alive
        /\ Destroy(l, s)
        /\ UNCHANGED <<local, imported, seen, counter, view, upstream, pending, failed,
                       inbound, routed, dialled, overtaken, wire, changes>>

(* Mutant: the other Hosts are not told. *)
FaultyRemoveImported(w, h, k, pipes) ==
    LET imp == removeImportedRoutes(h, k)
    IN  /\ imported' = imp
        /\ view' = [view EXCEPT ![h] = getBrokerRoutes(local, imp, h)]
        /\ wire' = w

(* removeImportedFederatedRoutes: tells everyone, whether or not there was  *)
(* anything to remove.                                                      *)
removeImportedFederatedRoutes(w, h, k, pipes) ==
    LET imp == removeImportedRoutes(h, k)
    IN  /\ imported' = imp
        /\ view' = [view EXCEPT ![h] = getBrokerRoutes(local, imp, h)]
        /\ wire' = advertiseFederatedRoutes(w, h, pipes, local, imp)

(* closeUpstreamLink up to its await: the route streams are still open when *)
(* the imports go.                                                          *)
closeUpstreamLink(l) ==
    /\ faults < MaxFaults /\ faults' = faults + 1
    /\ upstream[l] # 0 /\ <<l, upstream[l]>> \in alive
    /\ removeImportedFederatedRoutes([wire EXCEPT ![<<l, upstream[l], "down">>] = <<>>],
                                     l[1], UpstreamId(l), Pipes0(l[1]))
    /\ Destroy(l, upstream[l])
    /\ UNCHANGED <<local, seen, counter, upstream, pending, failed, inbound, routed, dialled,
                   overtaken, changes>>

(* Mutant: the imports of a link that closed stay. *)
FaultySessionClose(l) ==
    /\ upstream[l] # 0 /\ <<l, upstream[l]>> \notin alive
    /\ upstream' = [upstream EXCEPT ![l] = 0]
    /\ wire' = [wire EXCEPT ![<<l, upstream[l], "down">>] = <<>>]
    /\ UNCHANGED <<local, imported, view, seen, counter, pending, failed, inbound, routed,
                   alive, dialled, handlers, closes, overtaken, bounds>>

(* handleUpstreamSessionClose, handleUpstreamRouteStreamClose *)
handleUpstreamSessionClose(l) ==
    LET up == [upstream EXCEPT ![l] = 0]
    IN  /\ upstream[l] # 0 /\ <<l, upstream[l]>> \notin alive
        /\ upstream' = up
        /\ removeImportedFederatedRoutes([wire EXCEPT ![<<l, upstream[l], "down">>] = <<>>],
                                         l[1], UpstreamId(l),
                                         Writable(l[1], up, inbound, routed, alive))
        /\ UNCHANGED <<local, seen, counter, pending, failed, inbound, routed, alive, dialled,
                       handlers, closes, overtaken, bounds>>

(* removeInboundFederationHost, the handler of both close events, of which  *)
(* that of the stream comes first: it finds the Host by ID, whichever       *)
(* session it is registered with now.                                       *)
removeInboundFederationHost(l) ==
    \E c \in closes :
        LET w == [wire EXCEPT ![<<l, c[2], "up">>] = <<>>]
            inb == [inbound EXCEPT ![l] = 0]
        IN  /\ c[1] = l
            /\ c[3] = "stream" \/ <<l, c[2], "stream">> \notin closes
            /\ closes' = closes \ {c}
            /\ overtaken' = IF inbound[l] \in {0, c[2]} THEN overtaken ELSE overtaken \cup {l}
            /\ IF inbound[l] = 0
               THEN wire' = w /\ UNCHANGED <<inbound, routed, imported, view>>
               ELSE /\ inbound' = inb
                    /\ routed' = routed \ {l}
                    /\ removeImportedFederatedRoutes(w, l[2], Id(l[1]),
                         Writable(l[2], upstream, inb, routed \ {l}, alive))
            /\ UNCHANGED <<local, seen, counter, upstream, pending, failed, alive, dialled,
                           handlers, bounds>>

(* The process of a Host ends and starts again: its memory is empty, its    *)
(* event IDs count from the start, its sessions break.                      *)
Restart(h) ==
    LET mine == {l \in Links : h \in {l[1], l[2]}}
        down == {l \in Links : l[1] = h}
        up == {l \in Links : l[2] = h}
    IN  /\ faults < MaxFaults
        /\ faults' = faults + 1
        /\ local' = [local EXCEPT ![h] = {}]
        /\ imported' = [imported EXCEPT ![h] = [k \in Owners |-> {}]]
        /\ seen' = [seen EXCEPT ![h] = {}]
        /\ counter' = [counter EXCEPT ![h] = 0]
        /\ view' = [view EXCEPT ![h] = {}]
        /\ upstream' = [l \in Links |-> IF l \in down THEN 0 ELSE upstream[l]]
        /\ pending' = [l \in Links |-> IF l \in down THEN 0 ELSE pending[l]]
        /\ failed' = failed \ down
        /\ inbound' = [l \in Links |-> IF l \in up THEN 0 ELSE inbound[l]]
        /\ routed' = routed \ up
        /\ alive' = {a \in alive : a[1] \notin mine}
        /\ handlers' = {x \in handlers : x[1] \notin mine}
        /\ closes' = {c \in closes : c[1] \notin up} \cup {x \in handlers : x[1] \in down}
        /\ overtaken' = overtaken \ up
        /\ wire' = [p \in Pipes |-> IF Reader(p) = h THEN <<>> ELSE wire[p]]
        /\ UNCHANGED <<dialled, changes>>

----------------------------------------------------------------------------
FederationInit ==
    /\ local = [h \in Hosts |-> {}]
    /\ imported = [h \in Hosts |-> [k \in Owners |-> {}]]
    /\ seen = [h \in Hosts |-> {}]
    /\ counter = [h \in Hosts |-> 0]
    /\ view = [h \in Hosts |-> {}]
    /\ upstream = [l \in Links |-> 0]
    /\ pending = [l \in Links |-> 0]
    /\ failed = {}
    /\ inbound = [l \in Links |-> 0]
    /\ routed = {}
    /\ alive = {}
    /\ dialled = [l \in Links |-> 0]
    /\ handlers = {}
    /\ closes = {}
    /\ overtaken = {}
    /\ wire = [p \in Pipes |-> <<>>]
    /\ changes = 0
    /\ faults = 0

FederationNext ==
    \/ \E r \in Routes : RouteAdded(r) \/ RouteRevoked(r)
    \/ \E p \in Pipes : Receive(p)
    \/ \E l \in Links :
         \/ connectUpstream(l)
         \/ handleHostFederationStream(l)
         \/ handleHostFederationRouteStream(l)
         \/ Connected(l)
         \/ ConnectFails(l)
         \/ SessionDies(l)
         \/ closeUpstreamLink(l)
         \/ handleUpstreamSessionClose(l)
         \/ removeInboundFederationHost(l)
    \/ \E h \in Hosts : Restart(h)

FederationSpec == FederationInit /\ [][FederationNext]_federationVars

----------------------------------------------------------------------------
(* Properties *)

FederatedRoutes == [route : Routes, via : Seq(Hosts) \ {<<>>}]
LifecycleEvents == [type : {"added", "removed"}, route : Routes, eid : Hosts \X (1 .. MaxChanges)]

(* The routes as Host g exports them: from the Host that serves one to g,   *)
(* by way of no Host twice and of no more Hosts than the limit.             *)
ExportsOf(g) ==
    {x \in FederatedRoutes :
        /\ x.via[1] = Home[x.route] /\ NextHop(x) = g
        /\ Distinct(x.via) /\ Len(x.via) <= MaxHop}

FramesOf(g) == [type : {"routes"}, routes : SUBSET ExportsOf(g)] \cup LifecycleEvents

(* Every variable has its type.  A table holds what its sender exports, and *)
(* what is imported from a Host is such a route that has not come through   *)
(* the Host that holds it: getImportedRouteRejection and appendHostId.      *)
FederationTypeOK ==
    /\ local \in [Hosts -> SUBSET Routes]
    /\ \A h \in Hosts : \A r \in local[h] : Home[r] = h
    /\ DOMAIN imported = Hosts
    /\ \A h \in Hosts : DOMAIN imported[h] = Owners
    /\ \A h \in Hosts, k \in Owners : \A x \in imported[h][k] :
          x \in ExportsOf(k[1]) /\ h \notin Elements(x.via)
    /\ DOMAIN seen = Hosts
    /\ \A h \in Hosts : IsFiniteSet(seen[h]) /\ Cardinality(seen[h]) <= MaxSeen
    /\ changes \in 0 .. MaxChanges
    /\ counter \in [Hosts -> 0 .. changes]
    /\ view \in [Hosts -> SUBSET Routes]
    /\ DOMAIN wire = Pipes
    /\ \A p \in Pipes : wire[p] \in Seq(FramesOf(Sender(p)))

(* Nothing is on its way: every frame was read and every close handled.     *)
Quiet ==
    /\ closes = {}
    /\ \A p \in Pipes : wire[p] = <<>>
    /\ \A l \in Links : pending[l] = 0 /\ (upstream[l] # 0 => <<l, upstream[l]>> \in alive)

(* When nothing is on its way both ends of a link hold the same session,    *)
(* unless the upstream has lost its entry to the handler of an earlier one. *)
SessionsAgree ==
    Quiet => \A l \in Links :
        /\ upstream[l] # 0 => l \in overtaken \/ (inbound[l] = upstream[l] /\ l \in routed)
        /\ inbound[l] # 0 => upstream[l] = inbound[l]

(* Then the two ends of every link agree about the routes as well: what     *)
(* each imported from the other is what the other would export to it now    *)
(* ("Route tables are eventually consistent").                              *)
Converged ==
    /\ SessionsAgree
    /\ Quiet => \A l \in Links : upstream[l] # 0 /\ l \notin overtaken =>
         /\ imported[l[1]][UpstreamId(l)] =
              Accepted(l[1], getFederatedRoutesForExport(local, imported, l[2], l[1]))
         /\ imported[l[2]][Id(l[1])] =
              Accepted(l[2], getFederatedRoutesForExport(local, imported, l[1], l[2]))

(* When nothing is on its way a Broker knows every route its Host would     *)
(* route to.                                                                *)
BrokerKnows == Quiet => \A h \in Hosts : getBrokerRoutes(local, imported, h) \subseteq view[h]

(* A Host imports only over a link it has: the imports of a link that       *)
(* closed are withdrawn, whichever of its two close handlers runs first.    *)
(* Left out are an attempt that failed after its first tables were read,    *)
(* and an entry that the handler of an earlier session has removed: its     *)
(* session goes on being read, and its own handlers find nothing to do.     *)
ImportsHaveLink ==
    \A h \in Hosts, k \in Owners : imported[h][k] # {} => \E l \in Links :
        \/ /\ l[1] = h /\ UpstreamId(l) = k
           /\ upstream[l] # 0 \/ pending[l] # 0 \/ l \in failed
        \/ /\ l[2] = h /\ Id(l[1]) = k
           /\ inbound[l] # 0 \/ l \in overtaken

(* When nothing is on its way, no attempt failed and no entry was removed   *)
(* by an earlier handler, every imported route leads home: its origin still *)
(* serves it and every Host of its via list still has a link to the next.   *)
RoutesLeadHome ==
    Quiet /\ failed = {} /\ overtaken = {} => \A h \in Hosts : \A x \in Imports(imported, h) :
        LET path == Append(x.via, h)
        IN  /\ x.route \in local[Head(path)]
            /\ \A i \in 1 .. Len(x.via) : \E l \in Links :
                 /\ l \in {<<path[i], path[i + 1]>>, <<path[i + 1], path[i]>>}
                 /\ upstream[l] # 0

(* When nothing is on its way no Host holds a route that is not served any  *)
(* more ("When a Guest [...] disconnects, imported routes are withdrawn").  *)
RevokedIsWithdrawn ==
    Quiet => \A h \in Hosts : \A x \in Imports(imported, h) : x.route \in local[Home[x.route]]

----------------------------------------------------------------------------
(* The inductive invariant of the links *)

LinkTypes ==
    /\ upstream \in [Links -> {0} \cup Sessions] /\ pending \in [Links -> {0} \cup Sessions]
    /\ inbound \in [Links -> {0} \cup Sessions] /\ dialled \in [Links -> Nat]
    /\ alive \subseteq Links \X Sessions
    /\ handlers \subseteq Links \X Sessions \X {"session", "stream"}
    /\ closes \subseteq Links \X Sessions \X {"session", "stream"}
    /\ DOMAIN wire = Pipes
    /\ DOMAIN imported = Hosts /\ \A h \in Hosts : DOMAIN imported[h] = Owners

(* A session that is open is the one its downstream dials or holds; one     *)
(* that it holds is the one the upstream has, with a route stream.          *)
SessionInStep(l) ==
    /\ upstream[l] = 0 \/ pending[l] = 0
    /\ upstream[l] <= dialled[l] /\ pending[l] <= dialled[l] /\ inbound[l] <= dialled[l]
    /\ \A s \in Sessions : <<l, s>> \in alive => s \in {pending[l], upstream[l]}
    /\ <<l, upstream[l]>> \in alive =>
         l \in overtaken \/ (inbound[l] = upstream[l] /\ l \in routed)

(* The upstream has a session with a handler on its close, or one whose     *)
(* close is on its way; a route stream with a handler is that of the        *)
(* session it has; and handlers run once the session is gone.               *)
CloseInStep(l) ==
    /\ inbound[l] # 0 => <<l, inbound[l], "session">> \in handlers \cup closes
    /\ \A s \in Sessions :
         /\ <<l, s, "stream">> \in handlers =>
              l \in overtaken \/ (inbound[l] = s /\ l \in routed)
         /\ \A e \in {"session", "stream"} :
              /\ <<l, s, e>> \in handlers => <<l, s>> \in alive
              /\ <<l, s, e>> \in closes => <<l, s>> \notin alive /\ s <= dialled[l]

(* Frames are read on a session the reader has, or dials.                   *)
WireInStep(l) ==
    \A s \in Sessions :
        /\ wire[<<l, s, "up">>] # <<>> => inbound[l] = s \/ l \in overtaken
        /\ wire[<<l, s, "down">>] # <<>> => s \in {pending[l], upstream[l]}

LinkInv ==
    /\ LinkTypes /\ ImportsHaveLink
    /\ \A l \in Links : SessionInStep(l) /\ CloseInStep(l) /\ WireInStep(l)
=============================================================================
