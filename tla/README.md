# A TLA+ verification of verser2

verser2 routes HTTP requests and WebSockets from *Brokers* to *Guests* through
a *Host*, all over HTTP/2, and Hosts forward to each other (*federation*). The
modules here model the parts of it whose correctness depends on the order in
which callbacks, timers, promises and messages run. Paths below are relative to
the repository root; `host/` is `packages/verser2-host/src/lib/`, `node/` is
`packages/verser2-guest-node/src/lib/`, `common/` is
`packages/verser-common/src/lib/`.

All of this code runs on one Node event loop per process. A handler runs to
completion; what interleaves are the handlers, the continuations after each
`await`, timers, and everything other processes do. So an action of a module is
one handler up to its next `await`, and what follows the `await` is another.
`PROJECT.json` maps every definition to the lines it models and lists the
hazards the properties are for.

## Inventory

| Component | State | Operations | What is hard | Module |
|---|---|---|---|---|
| Lease pool (`host/lease-pool.ts`, `host/broker-routing.ts`) | idle and active leases, queued acquisitions, per request: its lease, whether its Broker is still there | attach, close and remove a lease; acquire with a timeout; cancel; Guest disconnect; Host close | a stream is closed before its event says so; a timeout races an arriving lease; the hop policy is awaited between lookup and acquisition | `LeasePool` |
| Leased request (`host/broker-routing.ts`, `node/http2-verser-node-guest.ts`, `node/minimal-http.ts`) | what was written, read, ended and reset on two streams; flags of the dispatch | read the envelope, relay, cancel; handler writes, ends, throws, rejects; stream events | the order of `end`, `aborted`, `error` and `close`; a failure in the middle of a response | `LeasedRequest`, `GuestDispatch` |
| Registration and local routes (`host/node-http2-verser-host.ts`, `host/route-registry.ts`, `host/degraded-route-cleanup.ts`) | peers, local routes, degraded routes, cleanup timer | register, attach a local Guest, disconnect, revoke, expire, start, close | authorization is awaited in the middle of a registration; several Guests share one timer; reconnects restore | `HostRoutes` |
| Broker views (`host/local-peers.ts`, `node/http2-verser-broker.ts`) | route snapshot, listeners, waiters | apply a snapshot or lifecycle frame, `waitForRoute` | frames are read late; local Brokers are updated in place, partly without events | `HostRoutes` |
| Route authorizer (`host/route-authorizer.ts`) | allow and deny caches, pending decisions, generation | `authorizeHop`, `revokePair`, `invalidate` | decisions overtaken by revocation or invalidation; single flight; TTL arithmetic | `RouteAuthorizer` |
| Federation routes and links (`host/federation.ts`, `host/route-registry.ts`, `host/node-http2-verser-host.ts`, `common/federation.ts`) | imported routes, seen event IDs, upstream links, inbound Hosts | connect, admit, close; import a table, apply and forward lifecycle frames, export | duplicates and loops; restarts; a direct removal followed by an unchanged table; handshakes that die; stale close handlers | `FederationRoutes` |
| Federation request streams (`host/node-http2-verser-host.ts`, `host/broker-routing.ts`) | stream pools and waiters at both ends of a link | replenish, acquire, wait, use, close | limits, waiting, streams with two ends that close at different times | `FederatedStreams`, `StreamPairing` |
| VWS open (`host/node-http2-verser-host.ts`, `host/federation.ts`) | idle WebSocket leases, the pool stream of a link and its waiters, per open: candidate and destination | try candidates, authorize, acquire, negotiate, bridge | accept against timeout, source and destination; one side failing | `WebSocketOpen` |
| VWS socket (`node/verser-websocket.ts`, `node/native-websocket.ts`, `common/vws.ts`) | three queues, close handshake, backpressure | send, close, terminate, accept, read frames | flushing around the accept frame, a paused stream, five ways to close | `WebSocketEndpoint` |
| Node Guest (`node/http2-verser-node-guest.ts`) | session, lease streams and their states | connect, register, replenish, close | replenishing against limits, late events of an old session | `NodeGuest` |
| Broker requests (`node/http2-verser-broker.ts`, `node/broker-dispatcher.ts`, `node/dispatch-controller.ts`) | upload, replay buffer, terminal state | dispatch, redirect with a replayed body, abort, close | replay while the first attempt still reads; ends that race | `BrokerRequests` |
| Broker Agent (`node/broker-socket.ts`, `node/chunked-body-decoder.ts`) | head and body bytes, decoder, response in flight | write, read, destroy | backpressure both ways, in the middle of anything | `BrokerSocket` |
| Wire helpers, TLS options, Bun Guest, Python clients, HTTP adapters | see "Not modelled" | | | |

Interactions: a Guest registers with the Host, opens lease streams and serves
one request on each; a Broker registers, is sent the route table and lifecycle
frames over its control stream, and sends requests. Registration, disconnect,
revocation and expiry change the route table, which invalidates the
authorizer's decisions and is announced to Brokers and to federated Hosts. A
request or a WebSocket for a route of another Host goes over a stream of the
link to it. `LeasedRequest` composes the Host's relay with the Guest's dispatch;
`FederatedStreams` and `FederationRoutes` have both ends of a link,
`WebSocketEndpoint` both ends of a tunnel, `HostRoutes` the Host and its Brokers.

## Modules

`Arrays` has the one array operation several modules need: `Without`, the
`filter` that drops an object from a list in which it is at most once.
`ArrayProofs` has the lemmas about it and about `Append`, `Tail` and `SubSeq`, and
induction over the natural numbers in a form that needs no operator as a
parameter (`SetInduction`, from `LeastNumber`).

### `LeasePool`

`idleLeases`, `activeLeases` and `queued` are the three maps of the class;
`stream`, `request`, `assigned` and `live` are the state of the streams and of
the request handlers (their position between two `await`s). One action per
operation: `AttachLease` is `attachGuestLeaseStream` with `addIdleLease`,
`RouteRequest` a Broker's or local Broker's request up to `await acquireLease`,
`Continue` what follows, `LeaseTimeout` the timer, `GuestDisconnect` and
`HostClose` the two ways queues fail. A stream that closes is `closed` at once
and `gone` when its `close` event has run `removeLease`. A federated request is
`authorizing` between the lookup of its target and the acquisition; `stale`
stands for the generation of the authorizer, which makes an overtaken decision
a denial.

`MCLeasePool` checks two Guests, three leases and two requests, one of them
federated: enough for both requests to queue for one Guest, for a lease to close
at any moment, and for the other Guest's events to disturb them. The theorems
about this module hold for any numbers.

### `GuestDispatch` and `LeasedRequest`

`GuestDispatch` is `dispatchLeasedRequest` with `MinimalServerResponse`: a
handler that runs synchronously, then asynchronously, and may write, end, throw,
reject and go on after it has failed; `wire`, `ended` and `rst` are what the
lease stream carries, `events` what it still has to emit. `LeasedRequest` adds
the Host: `routeBrokerRequestOverLease` waiting for the envelope (`meta`) and
then piping, its `cancelLease`, and the stream of the Broker. What a reset emits
is Node's: no `error` for CANCEL; `end` too when the stream flows. `closeLeaseStreams`
is the `close()` of the Guest, which closes active leases too, with NO_ERROR, and
`GuestGone` the `end` the Host then sees. `MCLeasedRequest` has two chunks and one
write after the end, so that a reset can fall before, inside and after a response.

Two properties have exceptions that are in the code. `CutShort` names the leases
whose end looks like that of a whole response: reset with CANCEL under the pipe, or
closed by the Guest before the response was ended. `LeftOpen` names the Brokers that
never see an end: the lease was reset after its envelope was read and before the
relay attached its listeners (`relay = "late"`), or with CANCEL under a pipe that
was held back.

### `HostRoutes`

The peer map, `localRoutes`, `degraded` and the timer of one Host, with
sessions (remote Guests) and handles (local Guests) that come and go.
`BeginAdmission` is `registerPeer` or `attachLocalGuest` up to the
authorization callback, `RegisterGuest` what follows, `AdmissionDropped` the
repeated checks failing. A Map without a key is `NoEntry`, which the code tells
apart from an empty list, and so does the model. Brokers: `channel` holds the
control frames a remote Broker has not read; `view` its snapshot, `waiting` its
pending `waitForRoute`s. `heard` has the routes its route-change listeners take for
degraded: `degraded` those told over this connection, `before` those told over an
earlier one and not corrected since, as `connect()` tells listeners nothing and the
first snapshot only of routes that came or went.
`elapsed` replaces the clock: an entry's timeout passes at any time after it
was made.

`MCHostRoutes` checks two Guests with one or two routes over two sessions, with
a remote and a local Broker. A session is used once; two of them, and handles
beside them, are enough for a registration, a reconnect and a rival to overlap.
`MaxFrames = 2` lets the remote Broker lag behind a whole announcement.

### `RouteAuthorizer`

A decision is one invocation of the policy callback: asked, answered, settled.
`now`, the caches (expiry per pair, 0 without), `pendingDecisions` and
`generation` are the code's. `current` is a history variable: the decisions
asked since the last revocation of their pair and the last invalidation, which
is what "not stale" should mean; the code's test is `IsStale`. `invalidate()`
leaves pending decisions where they are: a later call may join one and be denied
by its stale result, never allowed (`AllowedIsCurrent`). The policy may
answer with an omitted, zero, finite, unrepresentable or infinite TTL, or fail.

`MCRouteAuthorizer` checks two calls and up to three decisions about one pair; pairs
do not interact except through invalidation. `MaxSafe` is 4 at times up to 2, so
that a TTL of 4 from the policy is representable at first and later is not. The
configured TTLs are not bounded by the module, as the code checks only that they are
integers: with 3 for allows the expiry of an answer at time 2 passes `MaxSafe`.

### `NodeGuest`

One `Http2VerserNodeGuest` object. `session` and `stream` are the states of the
HTTP/2 objects, which close first and emit `close` later; `current`, `closing`
and `leaseStreams` are the fields of the class, `state` is `lease.state`. `call`
is the position of the `connect()` that opened a session, and `via` the session
it registers over, which `register` reads from `this.session` after the wait for
`connect`. `MaintainLeasePool` is the loop that fills the pool; every action that
ends in it has it as its last step.

`MCNodeGuest` checks two sessions, whose identities are used again, so that an
old session, its successor and the next one overlap, and three leases with both
limits at 2, so that an active lease leaves room for one of the two the pool
lacks.

### `FederatedStreams` and `StreamPairing`

Two Hosts and the reverse request streams between them. The downstream Host's
link: `pool`, `active` and `single` are `requestStreams`, `activeRequestStreams`
and `requestStream` of its `UpstreamLink`, `opening` the stream it awaits. The
upstream Host's entry of `inboundFederationHosts` has the field names of the code,
`waiters` is its queue. Each stream has two ends, `upEnd` and `downEnd`, which
close at different times; an end that is `closed` has not run its `close`
handlers. `Maintain` is the loop of `maintainUpstreamRequestPool` up to its next
`await`, and ends every action that calls it. A request is `granted` from the
moment its promise is resolved until the code after the `await` runs, in which
time the caller may give up and the stream may close. A waiter that queued before
the first stream told the pool's policy insists on the latest stream and has no
abort listener, as in the code (`PoolWaiter`). A response may be complete before its
request (`ResponseEndsEarly`): the request is over and its stream stays half-open,
in `left`. The body of a remote Broker's request is still piped and closes the
stream with its end or failure (`UploadEnds`), that of a local one is unpiped and
nobody ends the stream any more.

`StreamPairing` is the abstract specification: a pool of single-use streams.
`SingleUse` says that `FederatedStreams` implements it, with the upstream end of
a stream as its state (`closed`, `fresh`, `taken` while a request holds it, `spent`
when it is open after that) and `assigned` as `holder`. The bookkeeping of both Hosts (pools, counts, waiters,
busy flags) is what the mapping leaves out and the refinement shows to be right.

`MCFederatedStreams` checks links with and without a pool, three streams of which
two may be open, and two requests, one of which is local or forwarded (it is sent
although cancelled) and one of a remote Broker. A stream whose ends are both gone
stands for the next one, so behaviours are not bounded in length.
`removeInboundFederationHost` may run at any time, which covers the late `close`
handler of an old session that removes its successor's entry. Left out: the
moment between the end of the opening loop and the clearing of
`openingRequestStreams`, and requests that the upstream Host could instead send
over a link of its own to the same Host.

### `FederationRoutes`

A graph of Hosts and the route streams between them: `local` and `imported` are
the registry, `seen` and `counter` the event IDs, `upstream`, `pending` and
`inbound` the link tables, `wire` the frames not yet read. Imports are kept by owner,
the ID under which a Host knows the other: its Host ID, or the alias an upstream was
dialled by (`Aliased`), in which case a lifecycle event goes back to its sender and
only its ID stops it. `Change` writes the
lifecycle event and then the whole table to every other Host; `Receive` is
`handleFederatedRouteFrame`. A route's via list is kept, since it decides about
loops, hops and the choice between candidates. `Restart` empties a Host and its
event counter. Two Hosts may dial each other; `isFederationPeerIdInUse` then refuses
the second link where it finds the ID.

The upstream Host has a close handler on the session and one on its route stream
(`handlers`), which run as two events (`closes`), the stream's first and anything in
between, and both find the Host by ID. When the later one removes the entry of a
session admitted meanwhile, the link is `overtaken`: a history variable, by which the
properties name the links this has happened to.

`Connected` is one step for the storing of the link, the filling of its pool and the
advertisement (`host/node-http2-verser-host.ts:743`): the table written at the end
repeats what the link was sent since it was stored, and the filling of the pool is in
`FederatedStreams`. The attachment of the route stream and of the first request
stream is one step as well.

`MCFederationRoutes` checks three Hosts in a line with the route at one end, an
aliased link, `MaxHop = 2`, a set of IDs that is full with one, so that it is
cleared at every new ID, two route changes, three dials and two faults, each a
break, a failed attempt, a `closeUpstreamLink` or a restart. Two faults and three
dials are what a link needs to be lost and replaced before both handlers of the first
session have run, and for a neighbour to restart meanwhile. Two Hosts never forward
and would not show a loop or a withdrawal that has to travel. `MCFederationCycle` starts with
three Hosts in a triangle, connected and with nothing on its way, and lets no
connection break, with the hop limit and the size of the set that the code has.

### `WebSocketOpen`

Opens that reach a Host, from a Broker or from another Host, and the candidates
of their route: a local Guest's idle WebSocket lease, the one pool stream of an
inbound Host, a stream opened to the upstream. `pc` is where the handler of an
open waits; `StreamCloses` and `SourceCloses` are the events that interrupt it.
`removeInboundFederationHost` deletes the entry of the inbound Host and fails the
waiters, and closes no stream. It runs with the session (`FederationSessionCloses`,
whose streams close by themselves) or without it (`EntryRemoved`: the route stream has
closed alone, or the close handler of an earlier session has found the entry by ID);
`orphan` is the pool stream that then stays open in no entry.
`MCWebSocketOpen` has two opens that compete for the pool stream with different
fallbacks, two streams of each reusable kind, and a queue for one waiter.

### `WebSocketEndpoint`

The two `VerserWebSocket`s of a tunnel, the Guest's in front of the accept frame
and the Broker's made when the Host answers; each is a record with the fields of
the class. Frames already written are the log of an end and the channel to the
other. Listeners may be synchronous, asynchronous or throw; one end is the native
adapter with its `readyState`. `MCWebSocketEndpoint` has up to three messages of the
Guest around the accept frame, up to four of the Broker, four in all, and queues of
two: every queue can hold two messages, whose order then matters, and refuse a third;
a flush can be interrupted between two of them, and a message can meet one that is
with an asynchronous listener and one that waits behind it. Each end has a queue in
front of the accept frame and one behind it, and order and completeness are
stated for each of them (`InOrderPerQueue`).

### `BrokerRequests`

One dispatch: `ctl` and `calls` are the controller and the callbacks of the
handler, `source`, `tee`, `decision` and `buffered` the replayable upload,
`stream` and `resp` the hop it is at. A dispatch that fails before
`attachRequestBody` (`stream = "none"`) has nothing to destroy. `MCBrokerRequests`
has uploads below, at and above the replay limit, streamed or in a list, and two
redirects.

### `BrokerSocket`

The Duplex behind `createAgent()`: bytes are counted, not spelled, and a write
may end anywhere in the head, a size line or a chunk. `flush` is the loop of the
chunked decoder. `writable` is the client's side: the Agent keeps no connection alive,
so Node calls `end()` on the socket when it has read an answer (`ClientEnds`), and
`_final` ends the upload once the last write is through (`Final`). The body of an
answer ends, fails, or is lost: it closes with neither event, which is what a paused
stream does when it is reset with CANCEL or the Broker closes. `MCBrokerSocket` has
up to four chunks, a body stream that refuses after one of them, and limits a single
write can pass.

## Runs

| Run | Result | Shows |
|---|---|---|
| `LeasePool` | pass | a lease serves one request; no request waits next to a usable lease or for a Guest that left; every acquisition settles; the lease of a cancelled request is returned |
| `HostRoutes` | pass | no registration outlives its session; a remote Broker converges, also about what it was told is degraded over its connection; waiters are served; degraded routes always have a running timer |
| `RouteAuthorizer` | pass | nothing stale is cached or allows a hop; single flight; a waiting call settles once the callback answers |
| `FederatedStreams` | pass | the two Hosts implement a pool of single-use streams; an open stream counts as in use only while a request has it, or after a response that came before the end of its upload; waiters are in line and not beside a free stream; the pool refills while the link is up |
| `FederationRoutes` | pass | once nothing is on its way, both ends of every link agree, Brokers know every route, imports have a link and lead home; left out are failed attempts and overtaken links, where the code leaves imports behind |
| `NodeGuest` | pass | a registered Guest never loses a place of its pool; `close()` returns although a handler never finishes, unless a registration is unanswered |
| `LeasedRequest` | pass | what the Host reads off a lease can be trusted, no lease is left open, the handler is told; an end means a whole response unless CANCEL or the Guest's `close()` cut it; an abort reaches the lease; the Broker's stream comes to an end, but for the two cases of `LeftOpen` |
| `WebSocketOpen` | pass | opens and streams are paired one to one, no stream leaks but the one of an entry removed alone, every open settles |
| `WebSocketEndpoint` | pass | ordered delivery per queue behind the accept frame, one `close` event, no stream paused for ever, no pending send forgotten |
| `BrokerRequests` | pass | one end, told once, with nothing left behind that was attached; a redirect is followed with the whole upload or not at all; every dispatch ends, unless its response is lost (`pc = "lost"`) |
| `BrokerSocket` | pass | the target gets exactly the body, nothing is left behind, the request settles, but for a forgotten count and a lost response |
| `FederationCycle` | violation | see Findings: in a triangle of Hosts a revoked route stays imported |

Fairness is assumed of what Node guarantees: timers fire, settled promises run
their continuations, closed streams and sessions emit `close`, what was written
is read at the other end of an open stream, and a stream that is asked for is
answered or closed. Nothing is assumed of Guests' handlers, which may never
finish. Where a request can only end if its peers go on, that is stated as
fairness of their actions: in `BrokerRequests` the source produces and the target
reads and answers; in `BrokerSocket` the client writes and reads, and the target
reads the body, answers once it has it all and ends an answer it neither fails nor
loses; in `FederatedStreams` nothing is assumed of requests; in `WebSocketOpen` the authorizer
and the upstream answer. In `RouteAuthorizer` the callback may stay silent, and
the property is about calls it has answered.

Deadlock is checked where the modelled system goes on for ever; the models of a
single request, socket or tunnel and of bounded route changes may stop and say
`CHECK_DEADLOCK FALSE`.

Every checked property has a mutant in `PROJECT.json`: a definition that makes
the mistake the property is there to notice. `TypeOK` of each module documents
its types; it follows from the inductive invariants below and is proved with them
(`FederationTypeOK`, `EndpointTypeOK`, `SocketTypeOK` and `PoolTypeOK` in the modules
whose proofs share a module with another component's).

## Findings

- **In a cycle of Hosts a revoked route is never withdrawn** (`FederationCycle`,
  `RevokedIsWithdrawn`). `host/federation.ts:588` applies a `removed` event to the
  imports from the Host that sent it first; the same event from every other Host
  is dropped as seen (`:535`). The table that follows it is filtered by the via
  lists and equals what is already held, so `setImportedFederatedRoutes`
  (`host/node-http2-verser-host.ts:587`) returns before anybody is told. Of three
  Hosts in a triangle the two that do not serve the route keep it, each imported
  from the other, with nothing left on its way and no connection ever broken.
  `docs/host-federation.md:236` promises that "Route tables are eventually
  consistent. When a Guest, downstream Host, or upstream link disconnects,
  imported routes are withdrawn"; the comment at `host/federation.ts:531` names
  "cyclic federation topologies", and `test/host-upstreams.test.js:2948` says of one
  that "the route is effectively removed", but looks only at the Host that served it.

## Known observations

Behaviours met while modelling that have no run of their own. Each is in the
model; where a property had to be stated around one, it says so.

- `host/broker-routing.ts:613`: a Guest that fails after the response has started,
  or whose connection breaks, resets its lease with CANCEL. Node then emits no
  `error` but ends the readable side, so the pipe ends the Broker's stream like
  that of a complete response; a paused Broker stream is left open instead.
  `test/broker-routing.test.js:2975` ("cancels the Broker response stream") awaits
  `close` only, which a clean end emits too.
- `node/http2-verser-node-guest.ts:652`: `close()` of a Guest closes its active leases
  too, without a code, and a response that is under way ends at the Broker like a
  whole one. `EndMeansWholeUnlessCut` leaves this case and the one above out, and
  every other failure in.
- `host/broker-routing.ts:601`: a lease that is reset between the reading of its
  envelope and the continuation of the relay is piped from when it is already closed,
  and the Broker's stream is never ended (`relay = "late"`).
- `node/http2-verser-broker.ts:87`: `connect()` tells the route-change listeners
  nothing, and the snapshot that follows (`:776`) reports only routes that came or
  went. A listener told `degraded` before a disconnect still takes the route for
  degraded after the Guest has come back and the Broker has reconnected.
- `host/route-authorizer.ts:139`: the expiry of an answer without a TTL of its own is
  not checked, so that a large `routeAuthorizationCacheTtlMs` gives one past
  `Number.MAX_SAFE_INTEGER`; it is rounded and nothing else happens.
- `host/broker-routing.ts:1456`, `:526`: when the response over a federated request
  stream is complete before the upload, a local request is unpiped from it, and of a
  remote Broker's nobody closes the stream unless its body ends. The stream is
  half-open and counted as in use; enough of them fill the pool, and requests wait in
  line until they time out.
- `host/lease-pool.ts:157`: `activeLeases` is keyed by Guest and lease ID. Both Guest
  clients number their leases; one that reused an ID would lose an entry to the late
  `close` of another stream, and `closeGuestLeases` would miss a stream.
- `host/route-registry.ts:213`: `setDegraded` returns when the Guest has a degraded
  entry, also an empty one. A Guest that registers without routes, leaves,
  registers some and leaves again keeps active routes. The instance registers at
  least one route.
- `host/node-http2-verser-host.ts:1399`: listeners of local Brokers get no event
  when a remote Guest registers afresh, only the changed snapshot.
- `host/node-http2-verser-host.ts:525`: `close()` of a Host that was not started
  clears its routes but not a local Broker's view, so `BrokerConverges` is stated
  for remote Brokers.
- `host/federation.ts:572`: a lifecycle frame may leave Brokers with a route that
  no Host serves any more, when the table that follows brings no change.
  `BrokerKnows` is one direction only.
- `host/federation.ts:643`: event IDs are counted from 0 again after a restart. Hosts
  1, 2 and 3 in a line: 3 adds and removes a route; 2 restarts and forgets the IDs
  it has seen, 3 restarts and counts anew; after they have connected, 3 adds and
  removes the route under the old IDs. 2 applies and forwards the removal, the
  table that follows brings no change, and 1 drops the event as seen and keeps the
  route. It takes two restarts and four changes; the instance has two changes.
- `host/federation.ts:535`: when the set of seen IDs is cleared, an event that comes
  back over an aliased link is processed again. With three changes a Broker is told
  of the removal of a route that is there again; the instance has two changes.
- `host/node-http2-verser-host.ts:1958`: the two `close` handlers of a federation link
  (`:1546`, `:1573`) find the Host by ID, and the second can remove the entry of a
  session that was admitted in between. That session's route stream is still read, so
  that imports come back without an entry, and when it closes its handlers find
  nothing to remove: the imports stay. Properties name these links (`overtaken`).
- `host/node-http2-verser-host.ts:772`: the `catch` of `connectUpstream` destroys the
  session and leaves what was imported over it (`failed`).
- `host/node-http2-verser-host.ts:1958`: no stream is closed with the entry. When the
  session stays, because the route stream closed alone or the handler was that of an
  earlier session, the VWS pool stream is open in no entry until the session closes
  (`orphan`); the downstream Host sees it as its pool stream and opens no other.
- `node/broker-dispatcher.ts:25`: a handler that throws in `onRequestStart`, an upgrade
  and a missing route fail before `attachRequestBody` (`:66`): the `Readable` of the
  caller stays open, with nobody reading it.
- `node/http2-verser-node-guest.ts:429`: a lease that becomes active is not replaced
  until it closes; with the default of one waiting stream, requests to a Guest are
  served one at a time.
- `node/http2-verser-node-guest.ts:101`: the `close` handler of an old session
  forgets the session and the leases of its successor.
- `node/http2-verser-node-guest.ts:89`: `connect()` after a failed registration
  returns at once, although the Guest is not registered.
- `node/verser-websocket.ts:381`: a message sent after the accept can overtake one
  that was queued before it, and the flush writes data frames after a close frame;
  `OrderedDelivery` is stated per queue.
- `node/verser-websocket.ts:543`: the peer's close frame leaves pending sends
  unsettled until the stream closes.
- `node/native-websocket.ts:97`: `close()` with an invalid code throws and leaves the
  adapter CLOSING.
- `node/broker-socket.ts:292`: a write that the body stream refuses returns before
  the count of bytes is compared with the Content-Length, and after the drain
  nothing compares it again. A body whose last write reaches the high water mark is
  never ended and the request hangs. `SocketSound` and `RequestSettles` name this
  case (`CountForgotten`); chunked bodies are not affected.
- `node/broker-socket.ts:203`: a response body that closes without `end` or `error` is
  noticed by nobody: the sink is not finished, and the client waits until it gives up
  (`response = "lost"`).
- `node/broker-socket.ts:238`: the limit on the request head is compared with the
  head and whatever part of the body came with it; `:226`: the socket is destroyed
  one tick after the last push, with what the client has not read.

## Proofs

TLAPS proves the following for every value of the constants that satisfies the
modules' assumptions.

`LeasePoolProofs`
- `TypeCorrect`.
- `LeasesUsedOnce`: `LeaseInv` adds to `LeaseUsedOnce` that an idle lease is in
  its own Guest's list, once, opened and never assigned (`IdleSound`), and that
  an assigned lease was opened (`AssignedOpened`). Without `IdleSound` a lease
  could be idle and assigned, and be assigned again.
- `QueuesSound`: `QueueInv` adds that a hop decision that is not stale was asked
  for a Guest that is still registered (`FreshTargets`): the reason why the
  target looked up before the wait may be used after it.
- `NobodyWaitsNextToALease`: from the same invariants.

`RouteAuthorizerProofs`
- `TypeCorrect`: nothing is assumed of configured TTLs, so that an expiry is a safe
  integer, infinity, or the time of an answer plus a configured TTL; for TTLs the
  policy returns, `Malformed` keeps expiries safe integers.
- `FlightIsSingle`: `FlightInv` says that `pendingDecisions` holds exactly the
  decisions in flight that were not revoked (`PendingExact`).
- `CachesAreCurrent`, `AllowsAreCurrent`: `AuthorizerInv` adds that a pair with a
  pending decision has no live cached answer (`PendingIsMiss`, so inserting one
  verdict cannot contradict the other cache), that the code's staleness test
  finds every overtaken decision (`StaleIsFound`), and that a waiting call waits
  for a decision about its own pair (`AwaitsSound`).

`FederatedStreamsProofs`
- `StreamsAccounted`: `StreamInv` says that the entry of the upstream Host holds
  only attached streams, each once (`EntryKnowsAttached`), in the fields of its
  policy (`EntryShape`), marks as in use every open stream a request holds
  (`HeldIsCounted`) or has left half-open (`LeftIsCounted`), and queues each waiter
  once (`QueueSound`).
- `NoStreamIsLost`, `NobodyWaitsInVain`: conjuncts of it.
- `StreamsAreSingleUse`: `Spec => SingleUse`. The initial state maps to that of
  `StreamPairing` and, under `StreamInv`, each step to a step or a stutter. That a
  granted stream was free is where `HeldIsCounted` and `EntryShape` are needed.

`FederatedStreamsProofs`, on `FederationRoutes`: for every graph of Hosts, set of
aliases, hop limit and size of the set of seen IDs, Hosts that dial each other included
- `RoutesHaveNoLoop`: `FederationTypeOK` is inductive. No frame and no import holds a
  route that visits a Host twice, comes back to a Host it went through or exceeds
  the hop limit, and the set of seen IDs stays within its bound.
- `LinksAreInStep`: `LinkInv` says of every link that an open session is the one its
  downstream Host dials or holds, and one that it holds is known to the upstream
  Host with its route stream (`SessionInStep`); that the upstream Host has a session
  with a handler on its close or whose close is on its way, and handlers run only for
  sessions that are gone (`CloseInStep`); and that frames are read on a session the
  reader has or dials (`WireInStep`).
- `ImportsNeedALink`, `EndsAgree`: `ImportsHaveLink`, and `SessionsAgree`, which is the
  part of `Converged` about sessions.

The last three are about both close handlers as separate events, in any order and with
any step in between. Overtaken links are their exception, and `overtaken` gains a link
in one place only: `removeInboundFederationHost`, when the session of the entry is not
that of the handler.

`HostRoutesProofs`
- `HostRoutesSound`: `HostInv`. A remote Guest is registered with a session that
  claims it (`ClaimsMatch`). About Brokers: one is as good as the frames it has
  not read, that is, the last frame on its way is the table of the Host
  (`LastFrameIsTable`), a lifecycle frame reports as degraded only routes the
  Broker has by then (`DegradedAreKnown`), what its listeners will take for
  degraded once the frames are read is degraded if they were told so over this
  connection (`NoStaleFrames`), and they keep only routes of the snapshot
  (`ToldIsListed`).
- `NoGuestOutlivesItsSession`, `DegradedRoutesArePending`, `BrokersConverge`,
  `ListenersAreCurrent`, `NoWaiterForgotten`: each from `HostInv`; those about
  Brokers are its parts for a channel that is empty.

`LeasedRequestProofs`
- `LeasesInStep`: `RelayInv` is the Guest's half, `GuestInv` (on an open lease the
  response has started exactly if its head is written, only a closed lease tells
  of an abort or its end, the dispatch and the stream tell the handler once each),
  and the Host's: a Broker under the pipe has what was read (`RelayInStep`), an end
  is final (`EndedIsFinal`), and `cancelLease` stops listening only when there is
  nothing left to cancel (`AbortHeard`).
- `GuestKeepsContract`, `ResponsesAreWhole`, `AbortsReachLeases`.

`LeasedRequestProofs`, on `NodeGuest`
- `GuestPoolKeepsItsSize`: `PoolInv` adds that the leases in the map have a stream
  (`MapHoldsStreams`), so that a stream the loop opens is a new one and the map
  grows by as many as the loop opens.

`WebSocketOpenProofs`
- `OpensSound`: `OpenInv` adds to the two properties that an open has a destination
  exactly while its handler works with it (`DestinationsOpened`), that idle leases
  are open and listed once (`IdleLeasesOpen`), and that the pool stream of an entry is
  the only one of its link that has not closed, and none is open without a session
  (`OnePoolStream`).
- `OpensArePaired`, `StreamsDoNotLeak`.

`WebSocketOpenProofs`, on `WebSocketEndpoint`: for any number of messages and size of
the queues, with either end native or not
- `EndpointInvariant`: `EndpointInv` says of each socket at which stage of the accept
  frame each queue may hold something (`StagesInStep`), that the log has the messages
  of each queue in order and without a gap (`LogInOrder`), that the queue before the
  accept frame, with the flush it becomes, and the queue behind it go on where the
  log stops (`FirstInOrder`, `SecondInOrder`), and that what was read from the peer's
  log is what arrived (`ReadsInOrder`). Reading a chunk handles any number of frames:
  the proof follows the loop by induction over its turns.
- `EndpointTypeCorrect`, with the limits of the queues, `OneCloseEvent`,
  `DeliveryInOrder`, `PauseIsHeld`, `SendsAreHeld`: each from `EndpointInv`.

`BrokerRequestsProofs`
- `DispatchSound`: `DispatchInv` adds that the callbacks made are those of the
  position of the dispatch (`CallsInStep`), that the replay buffer has all that was
  read or is given up and a decision to replay was made with the whole upload
  (`BufferExact`), and that the limits have room where the code goes on
  (`LimitsKept`). `NothingLeft` has a part of its own about dispatches that fail
  before the body is attached: the source is as the caller gave it.
- `DispatchEndsOnce`, `ReplaysAreWhole`.

`BrokerRequestsProofs`, on `BrokerSocket`: for requests and limits of any size
- `SocketAddsUp`: `SocketInv` says that every unit the client wrote is in the head, in
  the decoder or in the body, and that a write that need not wait leaves less than a
  size line or a chunk behind, until the answer is over or `_final` has run
  (`BytesAddUp`); that the body stream was given whole
  chunks (`StreamShape`); and how the call, the response and the end of the socket
  follow each other (`CallInStep`). What `flush` returns is proved by induction over
  the bytes it is given.
- `SocketsSound`.

Each inductive invariant was first model-checked on the instance of its module's
run.

Only model-checked:
- liveness, everywhere: out of the prover's reach;
- `Converged` (but for `SessionsAgree`), `RoutesLeadHome` and `BrokerKnows` of
  `FederationRoutes`. They do not hold for every value of the constants: not in a
  cycle (see Findings), not with two restarts and four changes and not with three
  changes and an aliased link (see "Known observations"). What the run shows holds for a line of
  Hosts within its bounds.

That `Without` is `Array.filter` on arrays without repetition is an assumption
TLC evaluates in `MCLeasePool`.

## What could follow

- The candidate loop of federated HTTP requests (`host/broker-routing.ts:791`), which
  `WebSocketOpen` models for WebSockets.
- The Python clients where they differ from the Node ones.
- Wire helpers as operators against reference definitions: NDJSON framing, domain
  normalization.

## Not modelled

- TLS option loading: file I/O and the TLS library.
- The Bun adapter and the common Guest helpers: translation of requests and
  responses on top of what `NodeGuest` and `GuestDispatch` model.
- The Python Guest and Broker: the same protocol in another concurrency model
  (asyncio); see "What could follow".
- Header validation and serialization, domain normalization, envelopes as text:
  pure functions on data, left to unit tests.
- The unauthorized-client handler: one reply per rejected connection, no state.
- Several certificate-backed sessions sharing a Broker ID; the authorization
  callback of a Host peering, which refuses before any state is kept; requests to
  Guests attached in process, which use no lease.
- Type declarations. HTTP/2 itself is taken as given: streams are reliable and
  ordered, and a closed session closes its streams.
