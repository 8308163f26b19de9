-------------------------- MODULE WebSocketOpenProofs --------------------------
(***************************************************************************)
(* Opens and streams stay paired and no stream leaks, for any number of    *)
(* opens, candidates and streams and any limits on leases and waiters.     *)
(*                                                                         *)
(* Most steps of an open end in one of two ways: its candidate fails, or a *)
(* destination is there and the open is forwarded.  Each has a lemma, and  *)
(* the actions are cases of them.                                          *)
(*                                                                         *)
(* The second part is about what an open leads to: the two sockets of      *)
(* WebSocketEndpoint, for any number of send() calls, any queue limit and  *)
(* either kind of socket.                                                  *)
(***************************************************************************)
EXTENDS WebSocketOpen, WebSocketEndpoint, ArrayProofs, TLAPS

StreamStates == {"none", "open", "closing", "closed"}

\* Closing a stream changes that stream only, and only if it is open.
LEMMA ClosingProperties ==
    ASSUME NEW st \in [Streams -> StreamStates], NEW d \in Streams \cup {None}
    PROVE  /\ Closing(st, d) \in [Streams -> StreamStates]
           /\ \A s \in Streams : s # d => Closing(st, d)[s] = st[s]
           /\ d # None => Closing(st, d)[d] = IF st[d] = "open" THEN "closing" ELSE st[d]
BY OpenConstants DEF Closing, StreamStates

\* What an open holds, and what is idle, in terms of the streams.
LEMMA HeldProperties ==
    ASSUME OpenInv
    PROVE  /\ stream \in [Streams -> StreamStates]
           /\ dest \in [Opens -> Streams \cup {None}]
           /\ vwsStream \in Streams \cup {None}
           /\ waiters \in Seq(Opens) /\ Len(waiters) \in Nat /\ Len(waiters) <= MaxWaiters
           /\ idle \in Seq(Leases) /\ Len(idle) \in Nat /\ Len(idle) <= MaxIdle
           /\ Elements(waiters) \subseteq Opens
           /\ Elements(idle) \subseteq Leases
           /\ \A p \in Opens : dest[p] \notin Elements(idle)
<1>1. /\ stream \in [Streams -> StreamStates]
      /\ dest \in [Opens -> Streams \cup {None}]
      /\ vwsStream \in Streams \cup {None}
  BY DEF OpenInv, TypeOK, StreamStates, Streams
<1>2. waiters \in Seq(Opens) /\ Len(waiters) <= MaxWaiters
      /\ idle \in Seq(Leases) /\ Len(idle) <= MaxIdle
  BY DEF OpenInv, TypeOK
<1>3. Len(waiters) \in Nat /\ Len(idle) \in Nat
  BY <1>2
<1>4. Elements(waiters) \subseteq Opens
  BY <1>2 DEF Elements
<1>5. Elements(idle) \subseteq Leases
  BY <1>2 DEF Elements
<1>6. None \notin Elements(idle)
  BY <1>5, OpenConstants DEF Streams
<1>7. \A p \in Opens : dest[p] \notin Elements(idle)
  BY <1>6 DEF OpenInv, OneOpenPerStream
<1> QED BY <1>1, <1>2, <1>3, <1>4, <1>5, <1>7

\* An open stream that is neither an idle lease nor the free pool stream has an owner.
LEMMA OwnerExists ==
    ASSUME OpenInv, NEW t \in Streams, stream[t] = "open",
           t \notin Elements(idle), ~Spare(t)
    PROVE  \E q \in Opens : /\ dest[q] = t
                            /\ \/ pc[q] \in {"opening", "acquired", "negotiate"}
                               \/ pc[q] = "bridged" /\ source[q] # "closed"
BY DEF OpenInv, NoStreamLeaked

\* A candidate that fails: what the open held is closed and it holds nothing.
LEMMA CandidateFailsKeeps ==
    ASSUME OpenInv, NEW o \in Opens, NEW live \in BOOLEAN,
           CandidateFails(o, live),
           waiters' = Without(waiters, o),
           source' \in [Opens -> {"live", "unregistered", "closed"}],
           \A p \in Opens \ {o} : source'[p] = source[p],
           UNCHANGED <<idle, guest, inbound, vwsStream, vwsBusy, acquirer, session, orphan>>
    PROVE  OpenInv'
<1> USE DEF OpenInv, Spare
<1>0. dest[o] \in Streams \cup {None} /\ stream \in [Streams -> StreamStates]
  BY HeldProperties
<1>1. /\ stream' \in [Streams -> StreamStates]
      /\ \A s \in Streams : s # dest[o] => stream'[s] = stream[s]
      /\ dest[o] # None => stream'[dest[o]] = IF stream[dest[o]] = "open" THEN "closing"
                                              ELSE stream[dest[o]]
  BY <1>0, ClosingProperties DEF CandidateFails
<1>2. /\ dest' = [dest EXCEPT ![o] = None]
      /\ \A p \in Opens : dest'[p] = IF p = o THEN None ELSE dest[p]
      /\ pc'[o] \in {"next", "failed"}
      /\ \A p \in Opens \ {o} : pc'[p] = pc[p]
      /\ pc' \in [Opens -> {"next"} \cup Waits \cup Settled]
      /\ tried' \in [Opens -> Nat]
  <2>1. pc \in [Opens -> {"next"} \cup Waits \cup Settled] /\ tried \in [Opens -> Nat]
        /\ dest \in [Opens -> Streams \cup {None}]
    BY DEF TypeOK
  <2>2. CASE live
    BY <2>1, <2>2 DEF CandidateFails
  <2>3. CASE ~live
    BY <2>1, <2>3 DEF CandidateFails, Settled
  <2> QED BY <2>2, <2>3
<1>3. /\ waiters' \in Seq(Opens)
      /\ Len(waiters') <= Len(waiters)
      /\ Elements(waiters') = Elements(waiters) \ {o}
      /\ Distinct(waiters')
  BY WithoutProperties, WithoutLen DEF TypeOK, WaitersWait
<1>4. TypeOK'
  <2>1. Len(waiters') <= MaxWaiters
    <3>1. Len(waiters') \in Nat
      BY <1>3
    <3> QED BY <1>3, <3>1, HeldProperties, OpenConstants
  <2> QED BY <1>1, <1>2, <1>3, <2>1 DEF TypeOK, StreamStates
<1>5. OneOpenPerStream'
  BY <1>2 DEF OneOpenPerStream, TypeOK
<1>6. WaitersWait'
  <2>1. waiters' # <<>> => waiters # <<>>
    BY <1>3, EmptyProperties DEF Elements
  <2>2. PoolAvailable(stream)' => PoolAvailable(stream)
    BY <1>1, HeldProperties DEF PoolAvailable
  <2>3. Elements(waiters') = {p \in Opens : pc'[p] = "waiting"}
    BY <1>2, <1>3 DEF WaitersWait
  <2> QED BY <1>3, <2>1, <2>2, <2>3 DEF WaitersWait, PoolAvailable
<1>7. NoStreamLeaked'
  <2> SUFFICES ASSUME NEW s \in Streams, stream'[s] = "open"
               PROVE  NoStreamLeaked!(s)'
    BY DEF NoStreamLeaked
  <2>1. s # dest[o] /\ stream[s] = "open"
    BY <1>1, OpenConstants DEF TypeOK, StreamStates
  <2> QED BY <2>1, <1>2 DEF NoStreamLeaked
<1>8. DestinationsOpened'
  <2> SUFFICES ASSUME NEW p \in Opens PROVE DestinationsOpened!(p)'
    BY DEF DestinationsOpened
  <2>1. CASE p = o
    BY <1>2, <2>1
  <2>2. CASE p # o
    <3>1. dest'[p] = dest[p] /\ pc'[p] = pc[p]
      BY <1>2, <2>2
    <3>2. dest[p] # None => stream'[dest[p]] # "none"
      BY <1>0, <1>1, HeldProperties DEF DestinationsOpened
    <3> QED BY <3>1, <3>2 DEF DestinationsOpened
  <2> QED BY <2>1, <2>2
<1>9. IdleLeasesOpen'
  <2>1. \A l \in Elements(idle) : l \in Streams /\ l # dest[o]
    BY HeldProperties DEF Streams
  <2> QED BY <1>1, <2>1 DEF IdleLeasesOpen
<1>10. OnePoolStream'
  BY <1>1, OpenConstants DEF OnePoolStream, TypeOK, Streams, StreamStates
<1> QED BY <1>4, <1>5, <1>6, <1>7, <1>8, <1>9, <1>10

\* The same for an open that is not in line: the line is as it was.
LEMMA CandidateFailsOutOfLine ==
    ASSUME OpenInv, NEW o \in Opens, pc[o] # "waiting", NEW live \in BOOLEAN,
           CandidateFails(o, live),
           UNCHANGED <<idle, guest, source, pool>>
    PROVE  OpenInv'
<1>1. o \notin Elements(waiters)
  BY DEF OpenInv, WaitersWait
<1>2. Without(waiters, o) = waiters
  BY <1>1 DEF Without
<1>3. /\ waiters' = Without(waiters, o)
      /\ source' \in [Opens -> {"live", "unregistered", "closed"}]
      /\ \A p \in Opens \ {o} : source'[p] = source[p]
      /\ UNCHANGED <<idle, guest, inbound, vwsStream, vwsBusy, acquirer, session, orphan>>
  BY <1>2 DEF pool, OpenInv, TypeOK
<1> QED BY <1>3, CandidateFailsKeeps

\* A destination s that nobody else has, and that the idle leases no longer have,
\* is taken for the negotiation, or closed when the source is gone.
LEMMA ForwardOpenKeeps ==
    ASSUME OpenInv, NEW o \in Opens, pc[o] # "waiting",
           NEW s \in Streams, stream[s] # "none", dest[o] \in {None, s},
           \A p \in Opens \ {o} : dest[p] # s,
           s = vwsStream /\ inbound => vwsBusy,
           ForwardOpen(o, s),
           idle' \in Seq(Leases), Len(idle') <= MaxIdle, Distinct(idle'),
           Elements(idle') = Elements(idle) \ {s},
           UNCHANGED <<guest, source, pool>>
    PROVE  OpenInv'
<1> USE DEF OpenInv, Spare
<1>0. /\ stream \in [Streams -> StreamStates] /\ s # None
      /\ dest \in [Opens -> Streams \cup {None}]
      /\ UNCHANGED <<inbound, vwsStream, vwsBusy, waiters, acquirer, session, orphan>>
  BY HeldProperties, OpenConstants DEF pool
<1>1. /\ stream' \in [Streams -> StreamStates]
      /\ \A t \in Streams : t # s => stream'[t] = stream[t]
      /\ stream'[s] # "none"
      /\ stream'[s] = "open" => stream[s] = "open" /\ pc'[o] = "negotiate" /\ dest'[o] = s
      /\ stream[s] \in {"closed", "closing"} => stream'[s] = stream[s]
  <2>1. CASE isFederationVwsSourceLive(o)
    BY <1>0, <2>1 DEF ForwardOpen, TypeOK, StreamStates
  <2>2. CASE ~isFederationVwsSourceLive(o)
    <3>1. stream' = Closing(stream, s)
      BY <2>2 DEF ForwardOpen
    <3> QED BY <1>0, <3>1, ClosingProperties DEF StreamStates
  <2> QED BY <2>1, <2>2
<1>2. /\ dest' \in [Opens -> Streams \cup {None}]
      /\ \A p \in Opens \ {o} : dest'[p] = dest[p] /\ pc'[p] = pc[p]
      /\ \/ dest'[o] = s /\ pc'[o] = "negotiate"
         \/ dest'[o] = None /\ pc'[o] = "failed"
      /\ pc' \in [Opens -> {"next"} \cup Waits \cup Settled]
      /\ tried' = tried
  <2>1. pc \in [Opens -> {"next"} \cup Waits \cup Settled]
    BY DEF TypeOK
  <2>2. CASE isFederationVwsSourceLive(o)
    BY <1>0, <2>1, <2>2 DEF ForwardOpen, Waits
  <2>3. CASE ~isFederationVwsSourceLive(o)
    BY <1>0, <2>1, <2>3 DEF ForwardOpen, Settled
  <2> QED BY <2>2, <2>3
<1>4. TypeOK'
  BY <1>0, <1>1, <1>2 DEF TypeOK, StreamStates
<1>5. OneOpenPerStream'
  <2> SUFFICES ASSUME NEW p \in Opens, dest'[p] # None
               PROVE  /\ \A q \in Opens \ {p} : dest'[q] # dest'[p]
                      /\ dest'[p] \notin Elements(idle')
                      /\ dest'[p] = vwsStream' /\ inbound' => vwsBusy'
    BY DEF OneOpenPerStream
  <2>1. CASE p = o
    BY <1>0, <1>2, <2>1
  <2>2. CASE p # o
    BY <1>0, <1>2, <2>2 DEF OneOpenPerStream
  <2> QED BY <2>1, <2>2
<1>6. WaitersWait'
  <2>2. PoolAvailable(stream)' => PoolAvailable(stream)
    BY <1>0, <1>1, HeldProperties DEF PoolAvailable
  <2>3. Elements(waiters') = {p \in Opens : pc'[p] = "waiting"}
    BY <1>0, <1>2 DEF WaitersWait
  <2> QED BY <1>0, <2>2, <2>3 DEF WaitersWait, PoolAvailable
<1>7. NoStreamLeaked'
  <2> SUFFICES ASSUME NEW t \in Streams, stream'[t] = "open"
               PROVE  NoStreamLeaked!(t)'
    BY DEF NoStreamLeaked
  <2>1. CASE t = s
    BY <2>1, <1>1
  <2>2. CASE t # s
    <3>1. stream[t] = "open" /\ dest[o] # t
      BY <2>2, <1>1, <1>0, OpenConstants
    <3>2. t \in Elements(idle) => t \in Elements(idle')
      BY <2>2
    <3>3. CASE t \in Elements(idle) \/ Spare(t)
      BY <1>0, <3>2, <3>3
    <3>4. CASE ~(t \in Elements(idle) \/ Spare(t))
      <4>1. PICK q \in Opens :
               /\ dest[q] = t
               /\ \/ pc[q] \in {"opening", "acquired", "negotiate"}
                  \/ pc[q] = "bridged" /\ source[q] # "closed"
        BY <3>1, <3>4, OwnerExists
      <4>2. q # o
        BY <3>1, <4>1
      <4>3. dest'[q] = t /\ pc'[q] = pc[q] /\ source'[q] = source[q]
        BY <1>2, <4>1, <4>2
      <4> QED BY <4>1, <4>3
    <3> QED BY <3>3, <3>4
  <2> QED BY <2>1, <2>2
<1>8. DestinationsOpened'
  <2> SUFFICES ASSUME NEW p \in Opens PROVE DestinationsOpened!(p)'
    BY DEF DestinationsOpened
  <2>1. CASE p = o
    BY <1>0, <1>1, <1>2, <2>1
  <2>2. CASE p # o
    <3>1. dest'[p] = dest[p] /\ pc'[p] = pc[p]
      BY <1>2, <2>2
    <3>2. dest[p] # None => stream'[dest[p]] # "none"
      BY <1>0, <1>1 DEF DestinationsOpened
    <3> QED BY <3>1, <3>2 DEF DestinationsOpened
  <2> QED BY <2>1, <2>2
<1>9. IdleLeasesOpen'
  <2>1. \A l \in Elements(idle') : l \in Streams /\ l # s /\ l \in Elements(idle)
    BY HeldProperties DEF Streams
  <2> QED BY <1>1, <2>1 DEF IdleLeasesOpen
<1>10. OnePoolStream'
  <2>1. \A t \in Streams : /\ stream'[t] \in {"open", "closing"} => stream[t] \in {"open", "closing"}
                           /\ stream'[t] = "open" => stream[t] = "open"
                           /\ stream[t] # "none" => stream'[t] # "none"
    BY <1>0, <1>1 DEF StreamStates
  <2>2. vwsStream # None => vwsStream \in Streams
    BY HeldProperties
  <2>3. PoolStreams \subseteq Streams
    BY DEF Streams
  <2> QED BY <1>0, <2>1, <2>2, <2>3 DEF OnePoolStream
<1> QED BY <1>4, <1>5, <1>6, <1>7, <1>8, <1>9, <1>10

\* The streams of an open before its handler has a destination: none.
LEMMA NoDestination ==
    ASSUME OpenInv, NEW o \in Opens, pc[o] \in {"next", "authorize", "waiting", "failed"}
    PROVE  dest[o] = None
BY DEF OpenInv, DestinationsOpened

\* The handler goes on, or gives up, without a stream.
LEMMA GoesOnKeeps ==
    ASSUME OpenInv, NEW o \in Opens, pc[o] \in {"next", "authorize"},
           NEW k \in {"next", "authorize", "failed"}, pc' = [pc EXCEPT ![o] = k],
           tried' \in [Opens -> Nat],
           UNCHANGED <<stream, idle, guest, source, pool, dest>>
    PROVE  OpenInv'
<1> USE DEF OpenInv, Spare
<1>1. /\ UNCHANGED <<inbound, vwsStream, vwsBusy, waiters, acquirer, session, orphan>>
      /\ \A p \in Opens : pc'[p] = IF p = o THEN k ELSE pc[p]
      /\ pc' \in [Opens -> {"next"} \cup Waits \cup Settled]
  BY DEF pool, TypeOK, Waits, Settled
<1>2. TypeOK'
  BY <1>1 DEF TypeOK
<1>3. OneOpenPerStream'
  BY <1>1 DEF OneOpenPerStream
<1>4. WaitersWait'
  <2>1. Elements(waiters') = {p \in Opens : pc'[p] = "waiting"}
    BY <1>1 DEF WaitersWait
  <2> QED BY <1>1, <2>1 DEF WaitersWait, PoolAvailable
<1>5. NoStreamLeaked'
  <2>1. \A p \in Opens : pc[p] \in {"opening", "acquired", "negotiate", "bridged"} => pc'[p] = pc[p]
    BY <1>1
  <2> QED BY <1>1, <2>1 DEF NoStreamLeaked
<1>6. DestinationsOpened'
  <2>1. dest[o] = None
    BY NoDestination
  <2> QED BY <1>1, <2>1 DEF DestinationsOpened
<1>7. IdleLeasesOpen'
  BY DEF IdleLeasesOpen
<1>8. OnePoolStream'
  BY <1>1 DEF OnePoolStream
<1> QED BY <1>2, <1>3, <1>4, <1>5, <1>6, <1>7, <1>8

\* The free pool stream is reserved for an open that asks for it.
LEMMA PoolReserved ==
    ASSUME OpenInv, NEW o \in Opens, pc[o] \in {"next", "authorize"},
           PoolAvailable(stream),
           vwsBusy' = TRUE,
           dest' = [dest EXCEPT ![o] = vwsStream],
           pc' = [pc EXCEPT ![o] = "acquired"],
           UNCHANGED <<stream, idle, guest, source, inbound, vwsStream, waiters, acquirer, session,
                     orphan, tried>>
    PROVE  OpenInv'
<1> USE DEF OpenInv, Spare
<1>1. /\ vwsStream \in PoolStreams /\ vwsStream # None
      /\ stream[vwsStream] = "open" /\ ~vwsBusy /\ inbound
  BY DEF PoolAvailable, TypeOK
<1>2. /\ \A p \in Opens : dest'[p] = IF p = o THEN vwsStream ELSE dest[p]
      /\ \A p \in Opens : pc'[p] = IF p = o THEN "acquired" ELSE pc[p]
      /\ pc' \in [Opens -> {"next"} \cup Waits \cup Settled]
      /\ dest' \in [Opens -> Streams \cup {None}]
  BY <1>1 DEF TypeOK, Waits, Streams
<1>3. \A p \in Opens : dest[p] # vwsStream
  BY <1>1 DEF OneOpenPerStream
<1>4. TypeOK'
  BY <1>2 DEF TypeOK
<1>5. OneOpenPerStream'
  <2>1. vwsStream \notin Elements(idle)
    BY <1>1, HeldProperties, OpenConstants
  <2> QED BY <1>1, <1>2, <1>3, <2>1 DEF OneOpenPerStream
<1>6. WaitersWait'
  <2>1. Elements(waiters') = {p \in Opens : pc'[p] = "waiting"}
    BY <1>2 DEF WaitersWait
  <2> QED BY <2>1 DEF WaitersWait, PoolAvailable
<1>7. NoStreamLeaked'
  <2> SUFFICES ASSUME NEW t \in Streams, stream[t] = "open"
               PROVE  NoStreamLeaked!(t)'
    BY DEF NoStreamLeaked
  <2>1. CASE t = vwsStream
    BY <2>1, <1>2
  <2>2. CASE t # vwsStream /\ t \notin Elements(idle)
    <3>1. PICK q \in Opens :
             /\ dest[q] = t
             /\ \/ pc[q] \in {"opening", "acquired", "negotiate"}
                \/ pc[q] = "bridged" /\ source[q] # "closed"
      BY <1>1, <2>2, OpenConstants, OwnerExists DEF OnePoolStream, Streams
    <3>2. q # o
      BY <3>1
    <3>3. dest'[q] = t /\ pc'[q] = pc[q] /\ source'[q] = source[q]
      BY <1>2, <3>1, <3>2
    <3> QED BY <3>1, <3>3
  <2>3. CASE t \in Elements(idle)
    BY <2>3
  <2> QED BY <2>1, <2>2, <2>3
<1>8. DestinationsOpened'
  BY <1>1, <1>2 DEF DestinationsOpened
<1>9. IdleLeasesOpen'
  BY DEF IdleLeasesOpen
<1>10. OnePoolStream'
  BY DEF OnePoolStream
<1> QED BY <1>4, <1>5, <1>6, <1>7, <1>8, <1>9, <1>10

\* An open goes in line for the pool stream.
LEMMA PoolQueued ==
    ASSUME OpenInv, NEW o \in Opens, pc[o] \in {"next", "authorize"},
           Len(waiters) < MaxWaiters, ~PoolAvailable(stream),
           waiters' = Append(waiters, o),
           pc' = [pc EXCEPT ![o] = "waiting"],
           UNCHANGED <<stream, idle, guest, source, inbound, vwsStream, vwsBusy, acquirer, session, orphan,
                       tried, dest>>
    PROVE  OpenInv'
<1> USE DEF OpenInv, Spare
<1>1. /\ \A p \in Opens : pc'[p] = IF p = o THEN "waiting" ELSE pc[p]
      /\ pc' \in [Opens -> {"next"} \cup Waits \cup Settled]
  BY DEF TypeOK, Waits
<1>2. /\ waiters' \in Seq(Opens)
      /\ Len(waiters') <= MaxWaiters
      /\ Elements(waiters') = Elements(waiters) \cup {o}
      /\ Distinct(waiters')
  <2>1. o \notin Elements(waiters) /\ Distinct(waiters)
    BY DEF WaitersWait
  <2>2. waiters \in Seq(Opens) /\ Len(waiters) \in Nat
    BY HeldProperties
  <2>3. Len(waiters') = Len(waiters) + 1
    BY <2>2, AppendIndexes
  <2> QED BY <2>1, <2>2, <2>3, AppendProperties, OpenConstants
<1>3. TypeOK'
  BY <1>1, <1>2 DEF TypeOK
<1>4. OneOpenPerStream'
  BY DEF OneOpenPerStream
<1>5. WaitersWait'
  <2>1. Elements(waiters') = {p \in Opens : pc'[p] = "waiting"}
    BY <1>1, <1>2 DEF WaitersWait
  <2> QED BY <1>2, <2>1 DEF WaitersWait, PoolAvailable
<1>6. NoStreamLeaked'
  <2>1. \A p \in Opens : pc[p] \in {"opening", "acquired", "negotiate", "bridged"} => pc'[p] = pc[p]
    BY <1>1
  <2> QED BY <2>1 DEF NoStreamLeaked
<1>7. DestinationsOpened'
  <2>1. dest[o] = None
    BY NoDestination
  <2> QED BY <1>1, <2>1 DEF DestinationsOpened
<1>8. IdleLeasesOpen' /\ OnePoolStream'
  BY DEF IdleLeasesOpen, OnePoolStream
<1> QED BY <1>3, <1>4, <1>5, <1>6, <1>7, <1>8

\* A stream is opened to the upstream for the open.
LEMMA UpstreamOpened ==
    ASSUME OpenInv, NEW o \in Opens, pc[o] \in {"next", "authorize"},
           NEW s \in UpStreams, stream[s] = "none",
           stream' = [stream EXCEPT ![s] = "open"],
           dest' = [dest EXCEPT ![o] = s],
           pc' = [pc EXCEPT ![o] = "opening"],
           UNCHANGED <<idle, guest, source, pool, tried>>
    PROVE  OpenInv'
<1> USE DEF OpenInv, Spare
<1>0. UNCHANGED <<inbound, vwsStream, vwsBusy, waiters, acquirer, session, orphan>>
  BY DEF pool
<1>1. /\ s \in Streams /\ s # None /\ s \notin PoolStreams /\ s \notin Leases
      /\ s # vwsStream
      /\ stream \in [Streams -> StreamStates]
      /\ stream' \in [Streams -> StreamStates]
      /\ \A t \in Streams : stream'[t] = IF t = s THEN "open" ELSE stream[t]
  BY OpenConstants, HeldProperties DEF TypeOK, Streams, StreamStates
<1>2. /\ \A p \in Opens : dest'[p] = IF p = o THEN s ELSE dest[p]
      /\ \A p \in Opens : pc'[p] = IF p = o THEN "opening" ELSE pc[p]
      /\ pc' \in [Opens -> {"next"} \cup Waits \cup Settled]
      /\ dest' \in [Opens -> Streams \cup {None}]
  BY <1>1 DEF TypeOK, Waits
<1>3. \A p \in Opens : dest[p] # s
  BY <1>1 DEF DestinationsOpened
<1>4. TypeOK'
  BY <1>0, <1>1, <1>2 DEF TypeOK, StreamStates
<1>5. OneOpenPerStream'
  <2>1. s \notin Elements(idle)
    BY <1>1, HeldProperties
  <2> QED BY <1>0, <1>1, <1>2, <1>3, <2>1 DEF OneOpenPerStream
<1>6. WaitersWait'
  <2>1. Elements(waiters') = {p \in Opens : pc'[p] = "waiting"}
    BY <1>0, <1>2 DEF WaitersWait
  <2>2. PoolAvailable(stream)' => PoolAvailable(stream)
    BY <1>0, <1>1, HeldProperties DEF PoolAvailable
  <2> QED BY <1>0, <2>1, <2>2 DEF WaitersWait, PoolAvailable
<1>7. NoStreamLeaked'
  <2> SUFFICES ASSUME NEW t \in Streams, stream'[t] = "open"
               PROVE  NoStreamLeaked!(t)'
    BY DEF NoStreamLeaked
  <2>1. CASE t = s
    BY <2>1, <1>2
  <2>2. CASE t # s /\ t \notin Elements(idle) /\ ~Spare(t)
    <3>1. PICK q \in Opens :
             /\ dest[q] = t
             /\ \/ pc[q] \in {"opening", "acquired", "negotiate"}
                \/ pc[q] = "bridged" /\ source[q] # "closed"
      BY <1>1, <2>2, OwnerExists
    <3>2. q # o
      BY <3>1
    <3>3. dest'[q] = t /\ pc'[q] = pc[q] /\ source'[q] = source[q]
      BY <1>2, <3>1, <3>2
    <3> QED BY <3>1, <3>3
  <2>3. CASE t \in Elements(idle) \/ Spare(t)
    BY <2>3, <1>0
  <2> QED BY <2>1, <2>2, <2>3
<1>8. DestinationsOpened'
  <2> SUFFICES ASSUME NEW p \in Opens PROVE DestinationsOpened!(p)'
    BY DEF DestinationsOpened
  <2>1. dest[p] # None => stream'[dest[p]] # "none"
    BY <1>1, <1>3, HeldProperties DEF DestinationsOpened
  <2> QED BY <1>1, <1>2, <2>1 DEF DestinationsOpened
<1>9. IdleLeasesOpen'
  <2>1. \A l \in Elements(idle) : l \in Streams /\ l # s
    BY <1>1, HeldProperties DEF Streams
  <2> QED BY <1>1, <2>1 DEF IdleLeasesOpen
<1>10. OnePoolStream'
  <2>1. \A t \in PoolStreams : t \in Streams /\ stream'[t] = stream[t]
    BY <1>1 DEF Streams
  <2>2. vwsStream # None => stream'[vwsStream] = stream[vwsStream]
    BY <2>1 DEF TypeOK
  <2> QED BY <1>0, <2>1, <2>2 DEF OnePoolStream
<1> QED BY <1>4, <1>5, <1>6, <1>7, <1>8, <1>9, <1>10

\* Whatever the candidate is, and whether or not it can be had.
LEMMA AcquireKeeps ==
    ASSUME OpenInv, NEW o \in Opens, pc[o] \in {"next", "authorize"},
           Acquire(o), UNCHANGED <<guest, source>>
    PROVE  OpenInv'
<1>0. dest[o] = None
  BY NoDestination
<1>1. CASE acquireLocal(o) /\ UNCHANGED pool
  <2>1. CASE idle = <<>>
    <3>1. CandidateFails(o, TRUE) /\ UNCHANGED <<idle, guest, source, pool>>
      BY <1>1, <2>1 DEF acquireLocal
    <3> QED BY <3>1, CandidateFailsOutOfLine
  <2>2. CASE idle # <<>>
    <3> DEFINE s == Head(idle)
    <3>1. /\ idle \in Seq(Leases) /\ Len(idle) \in Nat /\ Len(idle) <= MaxIdle
          /\ Elements(idle) \subseteq Leases /\ Distinct(idle)
      BY HeldProperties DEF OpenInv, IdleLeasesOpen
    <3>2. /\ s \in Leases /\ s \in Elements(idle)
          /\ Tail(idle) \in Seq(Leases) /\ Len(Tail(idle)) = Len(idle) - 1
          /\ Distinct(Tail(idle))
          /\ Elements(Tail(idle)) = Elements(idle) \ {s}
      BY <2>2, <3>1, TailProperties
    <3>3. ForwardOpen(o, s) /\ idle' = Tail(idle) /\ UNCHANGED <<guest, source, pool>>
      BY <1>1, <2>2 DEF acquireLocal
    <3> HIDE DEF s
    <3>4. s \in Streams /\ stream[s] # "none"
      BY <3>2 DEF Streams, OpenInv, IdleLeasesOpen
    <3>5. \A p \in Opens \ {o} : dest[p] # s
      BY <3>2, HeldProperties
    <3>6. s # vwsStream
      BY <3>2, OpenConstants DEF OpenInv, TypeOK, Streams
    <3>7. idle' \in Seq(Leases) /\ Len(idle') <= MaxIdle /\ Distinct(idle')
          /\ Elements(idle') = Elements(idle) \ {s}
      BY <3>1, <3>2, <3>3, OpenConstants
    <3> QED BY <1>0, <3>3, <3>4, <3>5, <3>6, <3>7, ForwardOpenKeeps
  <2> QED BY <2>1, <2>2
<1>2. CASE waitForFederationVwsPool(o) /\ UNCHANGED idle
  <2>1. CASE CandidateFails(o, TRUE) /\ UNCHANGED <<vwsBusy, waiters>>
    <3>1. UNCHANGED <<idle, guest, source, pool>>
      BY <1>2, <2>1 DEF waitForFederationVwsPool, pool
    <3> QED BY <2>1, <3>1, CandidateFailsOutOfLine
  <2>2. CASE /\ PoolAvailable(stream)
             /\ vwsBusy' = TRUE
             /\ dest' = [dest EXCEPT ![o] = vwsStream]
             /\ pc' = [pc EXCEPT ![o] = "acquired"]
             /\ UNCHANGED <<stream, tried, waiters>>
    BY <1>2, <2>2, PoolReserved DEF waitForFederationVwsPool
  <2>3. CASE /\ Len(waiters) < MaxWaiters /\ ~PoolAvailable(stream)
             /\ waiters' = Append(waiters, o)
             /\ pc' = [pc EXCEPT ![o] = "waiting"]
             /\ UNCHANGED <<stream, tried, dest, vwsBusy>>
    BY <1>2, <2>3, PoolQueued DEF waitForFederationVwsPool
  <2> QED BY <1>2, <2>1, <2>2, <2>3 DEF waitForFederationVwsPool
<1>3. CASE openUpstream(o) /\ UNCHANGED <<idle, pool>>
  <2>1. CASE CandidateFails(o, TRUE)
    BY <1>3, <2>1, CandidateFailsOutOfLine
  <2>2. ASSUME NEW s \in UpStreams,
               /\ stream[s] = "none"
               /\ stream' = [stream EXCEPT ![s] = "open"]
               /\ dest' = [dest EXCEPT ![o] = s]
               /\ pc' = [pc EXCEPT ![o] = "opening"]
               /\ UNCHANGED tried
        PROVE  OpenInv'
    BY <1>3, <2>2, UpstreamOpened
  <2> QED BY <1>3, <2>1, <2>2 DEF openUpstream
<1> QED BY <1>1, <1>2, <1>3 DEF Acquire

----------------------------------------------------------------------------
(* The steps of an open *)

\* One turn of the candidate loop.
LEMMA TryCandidateKeeps ==
    ASSUME OpenInv, NEW o \in Opens, TryCandidate(o) PROVE OpenInv'
<1>0. pc[o] = "next" /\ UNCHANGED <<guest, source>> /\ pc \in [Opens -> {"next"} \cup Waits \cup Settled]
      /\ tried \in [Opens -> Nat]
  BY DEF TryCandidate, OpenInv, TypeOK
<1>1. CASE pc' = [pc EXCEPT ![o] = "failed"] /\ UNCHANGED <<stream, idle, pool, tried, dest>>
  BY <1>0, <1>1, GoesOnKeeps
<1>2. CASE tried' = [tried EXCEPT ![o] = @ + 1] /\ UNCHANGED <<stream, idle, pool, pc, dest>>
  <2>1. tried' \in [Opens -> Nat] /\ pc' = [pc EXCEPT ![o] = "next"]
    BY <1>0, <1>2
  <2> QED BY <1>0, <1>2, <2>1, GoesOnKeeps
<1>3. CASE pc' = [pc EXCEPT ![o] = "authorize"] /\ UNCHANGED <<stream, idle, pool, tried, dest>>
  BY <1>0, <1>3, GoesOnKeeps
<1>4. CASE Acquire(o)
  BY <1>0, <1>4, AcquireKeeps
<1> QED BY <1>1, <1>2, <1>3, <1>4 DEF TryCandidate

\* The verdict of the authorizer.
LEMMA AuthorizedKeeps ==
    ASSUME OpenInv, NEW o \in Opens, Authorized(o) PROVE OpenInv'
<1>0. pc[o] = "authorize" /\ UNCHANGED <<guest, source>> /\ isFederationVwsSourceLive(o) \in BOOLEAN
  BY DEF Authorized, isFederationVwsSourceLive
<1>1. CASE Acquire(o)
  BY <1>0, <1>1, AcquireKeeps
<1>2. CASE CandidateFails(o, isFederationVwsSourceLive(o)) /\ UNCHANGED <<idle, pool>>
  BY <1>0, <1>2, CandidateFailsOutOfLine
<1> QED BY <1>1, <1>2 DEF Authorized

\* The destination the handler has is the one the open is forwarded to.
LEMMA ForwardOwnKeeps ==
    ASSUME OpenInv, NEW o \in Opens, pc[o] \in {"opening", "acquired"},
           ForwardOpen(o, dest[o]), UNCHANGED <<guest, source, idle, pool>>
    PROVE  OpenInv'
<1>1. /\ dest[o] # None /\ dest[o] \in Streams
      /\ stream[dest[o]] # "none"
  BY HeldProperties DEF OpenInv, DestinationsOpened
<1>2. /\ \A p \in Opens \ {o} : dest[p] # dest[o]
      /\ dest[o] = vwsStream /\ inbound => vwsBusy
      /\ dest[o] \notin Elements(idle)
  BY <1>1 DEF OpenInv, OneOpenPerStream
<1>3. /\ idle' \in Seq(Leases) /\ Len(idle') <= MaxIdle /\ Distinct(idle')
      /\ Elements(idle') = Elements(idle) \ {dest[o]}
  BY <1>2, HeldProperties DEF OpenInv, IdleLeasesOpen
<1> QED BY <1>1, <1>2, <1>3, ForwardOpenKeeps

\* The answer of the upstream to a stream opened for the open.
LEMMA UpstreamRespondsKeeps ==
    ASSUME OpenInv, NEW o \in Opens, UpstreamResponds(o) PROVE OpenInv'
<1>0. pc[o] = "opening" /\ UNCHANGED <<guest, source, idle, pool>>
      /\ isFederationVwsSourceLive(o) \in BOOLEAN
  BY DEF UpstreamResponds, isFederationVwsSourceLive
<1>1. CASE ForwardOpen(o, dest[o])
  BY <1>0, <1>1, ForwardOwnKeeps
<1>2. CASE CandidateFails(o, isFederationVwsSourceLive(o))
  BY <1>0, <1>2, CandidateFailsOutOfLine
<1> QED BY <1>1, <1>2 DEF UpstreamResponds

\* The timer of a wait for the pool stream.
LEMMA WaitTimeoutKeeps ==
    ASSUME OpenInv, NEW o \in Opens, WaitTimeout(o) PROVE OpenInv'
<1>1. /\ waiters' = Without(waiters, o)
      /\ CandidateFails(o, isFederationVwsSourceLive(o))
      /\ isFederationVwsSourceLive(o) \in BOOLEAN
      /\ UNCHANGED <<guest, source, idle, inbound, vwsStream, vwsBusy, acquirer, session, orphan>>
      /\ source \in [Opens -> {"live", "unregistered", "closed"}]
  BY DEF WaitTimeout, isFederationVwsSourceLive, OpenInv, TypeOK
<1> QED BY <1>1, CandidateFailsKeeps

\* The accept frame, which bridges the streams.
LEMMA VwsAcceptedKeeps ==
    ASSUME OpenInv, NEW o \in Opens, VwsAccepted(o) PROVE OpenInv'
<1> USE DEF OpenInv, Spare
<1>0. pc[o] = "negotiate" /\ UNCHANGED <<guest, source, idle, pool, tried>>
  BY DEF VwsAccepted
<1>1. CASE isFederationVwsSourceLive(o)
  <2>1. /\ source[o] = "live"
        /\ UNCHANGED <<stream, dest, inbound, vwsStream, vwsBusy, waiters, acquirer, session, orphan>>
        /\ \A p \in Opens : pc'[p] = IF p = o THEN "bridged" ELSE pc[p]
        /\ pc' \in [Opens -> {"next"} \cup Waits \cup Settled]
    BY <1>1, <1>0 DEF VwsAccepted, pool, isFederationVwsSourceLive, TypeOK, Settled
  <2>2. TypeOK'
    BY <1>0, <2>1 DEF TypeOK
  <2>3. OneOpenPerStream'
    BY <1>0, <2>1 DEF OneOpenPerStream
  <2>4. WaitersWait'
    <3>1. Elements(waiters') = {p \in Opens : pc'[p] = "waiting"}
      BY <1>0, <2>1 DEF WaitersWait
    <3> QED BY <2>1, <3>1 DEF WaitersWait, PoolAvailable
  <2>5. NoStreamLeaked'
    <3>1. \A p \in Opens :
             \/ pc[p] \in {"opening", "acquired", "negotiate"}
             \/ pc[p] = "bridged" /\ source[p] # "closed"
             => \/ pc'[p] \in {"opening", "acquired", "negotiate"}
                \/ pc'[p] = "bridged" /\ source'[p] # "closed"
      BY <1>0, <2>1
    <3> QED BY <1>0, <2>1, <3>1 DEF NoStreamLeaked
  <2>6. DestinationsOpened'
    BY <1>0, <2>1 DEF DestinationsOpened
  <2>7. IdleLeasesOpen' /\ OnePoolStream'
    BY <1>0, <2>1 DEF IdleLeasesOpen, OnePoolStream
  <2> QED BY <2>2, <2>3, <2>4, <2>5, <2>6, <2>7
<1>2. CASE ~isFederationVwsSourceLive(o)
  <2>1. CandidateFails(o, FALSE)
    BY <1>0, <1>2 DEF VwsAccepted, CandidateFails
  <2> QED BY <1>0, <2>1, CandidateFailsOutOfLine
<1> QED BY <1>1, <1>2

\* A refusal or a timeout of the negotiation.
LEMMA VwsRefusedKeeps ==
    ASSUME OpenInv, NEW o \in Opens, VwsRefused(o) PROVE OpenInv'
<1>1. /\ pc[o] = "negotiate" /\ isFederationVwsSourceLive(o) \in BOOLEAN
      /\ CandidateFails(o, isFederationVwsSourceLive(o))
      /\ UNCHANGED <<guest, source, idle, pool>>
  BY DEF VwsRefused, isFederationVwsSourceLive
<1> QED BY <1>1, CandidateFailsOutOfLine

\* Only the source of an open changes, and not under a bridge.
LEMMA SourceChangesKeeps ==
    ASSUME OpenInv, NEW o \in Opens, pc[o] # "bridged",
           NEW k \in {"unregistered", "closed"}, source' = [source EXCEPT ![o] = k],
           UNCHANGED <<stream, idle, guest, inbound, vwsStream, vwsBusy, waiters, acquirer, session, orphan,
                       pc, tried, dest>>
    PROVE  OpenInv'
<1> USE DEF OpenInv, Spare
<1>1. /\ \A p \in Opens : p # o => source'[p] = source[p]
      /\ source' \in [Opens -> {"live", "unregistered", "closed"}]
  BY DEF TypeOK
<1>2. TypeOK'
  BY <1>1 DEF TypeOK
<1>3. NoStreamLeaked'
  BY <1>1 DEF NoStreamLeaked
<1>4. /\ OneOpenPerStream' /\ WaitersWait' /\ DestinationsOpened'
      /\ IdleLeasesOpen' /\ OnePoolStream'
  BY DEF OneOpenPerStream, WaitersWait, PoolAvailable, DestinationsOpened, IdleLeasesOpen,
         OnePoolStream
<1> QED BY <1>2, <1>3, <1>4

\* The source is no longer registered.
LEMMA SourceUnregisteredKeeps ==
    ASSUME OpenInv, NEW o \in Opens, SourceUnregistered(o) PROVE OpenInv'
<1>1. /\ pc[o] # "bridged"
      /\ source' = [source EXCEPT ![o] = "unregistered"]
      /\ UNCHANGED <<stream, idle, guest, inbound, vwsStream, vwsBusy, waiters, acquirer, session, orphan,
                     pc, tried, dest>>
  BY DEF SourceUnregistered, pool, Settled
<1> QED BY <1>1, SourceChangesKeeps

\* The source closes: a negotiation or a wait ends, a bridge closes its other side.
LEMMA SourceClosesKeeps ==
    ASSUME OpenInv, NEW o \in Opens, SourceCloses(o) PROVE OpenInv'
<1> USE DEF OpenInv, Spare
<1>0. /\ source' = [source EXCEPT ![o] = "closed"]
      /\ waiters' = Without(waiters, o)
      /\ UNCHANGED <<idle, guest, inbound, vwsStream, vwsBusy, acquirer, session, orphan>>
      /\ \A p \in Opens : source'[p] = IF p = o THEN "closed" ELSE source[p]
      /\ source' \in [Opens -> {"live", "unregistered", "closed"}]
      /\ pc[o] # "waiting" => waiters' = waiters
  BY DEF SourceCloses, TypeOK, WaitersWait, Without
<1>1. CASE CandidateFails(o, FALSE)
  BY <1>0, <1>1, CandidateFailsKeeps
<1>2. CASE /\ pc[o] = "bridged"
           /\ stream' = Closing(stream, dest[o])
           /\ UNCHANGED <<pc, tried, dest>>
  <2>1. /\ dest[o] # None /\ dest[o] \in Streams
        /\ stream \in [Streams -> StreamStates]
        /\ UNCHANGED waiters
    BY <1>0, <1>2, HeldProperties DEF DestinationsOpened
  <2>2. /\ stream' \in [Streams -> StreamStates]
        /\ \A t \in Streams : t # dest[o] => stream'[t] = stream[t]
        /\ stream'[dest[o]] # "open"
        /\ \A t \in Streams : stream[t] # "none" => stream'[t] # "none"
        /\ \A t \in Streams : stream'[t] \in {"open", "closing"} => stream[t] \in {"open", "closing"}
    BY <1>2, <2>1, ClosingProperties DEF StreamStates
  <2>3. TypeOK'
    BY <1>0, <1>2, <2>1, <2>2 DEF TypeOK, StreamStates
  <2>4. OneOpenPerStream'
    BY <1>0, <1>2 DEF OneOpenPerStream
  <2>5. WaitersWait'
    <3>1. PoolAvailable(stream)' => PoolAvailable(stream)
      BY <1>0, <2>2, HeldProperties DEF PoolAvailable
    <3> QED BY <1>2, <2>1, <3>1 DEF WaitersWait, PoolAvailable
  <2>6. NoStreamLeaked'
    <3> SUFFICES ASSUME NEW t \in Streams, stream'[t] = "open"
                 PROVE  NoStreamLeaked!(t)'
      BY DEF NoStreamLeaked
    <3>1. t # dest[o] /\ stream[t] = "open"
      BY <2>2
    <3> QED BY <1>0, <1>2, <3>1 DEF NoStreamLeaked
  <2>7. DestinationsOpened'
    BY <1>2, <2>2, HeldProperties DEF DestinationsOpened
  <2>8. IdleLeasesOpen'
    <3>1. \A l \in Elements(idle) : l \in Streams /\ l # dest[o]
      BY HeldProperties DEF Streams
    <3> QED BY <1>0, <2>2, <3>1 DEF IdleLeasesOpen
  <2>9. OnePoolStream'
    <3>1. PoolStreams \subseteq Streams
      BY DEF Streams
    <3> QED BY <1>0, <2>2, <3>1, HeldProperties DEF OnePoolStream
  <2> QED BY <2>3, <2>4, <2>5, <2>6, <2>7, <2>8, <2>9
<1>3. CASE /\ pc[o] \notin {"waiting", "negotiate", "bridged"}
           /\ UNCHANGED <<stream, pc, tried, dest>>
  BY <1>0, <1>3, SourceChangesKeeps
<1> QED BY <1>1, <1>2, <1>3 DEF SourceCloses

----------------------------------------------------------------------------
(* The steps of a stream, of the Guest and of the link *)

\* A destination closes: it leaves the idle leases, the pool and a negotiation.
LEMMA StreamClosesKeeps ==
    ASSUME OpenInv, NEW s \in Streams, StreamCloses(s) PROVE OpenInv'
<1> USE DEF OpenInv, Spare
<1>0. /\ stream[s] \in {"open", "closing"}
      /\ UNCHANGED <<guest, inbound, vwsBusy, waiters, session>>
      /\ idle' = Without(idle, s)
      /\ vwsStream' = IF vwsStream = s THEN None ELSE vwsStream
      /\ orphan' = IF orphan = s THEN None ELSE orphan
      /\ acquirer' = IF s \in PoolStreams /\ acquirer = "open" THEN "opening" ELSE acquirer
      /\ s # None
  BY OpenConstants DEF StreamCloses
<1>1. /\ stream \in [Streams -> StreamStates]
      /\ stream' \in [Streams -> StreamStates]
      /\ \A t \in Streams : stream'[t] = IF t = s THEN "closed" ELSE stream[t]
  <2>1. stream \in [Streams -> StreamStates] /\ stream' = [stream EXCEPT ![s] = "closed"]
    BY HeldProperties DEF StreamCloses
  <2> QED BY <2>1 DEF StreamStates
<1>2. /\ source' \in [Opens -> {"live", "unregistered", "closed"}]
      /\ \A p \in Opens : dest[p] # s => source'[p] = source[p]
  BY DEF StreamCloses, TypeOK
<1>3. /\ pc' \in [Opens -> {"next"} \cup Waits \cup Settled]
      /\ tried' \in [Opens -> Nat]
      /\ dest' \in [Opens -> Streams \cup {None}]
      /\ \A p \in Opens :
           \/ dest'[p] = dest[p] /\ pc'[p] = pc[p]
           \/ dest[p] = s /\ dest'[p] = None /\ pc[p] = "negotiate" /\ pc'[p] \in {"next", "failed"}
  <2>1. /\ pc \in [Opens -> {"next"} \cup Waits \cup Settled]
        /\ tried \in [Opens -> Nat]
        /\ dest \in [Opens -> Streams \cup {None}]
    BY DEF TypeOK
  <2>2. CASE UNCHANGED <<pc, tried, dest>>
    BY <2>1, <2>2
  <2>3. ASSUME NEW o \in Opens, dest[o] = s, pc[o] = "negotiate",
               dest' = [dest EXCEPT ![o] = None],
               pc' = [pc EXCEPT ![o] = "next"], tried' = [tried EXCEPT ![o] = @ + 1]
        PROVE  <1>3!:
    BY <2>1, <2>3
  <2>4. ASSUME NEW o \in Opens, dest[o] = s, pc[o] = "negotiate",
               dest' = [dest EXCEPT ![o] = None],
               pc' = [pc EXCEPT ![o] = "failed"], UNCHANGED tried
        PROVE  <1>3!:
    BY <2>1, <2>4 DEF Settled
  <2> QED BY <2>2, <2>3, <2>4 DEF StreamCloses
<1>4. /\ idle' \in Seq(Leases) /\ Len(idle') <= MaxIdle
      /\ Elements(idle') = Elements(idle) \ {s}
      /\ Distinct(idle')
  <2>1. idle \in Seq(Leases) /\ Len(idle) \in Nat /\ Len(idle) <= MaxIdle /\ Distinct(idle)
    BY HeldProperties DEF IdleLeasesOpen
  <2>2. /\ idle' \in Seq(Leases) /\ Len(idle') <= Len(idle)
        /\ Elements(idle') = Elements(idle) \ {s}
        /\ Distinct(idle')
    BY <1>0, <2>1, WithoutProperties, WithoutLen
  <2>3. Len(idle') \in Nat
    BY <2>2
  <2> QED BY <2>1, <2>2, <2>3, OpenConstants
<1>5. TypeOK'
  <2>1. {vwsStream', orphan'} \subseteq PoolStreams \cup {None} /\ acquirer' \in {"opening", "open", "gave up"}
    BY <1>0 DEF TypeOK
  <2> QED BY <1>0, <1>1, <1>2, <1>3, <1>4, <2>1 DEF TypeOK, StreamStates
<1>6. OneOpenPerStream'
  <2> SUFFICES ASSUME NEW p \in Opens, dest'[p] # None
               PROVE  /\ \A q \in Opens \ {p} : dest'[q] # dest'[p]
                      /\ dest'[p] \notin Elements(idle')
                      /\ dest'[p] = vwsStream' /\ inbound' => vwsBusy'
    BY DEF OneOpenPerStream
  <2>1. dest'[p] = dest[p]
    BY <1>3
  <2>2. \A q \in Opens : dest'[q] = dest[q] \/ dest'[q] = None
    BY <1>3
  <2> QED BY <1>0, <1>4, <2>1, <2>2 DEF OneOpenPerStream
<1>7. WaitersWait'
  <2>1. Elements(waiters') = {p \in Opens : pc'[p] = "waiting"}
    BY <1>0, <1>3 DEF WaitersWait
  <2>2. PoolAvailable(stream)' => PoolAvailable(stream)
    BY <1>0, <1>1, HeldProperties DEF PoolAvailable
  <2> QED BY <1>0, <2>1, <2>2 DEF WaitersWait, PoolAvailable
<1>8. NoStreamLeaked'
  <2> SUFFICES ASSUME NEW t \in Streams, stream'[t] = "open"
               PROVE  NoStreamLeaked!(t)'
    BY DEF NoStreamLeaked
  <2>1. t # s /\ stream[t] = "open"
    BY <1>1
  <2>2. CASE t \notin Elements(idle) /\ ~Spare(t)
    <3>1. PICK q \in Opens :
             /\ dest[q] = t
             /\ \/ pc[q] \in {"opening", "acquired", "negotiate"}
                \/ pc[q] = "bridged" /\ source[q] # "closed"
      BY <2>1, <2>2, OwnerExists
    <3>2. dest'[q] = t /\ pc'[q] = pc[q] /\ source'[q] = source[q]
      BY <1>2, <1>3, <2>1, <3>1
    <3> QED BY <3>1, <3>2
  <2>3. CASE t \in Elements(idle) \/ Spare(t)
    BY <1>0, <1>4, <2>1, <2>3
  <2> QED BY <2>2, <2>3
<1>9. DestinationsOpened'
  <2> SUFFICES ASSUME NEW p \in Opens PROVE DestinationsOpened!(p)'
    BY DEF DestinationsOpened
  <2>1. dest[p] # None => stream'[dest[p]] # "none"
    BY <1>1, HeldProperties DEF DestinationsOpened
  <2> QED BY <1>3, <2>1 DEF DestinationsOpened
<1>10. IdleLeasesOpen'
  <2>1. \A l \in Elements(idle') : l \in Streams /\ l # s /\ l \in Elements(idle)
    BY <1>4, HeldProperties DEF Streams
  <2> QED BY <1>1, <1>4, <2>1 DEF IdleLeasesOpen
<1>11. OnePoolStream'
  <2>1. \A t \in PoolStreams : t \in Streams
    BY DEF Streams
  <2>2. vwsStream' # None => inbound' /\ stream'[vwsStream'] # "none"
    BY <1>0, <1>1, HeldProperties DEF OnePoolStream
  <2>3. acquirer' = "opening" => vwsStream' = None
    BY <1>0 DEF OnePoolStream
  <2>4. inbound' => \A t \in PoolStreams : stream'[t] \in {"open", "closing"} => t = vwsStream'
    BY <1>0, <1>1, <2>1 DEF OnePoolStream
  <2>5. ~session' => \A t \in PoolStreams : stream'[t] # "open"
    BY <1>0, <1>1, <2>1 DEF OnePoolStream
  <2>6. inbound' => session' /\ orphan' = None
    BY <1>0 DEF OnePoolStream
  <2> QED BY <2>2, <2>3, <2>4, <2>5, <2>6 DEF OnePoolStream
<1> QED BY <1>5, <1>6, <1>7, <1>8, <1>9, <1>10, <1>11

\* The Guest opens a lease, which is refused beyond the limit.
LEMMA AttachKeeps ==
    ASSUME OpenInv, NEW l \in Leases, attachGuestWsLeaseStream(l) PROVE OpenInv'
<1> USE DEF OpenInv, Spare
<1>0. /\ stream[l] = "none"
      /\ UNCHANGED <<guest, inbound, vwsStream, vwsBusy, waiters, acquirer, session, orphan, source, pc, tried, dest>>
      /\ l \in Streams /\ l # None /\ l \notin PoolStreams /\ l # vwsStream
  BY OpenConstants DEF attachGuestWsLeaseStream, pool, Streams, TypeOK
<1>1. /\ idle \in Seq(Leases) /\ Len(idle) \in Nat /\ Len(idle) <= MaxIdle /\ Distinct(idle)
      /\ l \notin Elements(idle)
      /\ stream \in [Streams -> StreamStates]
  BY <1>0, HeldProperties DEF IdleLeasesOpen
<1>2. /\ stream' \in [Streams -> StreamStates]
      /\ \A t \in Streams : t # l => stream'[t] = stream[t]
      /\ stream'[l] # "none"
      /\ stream'[l] = "open" => l \in Elements(idle')
      /\ idle' \in Seq(Leases) /\ Len(idle') <= MaxIdle /\ Distinct(idle')
      /\ Elements(idle) \subseteq Elements(idle')
      /\ \A k \in Elements(idle') : k \in Elements(idle) \/ (k = l /\ stream'[l] = "open")
  <2>1. CASE Len(idle) >= MaxIdle
    <3>1. stream' = [stream EXCEPT ![l] = "closed"] /\ idle' = idle
      BY <2>1 DEF attachGuestWsLeaseStream
    <3> QED BY <1>0, <1>1, <3>1 DEF StreamStates
  <2>2. CASE ~(Len(idle) >= MaxIdle)
    <3>1. stream' = [stream EXCEPT ![l] = "open"] /\ idle' = Append(idle, l)
      BY <2>2 DEF attachGuestWsLeaseStream
    <3>2. /\ idle' \in Seq(Leases) /\ Distinct(idle')
          /\ Elements(idle') = Elements(idle) \cup {l}
          /\ Len(idle') = Len(idle) + 1
      BY <1>1, <3>1, AppendProperties, AppendIndexes
    <3>3. Len(idle') <= MaxIdle
      BY <1>1, <2>2, <3>2, OpenConstants
    <3> QED BY <1>0, <1>1, <3>1, <3>2, <3>3 DEF StreamStates
  <2> QED BY <2>1, <2>2
<1>3. \A p \in Opens : dest[p] # l
  BY <1>0 DEF DestinationsOpened
<1>4. TypeOK'
  BY <1>0, <1>2 DEF TypeOK, StreamStates
<1>5. OneOpenPerStream'
  BY <1>0, <1>2, <1>3 DEF OneOpenPerStream
<1>6. WaitersWait'
  <2>1. PoolAvailable(stream)' => PoolAvailable(stream)
    BY <1>0, <1>2, HeldProperties DEF PoolAvailable
  <2> QED BY <1>0, <2>1 DEF WaitersWait, PoolAvailable
<1>7. NoStreamLeaked'
  <2> SUFFICES ASSUME NEW t \in Streams, stream'[t] = "open"
               PROVE  NoStreamLeaked!(t)'
    BY DEF NoStreamLeaked
  <2>1. CASE t = l
    BY <1>2, <2>1
  <2>2. CASE t # l
    BY <1>0, <1>2, <2>2 DEF NoStreamLeaked
  <2> QED BY <2>1, <2>2
<1>8. DestinationsOpened'
  BY <1>0, <1>2, <1>3, HeldProperties DEF DestinationsOpened
<1>9. IdleLeasesOpen'
  <2>1. Elements(idle) \subseteq Streams
    BY HeldProperties DEF Streams
  <2> QED BY <1>1, <1>2, <2>1 DEF IdleLeasesOpen
<1>10. OnePoolStream'
  <2>1. \A t \in PoolStreams : stream'[t] = stream[t]
    BY <1>0, <1>2 DEF Streams
  <2> QED BY <1>0, <2>1 DEF OnePoolStream, TypeOK
<1> QED BY <1>4, <1>5, <1>6, <1>7, <1>8, <1>9, <1>10

\* Some open streams that are neither idle any more nor the pool stream are closed.
LEMMA StreamsCloseKeeps ==
    ASSUME OpenInv, NEW S \in SUBSET Streams,
           stream' = [s \in Streams |-> IF s \in S /\ stream[s] = "open" THEN "closing" ELSE stream[s]]
    PROVE  /\ stream' \in [Streams -> StreamStates]
           /\ \A t \in Streams : /\ stream'[t] = "open" => stream[t] = "open" /\ t \notin S
                                 /\ t \notin S => stream'[t] = stream[t]
                                 /\ stream[t] # "none" => stream'[t] # "none"
                                 /\ stream'[t] \in {"open", "closing"} => stream[t] \in {"open", "closing"}
<1>1. stream \in [Streams -> StreamStates]
  BY HeldProperties
<1> QED BY <1>1 DEF StreamStates

\* The session of the Guest closes and takes its leases with it.
LEMMA ClearKeeps ==
    ASSUME OpenInv, clearWsIdleLeases PROVE OpenInv'
<1> USE DEF OpenInv, Spare
<1>0. /\ guest' = FALSE /\ idle' = <<>>
      /\ UNCHANGED <<inbound, vwsStream, vwsBusy, waiters, acquirer, session, orphan, source, pc, tried, dest>>
      /\ Leases \in SUBSET Streams
  BY DEF clearWsIdleLeases, pool, Streams
<1>1. /\ stream' \in [Streams -> StreamStates]
      /\ \A t \in Streams : /\ stream'[t] = "open" => stream[t] = "open" /\ t \notin Leases
                            /\ t \notin Leases => stream'[t] = stream[t]
                            /\ stream[t] # "none" => stream'[t] # "none"
  BY <1>0, StreamsCloseKeeps DEF clearWsIdleLeases
<1>2. Elements(idle') = {} /\ Distinct(idle') /\ idle' \in Seq(Leases) /\ Len(idle') = 0
  <2>1. <<>> \in Seq(Leases) /\ Len(<<>>) = 0
    OBVIOUS
  <2> QED BY <1>0, <2>1, EmptyProperties
<1>3. TypeOK'
  <2>1. Len(idle') <= MaxIdle
    BY <1>2, OpenConstants
  <2> QED BY <1>0, <1>1, <1>2, <2>1 DEF TypeOK, StreamStates
<1>4. OneOpenPerStream'
  BY <1>0, <1>2 DEF OneOpenPerStream
<1>5. WaitersWait'
  <2>1. PoolAvailable(stream)' => PoolAvailable(stream)
    BY <1>0, <1>1, HeldProperties DEF PoolAvailable
  <2> QED BY <1>0, <2>1 DEF WaitersWait, PoolAvailable
<1>6. NoStreamLeaked'
  <2> SUFFICES ASSUME NEW t \in Streams, stream'[t] = "open"
               PROVE  NoStreamLeaked!(t)'
    BY DEF NoStreamLeaked
  <2>1. t \notin Elements(idle) /\ stream[t] = "open"
    BY <1>1, HeldProperties
  <2> QED BY <1>0, <2>1 DEF NoStreamLeaked
<1>7. DestinationsOpened'
  BY <1>0, <1>1, HeldProperties DEF DestinationsOpened
<1>8. IdleLeasesOpen'
  BY <1>2 DEF IdleLeasesOpen
<1>9. OnePoolStream'
  <2>1. \A t \in PoolStreams : t \in Streams /\ t \notin Leases
    BY OpenConstants DEF Streams
  <2> QED BY <1>0, <1>1, <2>1, HeldProperties DEF OnePoolStream
<1> QED BY <1>3, <1>4, <1>5, <1>6, <1>7, <1>8, <1>9

\* The entry of the downstream Host is gone, alone or with its session, and every
\* waiter goes on without it.
LEMMA RemoveInboundKeeps ==
    ASSUME OpenInv, EntryRemoved \/ FederationSessionCloses PROVE OpenInv'
<1> USE DEF OpenInv, Spare
<1>0. /\ inbound' = FALSE /\ vwsStream' = None /\ vwsBusy' = FALSE
      /\ acquirer' \in {"gave up", acquirer} /\ waiters' = <<>>
      /\ UNCHANGED <<idle, guest, source, dest>>
      /\ PoolStreams \in SUBSET Streams
      /\ session' \in BOOLEAN /\ orphan' \in PoolStreams \cup {None}
      /\ removeInboundFederationHost
  BY DEF EntryRemoved, FederationSessionCloses, removeInboundFederationHost,
         failFederationVwsWaiters, Streams, TypeOK
<1>1. /\ stream' \in [Streams -> StreamStates]
      /\ \A t \in Streams : /\ stream'[t] = "open" => stream[t] = "open"
                            /\ t \notin PoolStreams => stream'[t] = stream[t]
                            /\ stream[t] # "none" => stream'[t] # "none"
      /\ \A t \in PoolStreams : stream'[t] = "open" => session' /\ (Spare(t) => Spare(t)')
  <2>1. CASE EntryRemoved
    <3>1. /\ UNCHANGED <<stream, session>> /\ session /\ orphan = None
          /\ orphan' = IF vwsBusy THEN None ELSE vwsStream
      BY <2>1 DEF EntryRemoved, OnePoolStream
    <3>2. \A t \in PoolStreams : stream[t] = "open" => t = vwsStream
      BY <2>1 DEF EntryRemoved, OnePoolStream
    <3>3. \A t \in PoolStreams : stream[t] = "open" /\ Spare(t) => Spare(t)'
      BY <1>0, <3>1, <3>2, OpenConstants DEF Streams
    <3> QED BY <1>0, <3>1, <3>3, HeldProperties
  <2>2. CASE FederationSessionCloses
    <3>1. /\ stream' \in [Streams -> StreamStates]
          /\ \A t \in Streams : /\ stream'[t] = "open" => stream[t] = "open" /\ t \notin PoolStreams
                                /\ t \notin PoolStreams => stream'[t] = stream[t]
                                /\ stream[t] # "none" => stream'[t] # "none"
      BY <1>0, <2>2, StreamsCloseKeeps DEF FederationSessionCloses
    <3> QED BY <1>0, <3>1
  <2> QED BY <2>1, <2>2
<1>2. /\ waiters' \in Seq(Opens) /\ Len(waiters') = 0
      /\ Elements(waiters') = {} /\ Distinct(waiters')
  <2>1. <<>> \in Seq(Opens) /\ Len(<<>>) = 0
    OBVIOUS
  <2> QED BY <1>0, <2>1, EmptyProperties
<1>3. /\ pc' \in [Opens -> {"next"} \cup Waits \cup Settled]
      /\ tried' \in [Opens -> Nat]
      /\ \A p \in Opens : pc[p] # "waiting" => pc'[p] = pc[p]
      /\ \A p \in Opens : pc[p] = "waiting" => pc'[p] \in {"next", "failed"}
  <2>1. /\ pc \in [Opens -> {"next"} \cup Waits \cup Settled]
        /\ tried \in [Opens -> Nat]
        /\ \A p \in Opens : (p \in Elements(waiters)) <=> (pc[p] = "waiting")
    BY DEF TypeOK, WaitersWait
  <2>2. /\ pc' = [p \in Opens |-> IF p \notin Elements(waiters) THEN pc[p]
                                 ELSE IF isFederationVwsSourceLive(p) THEN "next" ELSE "failed"]
        /\ tried' = [p \in Opens |-> IF p \in Elements(waiters) THEN tried[p] + 1 ELSE tried[p]]
    BY <1>0 DEF removeInboundFederationHost, failFederationVwsWaiters
  <2>3. tried' \in [Opens -> Nat]
    BY <2>1, <2>2
  <2>4. \A p \in Opens : \/ p \notin Elements(waiters) /\ pc'[p] = pc[p]
                         \/ p \in Elements(waiters) /\ pc'[p] \in {"next", "failed"}
    BY <2>2
  <2>5. pc' \in [Opens -> {"next"} \cup Waits \cup Settled]
    BY <2>1, <2>2 DEF Settled
  <2> QED BY <2>1, <2>3, <2>4, <2>5
<1>4. TypeOK'
  <2>1. Len(waiters') <= MaxWaiters
    BY <1>2, OpenConstants
  <2> QED BY <1>0, <1>1, <1>2, <1>3, <2>1 DEF TypeOK, StreamStates
<1>5. OneOpenPerStream'
  BY <1>0 DEF OneOpenPerStream
<1>6. WaitersWait'
  <2>1. {p \in Opens : pc'[p] = "waiting"} = {}
    BY <1>3
  <2> QED BY <1>0, <1>2, <2>1 DEF WaitersWait
<1>7. NoStreamLeaked'
  <2> SUFFICES ASSUME NEW t \in Streams, stream'[t] = "open"
               PROVE  NoStreamLeaked!(t)'
    BY DEF NoStreamLeaked
  <2>1. stream[t] = "open" /\ (Spare(t) => Spare(t)')
    BY <1>1, OpenConstants DEF TypeOK
  <2>2. CASE t \notin Elements(idle) /\ ~Spare(t)
    <3>1. PICK q \in Opens :
             /\ dest[q] = t
             /\ \/ pc[q] \in {"opening", "acquired", "negotiate"}
                \/ pc[q] = "bridged" /\ source[q] # "closed"
      BY <2>1, <2>2, OwnerExists
    <3>2. dest'[q] = t /\ pc'[q] = pc[q] /\ source'[q] = source[q]
      BY <1>0, <1>3, <3>1
    <3> QED BY <3>1, <3>2
  <2>3. CASE t \in Elements(idle) \/ Spare(t)
    BY <1>0, <2>1, <2>3
  <2> QED BY <2>2, <2>3
<1>8. DestinationsOpened'
  <2> SUFFICES ASSUME NEW p \in Opens PROVE DestinationsOpened!(p)'
    BY DEF DestinationsOpened
  <2>1. dest[p] # None => stream'[dest[p]] # "none"
    BY <1>1, HeldProperties DEF DestinationsOpened
  <2> QED BY <1>0, <1>3, <2>1 DEF DestinationsOpened
<1>9. IdleLeasesOpen'
  <2>1. \A l \in Elements(idle) : l \in Streams /\ l \notin PoolStreams
    BY HeldProperties, OpenConstants DEF Streams
  <2> QED BY <1>0, <1>1, <2>1 DEF IdleLeasesOpen
<1>10. OnePoolStream'
  BY <1>0, <1>1 DEF OnePoolStream
<1> QED BY <1>4, <1>5, <1>6, <1>7, <1>8, <1>9, <1>10

\* The downstream Host brings a pool stream, which goes to the first in line.
LEMMA AcquireStreamKeeps ==
    ASSUME OpenInv, NEW s \in PoolStreams, handleFederationVwsAcquire(s) PROVE OpenInv'
<1> USE DEF OpenInv, Spare
<1>0. /\ inbound /\ vwsStream = None /\ stream[s] = "none"
      /\ acquirer' = "open" /\ vwsStream' = s
      /\ UNCHANGED <<idle, guest, inbound, session, orphan, source, tried>>
      /\ s \in Streams /\ s # None
  BY OpenConstants DEF handleFederationVwsAcquire, OnePoolStream, Streams
<1>1. /\ stream \in [Streams -> StreamStates]
      /\ stream' \in [Streams -> StreamStates]
      /\ \A t \in Streams : stream'[t] = IF t = s THEN "open" ELSE stream[t]
  <2>1. stream \in [Streams -> StreamStates] /\ stream' = [stream EXCEPT ![s] = "open"]
    BY HeldProperties DEF handleFederationVwsAcquire
  <2> QED BY <2>1 DEF StreamStates
<1>2. (\A p \in Opens : dest[p] # s) /\ s \notin Elements(idle)
  BY <1>0 DEF DestinationsOpened, IdleLeasesOpen
<1>3. waiters \in Seq(Opens) /\ Len(waiters) \in Nat /\ Len(waiters) <= MaxWaiters
      /\ Distinct(waiters) /\ Elements(waiters) = {p \in Opens : pc[p] = "waiting"}
  BY HeldProperties DEF WaitersWait
<1>4. /\ OnePoolStream'
      /\ IdleLeasesOpen'
  <2>1. \A t \in PoolStreams : t \in Streams
    BY DEF Streams
  <2>2. \A t \in PoolStreams : stream'[t] \in {"open", "closing"} => t = s
    BY <1>0, <1>1, <2>1, OpenConstants DEF OnePoolStream
  <2>3. OnePoolStream'
    BY <1>0, <1>1, <2>2 DEF OnePoolStream
  <2>4. Elements(idle) \subseteq Streams
    BY HeldProperties DEF Streams
  <2> QED BY <1>0, <1>1, <1>2, <2>3, <2>4 DEF IdleLeasesOpen
<1>5. CASE waiters = <<>>
  <2>1. vwsBusy' = FALSE /\ UNCHANGED <<waiters, pc, dest>>
    BY <1>5 DEF handleFederationVwsAcquire, resolveFederationVwsWaiters
  <2>2. TypeOK'
    BY <1>0, <1>1, <2>1 DEF TypeOK, StreamStates
  <2>3. OneOpenPerStream'
    BY <1>0, <1>2, <2>1 DEF OneOpenPerStream
  <2>4. WaitersWait'
    BY <1>3, <1>5, <2>1 DEF WaitersWait
  <2>5. NoStreamLeaked'
    <3> SUFFICES ASSUME NEW t \in Streams, stream'[t] = "open"
                 PROVE  NoStreamLeaked!(t)'
      BY DEF NoStreamLeaked
    <3>1. CASE t = s
      BY <1>0, <2>1, <3>1
    <3>2. CASE t # s
      BY <1>0, <1>1, <2>1, <3>2, OpenConstants DEF NoStreamLeaked
    <3> QED BY <3>1, <3>2
  <2>6. DestinationsOpened'
    BY <1>1, <1>2, <2>1, HeldProperties DEF DestinationsOpened
  <2> QED BY <1>4, <2>2, <2>3, <2>4, <2>5, <2>6
<1>6. CASE waiters # <<>>
  <2> DEFINE o == Head(waiters)
  <2>1. /\ vwsBusy' = TRUE /\ waiters' = Tail(waiters)
        /\ pc' = [pc EXCEPT ![o] = "acquired"]
        /\ dest' = [dest EXCEPT ![o] = s]
    BY <1>6 DEF handleFederationVwsAcquire, resolveFederationVwsWaiters
  <2>2. /\ o \in Opens /\ o \in Elements(waiters)
        /\ waiters' \in Seq(Opens) /\ Len(waiters') = Len(waiters) - 1
        /\ Distinct(waiters')
        /\ Elements(waiters') = Elements(waiters) \ {o}
    BY <1>3, <1>6, <2>1, TailProperties
  <2> HIDE DEF o
  <2>3. /\ \A p \in Opens : dest'[p] = IF p = o THEN s ELSE dest[p]
        /\ \A p \in Opens : pc'[p] = IF p = o THEN "acquired" ELSE pc[p]
        /\ pc' \in [Opens -> {"next"} \cup Waits \cup Settled]
        /\ dest' \in [Opens -> Streams \cup {None}]
        /\ pc[o] = "waiting"
    BY <1>0, <1>3, <2>1, <2>2 DEF TypeOK, Waits
  <2>4. TypeOK'
    <3>1. Len(waiters') <= MaxWaiters
      BY <1>3, <2>2, OpenConstants
    <3> QED BY <1>0, <1>1, <2>1, <2>2, <2>3, <3>1 DEF TypeOK, StreamStates
  <2>5. OneOpenPerStream'
    BY <1>0, <1>2, <2>1, <2>3 DEF OneOpenPerStream
  <2>6. WaitersWait'
    <3>1. Elements(waiters') = {p \in Opens : pc'[p] = "waiting"}
      BY <1>3, <2>2, <2>3
    <3> QED BY <2>1, <2>2, <3>1 DEF WaitersWait, PoolAvailable
  <2>7. NoStreamLeaked'
    <3> SUFFICES ASSUME NEW t \in Streams, stream'[t] = "open"
                 PROVE  NoStreamLeaked!(t)'
      BY DEF NoStreamLeaked
    <3>1. CASE t = s
      BY <2>2, <2>3, <3>1
    <3>2. CASE t # s /\ t \notin Elements(idle)
      <4>1. PICK q \in Opens :
               /\ dest[q] = t
               /\ \/ pc[q] \in {"opening", "acquired", "negotiate"}
                  \/ pc[q] = "bridged" /\ source[q] # "closed"
        BY <1>0, <1>1, <3>2, OpenConstants, OwnerExists DEF OnePoolStream
      <4>2. dest'[q] = t /\ pc'[q] = pc[q] /\ source'[q] = source[q]
        BY <1>0, <2>3, <4>1
      <4> QED BY <4>1, <4>2
    <3>3. CASE t \in Elements(idle)
      BY <1>0, <3>3
    <3> QED BY <3>1, <3>2, <3>3
  <2>8. DestinationsOpened'
    <3> SUFFICES ASSUME NEW p \in Opens PROVE DestinationsOpened!(p)'
      BY DEF DestinationsOpened
    <3>1. dest[p] # None => stream'[dest[p]] # "none"
      BY <1>1, <1>2, HeldProperties DEF DestinationsOpened
    <3> QED BY <1>0, <1>1, <2>3, <3>1 DEF DestinationsOpened
  <2> QED BY <1>4, <2>4, <2>5, <2>6, <2>7, <2>8
<1> QED BY <1>5, <1>6

\* The downstream Host gives up on the pool stream, and steps that change nothing.
LEMMA RestKeeps ==
    ASSUME OpenInv, ReplenishFails \/ UNCHANGED vars PROVE OpenInv'
<1> USE DEF OpenInv, Spare
<1>1. /\ UNCHANGED <<stream, idle, guest, inbound, vwsStream, vwsBusy, waiters, session, orphan,
                     source, pc, tried, dest>>
      /\ acquirer' \in {"gave up", acquirer}
  BY DEF ReplenishFails, vars
<1>2. TypeOK'
  BY <1>1 DEF TypeOK
<1>3. OnePoolStream'
  BY <1>1 DEF OnePoolStream
<1>4. OneOpenPerStream' /\ DestinationsOpened' /\ IdleLeasesOpen'
  BY <1>1 DEF OneOpenPerStream, DestinationsOpened, IdleLeasesOpen
<1>5. WaitersWait'
  BY <1>1 DEF WaitersWait, PoolAvailable
<1>6. NoStreamLeaked'
  BY <1>1 DEF NoStreamLeaked
<1> QED BY <1>2, <1>3, <1>4, <1>5, <1>6

\* Nothing is open and nobody waits at first.
LEMMA InitOpens == ASSUME Init PROVE OpenInv
<1> USE DEF Init
<1>1. /\ Elements(<<>>) = {} /\ Distinct(<<>>)
      /\ <<>> \in Seq(Leases) /\ <<>> \in Seq(Opens) /\ Len(<<>>) = 0
  BY EmptyProperties
<1>2. TypeOK
  <2>1. Len(idle) <= MaxIdle /\ Len(waiters) <= MaxWaiters
    BY <1>1, OpenConstants
  <2> QED BY <1>1, <2>1 DEF TypeOK, Streams
<1>3. OneOpenPerStream /\ DestinationsOpened /\ NoStreamLeaked
  BY DEF OneOpenPerStream, DestinationsOpened, NoStreamLeaked
<1>4. WaitersWait /\ IdleLeasesOpen
  BY <1>1 DEF WaitersWait, IdleLeasesOpen
<1>5. OnePoolStream
  BY DEF OnePoolStream, Streams
<1> QED BY <1>2, <1>3, <1>4, <1>5 DEF OpenInv

----------------------------------------------------------------------------
\* The inductive invariant of the opens and the streams they are given.
THEOREM OpensSound == Spec => []OpenInv
<1>1. ASSUME OpenInv, [Next]_vars PROVE OpenInv'
  <2>1. ASSUME NEW o \in Opens, OpenStep(o) PROVE OpenInv'
    <3>1. CASE PoolAcquired(o)
      BY <3>1, ForwardOwnKeeps, <1>1 DEF PoolAcquired
    <3> QED BY <1>1, <2>1, <3>1, TryCandidateKeeps, AuthorizedKeeps, UpstreamRespondsKeeps,
               WaitTimeoutKeeps, VwsRefusedKeeps DEF OpenStep
  <2>2. ASSUME NEW o \in Opens, validateFederationVwsOpen(o) PROVE OpenInv'
    <3>1. /\ pc[o] = "next" /\ pc' = [pc EXCEPT ![o] = "failed"]
          /\ UNCHANGED <<stream, idle, guest, source, pool, dest>>
          /\ tried' \in [Opens -> Nat]
      BY <1>1, <2>2 DEF validateFederationVwsOpen, OpenInv, TypeOK
    <3> QED BY <1>1, <3>1, GoesOnKeeps
  <2>3. CASE \E o \in Opens : VwsAccepted(o) \/ SourceUnregistered(o) \/ SourceCloses(o)
    BY <1>1, <2>3, VwsAcceptedKeeps, SourceUnregisteredKeeps, SourceClosesKeeps
  <2>4. CASE \E s \in Streams : StreamCloses(s)
    BY <1>1, <2>4, StreamClosesKeeps
  <2>5. CASE \E l \in Leases : attachGuestWsLeaseStream(l)
    BY <1>1, <2>5, AttachKeeps
  <2>6. CASE \E s \in PoolStreams : handleFederationVwsAcquire(s)
    BY <1>1, <2>6, AcquireStreamKeeps
  <2>7. CASE clearWsIdleLeases \/ EntryRemoved \/ FederationSessionCloses
    BY <1>1, <2>7, ClearKeeps, RemoveInboundKeeps
  <2>8. CASE ReplenishFails \/ UNCHANGED vars
    BY <1>1, <2>8, RestKeeps
  <2> QED BY <1>1, <2>1, <2>2, <2>3, <2>4, <2>5, <2>6, <2>7, <2>8 DEF Next
<1> QED BY <1>1, InitOpens, PTL DEF Spec

\* routeFederationVwsInternal and waitForFederationVwsPool give a stream to one open
\* only, and nobody waits beside a free pool stream or is in line without waiting.
THEOREM OpensArePaired == Spec => []OpensPaired
<1>1. OpenInv => OpensPaired
  BY DEF OpenInv, OpensPaired
<1> QED BY <1>1, OpensSound, PTL

\* Whatever fails, times out or goes away, a stream that is open is idle, a spare
\* pool stream, or in the hands of an open that will close it.
THEOREM StreamsDoNotLeak == Spec => []NoStreamLeaked
<1>1. OpenInv => NoStreamLeaked
  BY DEF OpenInv
<1> QED BY <1>1, OpensSound, PTL

----------------------------------------------------------------------------
(* One WebSocket *)

\* What the inbound side of a socket is made of, and what a step leaves alone.
SameReads(s, t) ==
    /\ t.inboundQueue = s.inboundQueue /\ t.processing = s.processing /\ t.paused = s.paused
    /\ t.received = s.received /\ t.read = s.read
SameStage(s, t) ==
    /\ t.accepted = s.accepted /\ t.acceptWritten = s.acceptWritten /\ t.accept = s.accept
    /\ t.sends = s.sends /\ t.early = s.early /\ t.flushing = s.flushing /\ t.writing = s.writing
SameEnd(s, t) ==
    /\ t.closeSent = s.closeSent /\ t.destroyed = s.destroyed /\ t.timer = s.timer
    /\ t.writable = s.writable /\ t.closed = s.closed /\ t.closeEvents = s.closeEvents
SameQueues(s, t) ==
    /\ t.sendQueue = s.sendQueue /\ t.outboundQueue = s.outboundQueue /\ t.promise = s.promise

\* The two ends are each other's peer.
LEMMA PeerProperties ==
    ASSUME NEW e \in Ends
    PROVE  Peer(e) \in Ends /\ Peer(e) # e /\ Peer(Peer(e)) = e
BY DEF Ends, Peer

\* The frames a socket writes.
LEMMA FrameProperties ==
    ASSUME NEW e \in Ends
    PROVE  /\ Frame("accept", 0) \in Frames(e) /\ Frame("accept", 0).type = "accept"
           /\ Frame("close", 0) \in Frames(e) /\ Frame("close", 0).type = "close"
           /\ Frame("error", 0) \in Frames(e) /\ Frame("error", 0).type = "error"
           /\ \A m \in Messages(e) : /\ Frame("data", m) \in Frames(e)
                                     /\ Frame("data", m).type = "data"
                                     /\ Frame("data", m).id = m
BY DEF Frame, Frames

\* The messages of an end are numbered from 1, and a queue has room for one.
LEMMA MessageTypes ==
    ASSUME NEW e \in Ends
    PROVE  /\ MaxSends[e] \in Nat /\ Messages(e) = 1 .. MaxSends[e]
           /\ Cap \in Nat \ {0}
           /\ 0 \notin Messages(e)
BY EndpointConstants DEF Messages

\* writeLine adds one frame to the log, or none.
LEMMA WriteLineProperties ==
    ASSUME NEW e \in Ends, NEW s \in Sockets(e), NEW type, NEW id,
           Frame(type, id) \in Frames(e)
    PROVE  /\ WriteLine(s, type, id) \in Sockets(e)
           /\ SameReads(s, WriteLine(s, type, id)) /\ SameStage(s, WriteLine(s, type, id))
           /\ SameEnd(s, WriteLine(s, type, id)) /\ SameQueues(s, WriteLine(s, type, id))
           /\ WriteLine(s, type, id).log =
                 IF Unwritable(s) THEN s.log ELSE Append(s.log, Frame(type, id))
<1>1. CASE Unwritable(s)
  BY <1>1 DEF WriteLine, SameReads, SameStage, SameEnd, SameQueues
<1>2. CASE ~Unwritable(s)
  <2> DEFINE l == Append(s.log, Frame(type, id))
  <2>1. l \in Seq(Frames(e))
    BY DEF Sockets
  <2>2. WriteLine(s, type, id) = [s EXCEPT !.log = l]
    BY <1>2 DEF WriteLine
  <2> HIDE DEF l
  <2>3. [s EXCEPT !.log = l] \in Sockets(e)
    BY <2>1 DEF Sockets
  <2>4. /\ SameReads(s, [s EXCEPT !.log = l]) /\ SameStage(s, [s EXCEPT !.log = l])
        /\ SameEnd(s, [s EXCEPT !.log = l]) /\ SameQueues(s, [s EXCEPT !.log = l])
        /\ [s EXCEPT !.log = l].log = l
    BY DEF Sockets, SameReads, SameStage, SameEnd, SameQueues
  <2> QED BY <1>2, <2>2, <2>3, <2>4 DEF l
<1> QED BY <1>1, <1>2

\* The promises of some messages settle.
SettledAs(p, q, msgs, how) == \A m \in DOMAIN p : q[m] = IF m \in msgs THEN how ELSE p[m]

\* Settle changes promises only.
LEMMA SettleProperties ==
    ASSUME NEW e \in Ends, NEW s \in Sockets(e), NEW msgs, NEW how \in Statuses
    PROVE  /\ Settle(s, msgs, how) \in Sockets(e)
           /\ SameReads(s, Settle(s, msgs, how)) /\ SameStage(s, Settle(s, msgs, how))
           /\ SameEnd(s, Settle(s, msgs, how)) /\ Settle(s, msgs, how).log = s.log
           /\ Settle(s, msgs, how).sendQueue = s.sendQueue
           /\ Settle(s, msgs, how).outboundQueue = s.outboundQueue
           /\ SettledAs(s.promise, Settle(s, msgs, how).promise, msgs, how)
<1> DEFINE p == [m \in Messages(e) |-> IF m \in msgs THEN how ELSE s.promise[m]]
<1>1. /\ s.promise \in [Messages(e) -> Statuses] /\ DOMAIN s.promise = Messages(e)
  BY DEF Sockets
<1>2. p \in [Messages(e) -> Statuses] /\ SettledAs(s.promise, p, msgs, how)
  BY <1>1 DEF SettledAs
<1>3. Settle(s, msgs, how) = [s EXCEPT !.promise = p]
  BY <1>1 DEF Settle
<1> HIDE DEF p
<1>4. [s EXCEPT !.promise = p] \in Sockets(e)
  BY <1>2 DEF Sockets
<1>5. /\ SameReads(s, [s EXCEPT !.promise = p]) /\ SameStage(s, [s EXCEPT !.promise = p])
      /\ SameEnd(s, [s EXCEPT !.promise = p])
      /\ [s EXCEPT !.promise = p].sendQueue = s.sendQueue
      /\ [s EXCEPT !.promise = p].outboundQueue = s.outboundQueue
      /\ [s EXCEPT !.promise = p].log = s.log
      /\ [s EXCEPT !.promise = p].promise = p
  BY DEF Sockets, SameReads, SameStage, SameEnd
<1> QED BY <1>2, <1>3, <1>4, <1>5

\* failOutboundQueue and drainSendQueue(false) empty a queue and reject what was in it.
LEMMA FailProperties ==
    ASSUME NEW e \in Ends, NEW s \in Sockets(e)
    PROVE  /\ failOutboundQueue(s) \in Sockets(e)
           /\ SameReads(s, failOutboundQueue(s)) /\ SameStage(s, failOutboundQueue(s))
           /\ SameEnd(s, failOutboundQueue(s)) /\ failOutboundQueue(s).log = s.log
           /\ failOutboundQueue(s).sendQueue = s.sendQueue
           /\ failOutboundQueue(s).outboundQueue = <<>>
           /\ SettledAs(s.promise, failOutboundQueue(s).promise, Elements(s.outboundQueue),
                        "rejected")
<1> DEFINE c == Settle(s, Elements(s.outboundQueue), "rejected")
<1>1. /\ c \in Sockets(e) /\ SameReads(s, c) /\ SameStage(s, c) /\ SameEnd(s, c)
      /\ c.log = s.log /\ c.sendQueue = s.sendQueue
      /\ SettledAs(s.promise, c.promise, Elements(s.outboundQueue), "rejected")
  BY SettleProperties DEF Statuses
<1> DEFINE q == <<>>
           t == [c EXCEPT !.outboundQueue = q]
<1>2. failOutboundQueue(s) = t
  BY DEF failOutboundQueue
<1>3. q \in Seq(Messages(e))
  OBVIOUS
<1> HIDE DEF c, q
<1>4. t \in Sockets(e)
  BY <1>1, <1>3 DEF Sockets
<1>5. /\ SameReads(c, t) /\ SameStage(c, t) /\ SameEnd(c, t)
      /\ t.log = c.log /\ t.promise = c.promise /\ t.outboundQueue = q /\ t.sendQueue = c.sendQueue
  BY <1>1 DEF Sockets, SameReads, SameStage, SameEnd
<1> HIDE DEF t
<1>6. SameReads(s, t) /\ SameStage(s, t) /\ SameEnd(s, t)
  BY <1>1, <1>5 DEF SameReads, SameStage, SameEnd
<1> QED BY <1>1, <1>2, <1>4, <1>5, <1>6 DEF q

\* Discarding the send queue empties it and rejects what it held.
LEMMA DiscardProperties ==
    ASSUME NEW e \in Ends, NEW s \in Sockets(e)
    PROVE  /\ DiscardSendQueue(s) \in Sockets(e)
           /\ SameReads(s, DiscardSendQueue(s)) /\ SameStage(s, DiscardSendQueue(s))
           /\ SameEnd(s, DiscardSendQueue(s)) /\ DiscardSendQueue(s).log = s.log
           /\ DiscardSendQueue(s).sendQueue = <<>>
           /\ DiscardSendQueue(s).outboundQueue = s.outboundQueue
           /\ SettledAs(s.promise, DiscardSendQueue(s).promise, Elements(s.sendQueue),
                        "rejected")
<1> DEFINE c == Settle(s, Elements(s.sendQueue), "rejected")
<1>1. /\ c \in Sockets(e) /\ SameReads(s, c) /\ SameStage(s, c) /\ SameEnd(s, c)
      /\ c.log = s.log /\ c.outboundQueue = s.outboundQueue
      /\ SettledAs(s.promise, c.promise, Elements(s.sendQueue), "rejected")
  BY SettleProperties DEF Statuses
<1> DEFINE q == <<>>
           t == [c EXCEPT !.sendQueue = q]
<1>2. DiscardSendQueue(s) = t
  BY DEF DiscardSendQueue
<1>3. q \in Seq(Messages(e))
  OBVIOUS
<1> HIDE DEF c, q
<1>4. t \in Sockets(e)
  BY <1>1, <1>3 DEF Sockets
<1>5. /\ SameReads(c, t) /\ SameStage(c, t) /\ SameEnd(c, t)
      /\ t.log = c.log /\ t.promise = c.promise /\ t.sendQueue = q /\ t.outboundQueue = c.outboundQueue
  BY <1>1 DEF Sockets, SameReads, SameStage, SameEnd
<1> HIDE DEF t
<1>6. SameReads(s, t) /\ SameStage(s, t) /\ SameEnd(s, t)
  BY <1>1, <1>5 DEF SameReads, SameStage, SameEnd
<1> QED BY <1>1, <1>2, <1>4, <1>5, <1>6 DEF q

\* 'close' is counted.
LEMMA EmitCloseProperties ==
    ASSUME NEW e \in Ends, NEW s \in Sockets(e)
    PROVE  /\ EmitClose(s) \in Sockets(e)
           /\ SameReads(s, EmitClose(s)) /\ SameStage(s, EmitClose(s))
           /\ SameQueues(s, EmitClose(s)) /\ EmitClose(s).log = s.log
           /\ EmitClose(s).closeSent = s.closeSent /\ EmitClose(s).destroyed = s.destroyed
           /\ EmitClose(s).timer = s.timer /\ EmitClose(s).writable = s.writable
           /\ EmitClose(s).closed = s.closed
           /\ EmitClose(s).closeEvents = s.closeEvents + 1
<1> DEFINE c == s.closeEvents + 1
           r == IF s.readyState = "none" THEN s.readyState ELSE "closed"
<1>1. c \in Nat /\ r \in {"none", "connecting", "open", "closing", "closed"}
  BY DEF Sockets
<1>2. EmitClose(s) = [s EXCEPT !.closeEvents = c, !.readyState = r]
  BY DEF EmitClose
<1> DEFINE t == [s EXCEPT !.closeEvents = c, !.readyState = r]
<1> HIDE DEF c, r
<1>3. t \in Sockets(e)
  BY <1>1 DEF Sockets
<1>4. /\ SameReads(s, t) /\ SameStage(s, t) /\ SameQueues(s, t) /\ t.log = s.log
      /\ t.closeSent = s.closeSent /\ t.destroyed = s.destroyed
      /\ t.timer = s.timer /\ t.writable = s.writable
      /\ t.closed = s.closed /\ t.closeEvents = c
  BY DEF Sockets, SameReads, SameStage, SameQueues
<1> HIDE DEF t
<1> QED BY <1>2, <1>3, <1>4 DEF c, t

----------------------------------------------------------------------------
(* The log *)

\* t goes on from s: its log is longer or the same, and its messages are in the
\* queues they were in.
Grows(s, t) ==
    /\ Len(s.log) <= Len(t.log)
    /\ \A i \in DOMAIN s.log : t.log[i] = s.log[i]
    /\ t.early = s.early \/ \A m \in Nat \ {0} : ~Logged(s, m)

\* One frame more at the end of a log.
LEMMA HoldsAppend ==
    ASSUME NEW e \in Ends, NEW log \in Seq(Frames(e)), NEW f \in Frames(e)
    PROVE  /\ \A i, m : Holds(Append(log, f), i, m) <=>
                           Holds(log, i, m) \/ (i = Len(log) + 1 /\ f.type = "data" /\ f.id = m)
           /\ Len(Append(log, f)) = Len(log) + 1 /\ Len(log) \in Nat
           /\ DOMAIN log = 1 .. Len(log) /\ DOMAIN Append(log, f) = 1 .. (Len(log) + 1)
           /\ \A i \in DOMAIN log : Append(log, f)[i] = log[i]
           /\ Append(log, f)[Len(log) + 1] = f
<1>1. /\ Len(Append(log, f)) = Len(log) + 1 /\ Len(log) \in Nat
      /\ DOMAIN log = 1 .. Len(log) /\ DOMAIN Append(log, f) = 1 .. (Len(log) + 1)
      /\ \A i \in DOMAIN log : Append(log, f)[i] = log[i]
      /\ Append(log, f)[Len(log) + 1] = f
  BY AppendIndexes
<1>2. ASSUME NEW i, NEW m
      PROVE  Holds(Append(log, f), i, m) <=>
                Holds(log, i, m) \/ (i = Len(log) + 1 /\ f.type = "data" /\ f.id = m)
  BY <1>1 DEF Holds
<1> QED BY <1>1, <1>2

\* A log that stays, or gets a frame that is no message.
LEMMA OtherFrame ==
    ASSUME NEW e \in Ends, NEW s \in Sockets(e), NEW t \in Sockets(e), t.early = s.early,
           \/ t.log = s.log
           \/ \E f \in Frames(e) : f.type # "data" /\ t.log = Append(s.log, f)
    PROVE  /\ \A i, m : Holds(t.log, i, m) <=> Holds(s.log, i, m)
           /\ \A m : Logged(t, m) <=> Logged(s, m)
           /\ LogInOrder(e, s) => LogInOrder(e, t)
           /\ Grows(s, t)
           /\ AcceptFirst(s) /\ (t.acceptWritten => s.acceptWritten) => AcceptFirst(t)
<1>1. s.log \in Seq(Frames(e)) /\ t.log \in Seq(Frames(e))
  BY DEF Sockets
<1>2. CASE t.log = s.log
  BY <1>1, <1>2 DEF Logged, LogInOrder, SameQueue, Grows, AcceptFirst
<1>3. CASE \E f \in Frames(e) : f.type # "data" /\ t.log = Append(s.log, f)
  <2>1. PICK f \in Frames(e) : f.type # "data" /\ t.log = Append(s.log, f)
    BY <1>3
  <2>2. /\ \A i, m : Holds(t.log, i, m) <=>
                        Holds(s.log, i, m) \/ (i = Len(s.log) + 1 /\ f.type = "data" /\ f.id = m)
        /\ Len(t.log) = Len(s.log) + 1 /\ Len(s.log) \in Nat
        /\ DOMAIN s.log = 1 .. Len(s.log) /\ DOMAIN t.log = 1 .. (Len(s.log) + 1)
        /\ \A i \in DOMAIN s.log : t.log[i] = s.log[i]
        /\ t.log[Len(s.log) + 1] = f
    BY <1>1, <2>1, HoldsAppend
  <2>3. \A i, m : Holds(t.log, i, m) <=> Holds(s.log, i, m)
    BY <2>1, <2>2
  <2>4. \A m : Logged(t, m) <=> Logged(s, m)
    BY <2>2, <2>3 DEF Logged, Holds
  <2>5. LogInOrder(e, s) => LogInOrder(e, t)
    <3> SUFFICES ASSUME LogInOrder(e, s), NEW i \in DOMAIN t.log, NEW m \in Messages(e),
                        Holds(t.log, i, m)
                 PROVE  /\ \A j \in 1 .. (i - 1) : \A k \in Messages(e) :
                              Holds(t.log, j, k) /\ SameQueue(t, k, m) => k < m
                        /\ \A k \in 1 .. (m - 1) :
                              SameQueue(t, k, m) => \E j \in 1 .. (i - 1) : Holds(t.log, j, k)
      BY DEF LogInOrder
    <3>1. i \in DOMAIN s.log /\ Holds(s.log, i, m)
      BY <2>3 DEF Holds
    <3>2. /\ \A j \in 1 .. (i - 1) : \A k \in Messages(e) :
                Holds(s.log, j, k) /\ SameQueue(s, k, m) => k < m
          /\ \A k \in 1 .. (m - 1) :
                SameQueue(s, k, m) => \E j \in 1 .. (i - 1) : Holds(s.log, j, k)
      BY <3>1 DEF LogInOrder
    <3> QED BY <2>3, <3>2 DEF SameQueue
  <2>6. Grows(s, t)
    BY <2>2 DEF Grows
  <2>7. AcceptFirst(s) /\ (t.acceptWritten => s.acceptWritten) => AcceptFirst(t)
    <3> SUFFICES ASSUME AcceptFirst(s), t.acceptWritten => s.acceptWritten PROVE AcceptFirst(t)
      OBVIOUS
    <3>1. t.acceptWritten => \E j \in DOMAIN t.log : t.log[j].type = "accept"
      BY <2>2 DEF AcceptFirst
    <3>2. ASSUME NEW i \in DOMAIN t.log, t.log[i].type = "data"
          PROVE  \E j \in 1 .. i : t.log[j].type = "accept"
      <4>1. i \in DOMAIN s.log /\ s.log[i].type = "data"
        BY <2>1, <2>2, <3>2
      <4>2. PICK j \in 1 .. i : s.log[j].type = "accept"
        BY <4>1 DEF AcceptFirst
      <4>3. j \in DOMAIN s.log
        BY <2>2, <4>1
      <4> QED BY <2>2, <4>2, <4>3
    <3> QED BY <3>1, <3>2 DEF AcceptFirst
  <2> QED BY <2>3, <2>4, <2>5, <2>6, <2>7
<1> QED BY <1>2, <1>3

\* A log that gets the next message of one of the queues.
LEMMA DataFrame ==
    ASSUME NEW e \in Ends, NEW s \in Sockets(e), NEW t \in Sockets(e), t.early = s.early,
           NEW m \in Messages(e), t.log = Append(s.log, Frame("data", m)),
           LogInOrder(e, s),
           \A k \in Messages(e) : SameQueue(s, k, m) => (Logged(s, k) <=> k < m)
    PROVE  /\ \A k : Logged(t, k) <=> (Logged(s, k) \/ k = m)
           /\ LogInOrder(e, t)
           /\ Grows(s, t)
           /\ AcceptFirst(s) /\ s.acceptWritten => AcceptFirst(t)
<1> DEFINE f == Frame("data", m)
<1>1. s.log \in Seq(Frames(e)) /\ f \in Frames(e) /\ f.type = "data" /\ f.id = m
  BY FrameProperties DEF Sockets
<1>2. /\ \A i, k : Holds(t.log, i, k) <=>
                      Holds(s.log, i, k) \/ (i = Len(s.log) + 1 /\ f.type = "data" /\ f.id = k)
      /\ Len(t.log) = Len(s.log) + 1 /\ Len(s.log) \in Nat
      /\ DOMAIN s.log = 1 .. Len(s.log) /\ DOMAIN t.log = 1 .. (Len(s.log) + 1)
      /\ \A i \in DOMAIN s.log : t.log[i] = s.log[i]
  BY <1>1, HoldsAppend
<1> HIDE DEF f
<1>3. \A i, k : Holds(t.log, i, k) <=> Holds(s.log, i, k) \/ (i = Len(s.log) + 1 /\ k = m)
  BY <1>1, <1>2
<1>4. \A k : Logged(t, k) <=> (Logged(s, k) \/ k = m)
  <2> TAKE k
  <2>1. Logged(t, k) => Logged(s, k) \/ k = m
    BY <1>3 DEF Logged, Holds
  <2>2. Logged(s, k) => Logged(t, k)
    BY <1>2, <1>3 DEF Logged
  <2>3. k = m => Logged(t, k)
    <3>1. Len(s.log) + 1 \in DOMAIN t.log
      BY <1>2
    <3> QED BY <1>3, <3>1 DEF Logged
  <2> QED BY <2>1, <2>2, <2>3
<1>5. LogInOrder(e, t)
  <2> SUFFICES ASSUME NEW i \in DOMAIN t.log, NEW n \in Messages(e), Holds(t.log, i, n)
               PROVE  /\ \A j \in 1 .. (i - 1) : \A k \in Messages(e) :
                            Holds(t.log, j, k) /\ SameQueue(t, k, n) => k < n
                      /\ \A k \in 1 .. (n - 1) :
                            SameQueue(t, k, n) => \E j \in 1 .. (i - 1) : Holds(t.log, j, k)
    BY DEF LogInOrder
  <2>1. CASE i \in DOMAIN s.log
    <3>1. Holds(s.log, i, n)
      BY <1>2, <1>3, <2>1
    <3>2. /\ \A j \in 1 .. (i - 1) : \A k \in Messages(e) :
                Holds(s.log, j, k) /\ SameQueue(s, k, n) => k < n
          /\ \A k \in 1 .. (n - 1) :
                SameQueue(s, k, n) => \E j \in 1 .. (i - 1) : Holds(s.log, j, k)
      BY <2>1, <3>1 DEF LogInOrder
    <3>3. \A j \in 1 .. (i - 1) : j # Len(s.log) + 1
      BY <1>2, <2>1
    <3> QED BY <1>3, <3>2, <3>3 DEF SameQueue
  <2>2. CASE i = Len(s.log) + 1
    <3>1. n = m
      BY <1>2, <1>3, <2>2 DEF Holds
    <3>2. ASSUME NEW j \in 1 .. (i - 1), NEW k \in Messages(e), Holds(t.log, j, k),
                 SameQueue(t, k, n)
          PROVE  k < n
      <4>1. Holds(s.log, j, k)
        BY <1>2, <1>3, <2>2, <3>2
      <4>2. Logged(s, k) /\ SameQueue(s, k, m)
        BY <3>1, <3>2, <4>1 DEF Logged, Holds, SameQueue
      <4> QED BY <3>1, <4>2
    <3>3. ASSUME NEW k \in 1 .. (n - 1), SameQueue(t, k, n)
          PROVE  \E j \in 1 .. (i - 1) : Holds(t.log, j, k)
      <4>1. k \in Messages(e) /\ k < m /\ SameQueue(s, k, m)
        BY <3>1, <3>3, MessageTypes DEF SameQueue
      <4>2. PICK j \in DOMAIN s.log : Holds(s.log, j, k)
        BY <4>1 DEF Logged
      <4> QED BY <1>2, <1>3, <2>2, <4>2
    <3> QED BY <3>2, <3>3
  <2> QED BY <1>2, <2>1, <2>2
<1>6. Grows(s, t)
  BY <1>2 DEF Grows
<1>7. ASSUME AcceptFirst(s), s.acceptWritten PROVE AcceptFirst(t)
  <2>1. PICK a \in DOMAIN s.log : s.log[a].type = "accept"
    BY <1>7 DEF AcceptFirst
  <2>2. a \in DOMAIN t.log /\ t.log[a].type = "accept"
    BY <1>2, <2>1
  <2>3. ASSUME NEW i \in DOMAIN t.log, t.log[i].type = "data"
        PROVE  \E j \in 1 .. i : t.log[j].type = "accept"
    <3>1. CASE i \in DOMAIN s.log
      <4>1. PICK j \in 1 .. i : s.log[j].type = "accept"
        BY <1>2, <1>7, <2>3, <3>1 DEF AcceptFirst
      <4> QED BY <1>2, <3>1, <4>1
    <3>2. CASE i = Len(s.log) + 1
      BY <1>2, <2>1, <2>2, <3>2
    <3> QED BY <1>2, <3>1, <3>2
  <2> QED BY <2>2, <2>3 DEF AcceptFirst
<1> QED BY <1>4, <1>5, <1>6, <1>7

----------------------------------------------------------------------------
(* Sockets that close *)

\* The inbound side is left alone, and a socket does not come back.
Quiet(s, t) ==
    /\ SameReads(s, t)
    /\ s.closeSent => t.closeSent
    /\ s.destroyed => t.destroyed

\* A socket in which a message may be missing that a call of send() has just numbered.
Closable(e, s) ==
    /\ s \in Sockets(e) /\ Bounded(s) /\ StagesInStep(s)
    /\ CloseOnce(s) /\ SendsHeld(e, s)
    /\ LogInOrder(e, s) /\ FirstInOrder(e, s)
    /\ e = "guest" => AcceptFirst(s)

\* A socket that has sent its close frame or is dead: its queues stay or are dropped.
LEMMA ClosingKeeps ==
    ASSUME NEW e \in Ends, NEW s, NEW t, Closable(e, s), t \in Sockets(e), SameStage(s, t),
           \/ t.log = s.log
           \/ \E f \in Frames(e) : f.type # "data" /\ t.log = Append(s.log, f),
           t.sendQueue \in {s.sendQueue, <<>>}, t.outboundQueue \in {s.outboundQueue, <<>>},
           Len(t.inboundQueue) <= Cap,
           t.closeSent \/ t.destroyed, s.closeSent => t.closeSent, s.destroyed => t.destroyed,
           t.closeSent => t.outboundQueue = <<>>,
           Unwritable(s) => Unwritable(t), s.writable = "reset" => t.writable = "reset",
           t.closed \/ t.writable = "ended" => t.destroyed,
           CloseOnce(t), PauseHeld(t), SendsHeld(e, t)
    PROVE  OwnInv(e, t) /\ Grows(s, t)
<1>1. /\ s \in Sockets(e) /\ Bounded(s) /\ StagesInStep(s)
      /\ LogInOrder(e, s) /\ FirstInOrder(e, s)
      /\ e = "guest" => AcceptFirst(s)
  BY DEF Closable
<1>2. /\ t.accepted = s.accepted /\ t.acceptWritten = s.acceptWritten /\ t.accept = s.accept
      /\ t.sends = s.sends /\ t.early = s.early /\ t.flushing = s.flushing
      /\ t.writing = s.writing
  BY DEF SameStage
<1>3. /\ \A m : Logged(t, m) <=> Logged(s, m)
      /\ LogInOrder(e, t) /\ Grows(s, t)
      /\ AcceptFirst(s) => AcceptFirst(t)
  BY <1>1, <1>2, OtherFrame
<1>4. Len(<<>>) = 0 /\ DOMAIN <<>> = {}
  OBVIOUS
<1>5. Bounded(t)
  BY <1>1, <1>2, <1>4, MessageTypes DEF Bounded
<1>6. StagesInStep(t)
  BY <1>1, <1>2 DEF StagesInStep
<1>7. FirstInOrder(e, t)
  <2>1. /\ s.accept # "done" => \A m \in Messages(e) : ~Logged(s, m)
        /\ ~Unwritable(s) /\ s.accept # "done" =>
              /\ \A i \in DOMAIN s.sendQueue : s.sendQueue[i] = i
              /\ Len(s.sendQueue) <= IF s.accept = "handler" THEN s.sends ELSE s.early
        /\ ~Unwritable(s) /\ s.flushing # <<>> =>
              /\ \A i \in DOMAIN s.flushing :
                    s.flushing[i] = s.flushing[1] + i - 1 /\ s.flushing[i] <= s.early
              /\ \A m \in 1 .. s.early : Logged(s, m) <=> m <= s.flushing[1]
    BY <1>1 DEF FirstInOrder
  <2>2. s.sends \in Nat /\ s.early \in Nat
    BY <1>1, MessageTypes DEF Sockets
  <2>3. t.accept # "done" => \A m \in Messages(e) : ~Logged(t, m)
    BY <1>2, <1>3, <2>1
  <2>4. ~Unwritable(t) /\ t.accept # "done" =>
              /\ \A i \in DOMAIN t.sendQueue : t.sendQueue[i] = i
              /\ Len(t.sendQueue) <= IF t.accept = "handler" THEN t.sends ELSE t.early
    BY <1>2, <1>4, <2>1, <2>2
  <2>5. ~Unwritable(t) /\ t.flushing # <<>> =>
              /\ \A i \in DOMAIN t.flushing :
                    t.flushing[i] = t.flushing[1] + i - 1 /\ t.flushing[i] <= t.early
              /\ \A m \in 1 .. t.early : Logged(t, m) <=> m <= t.flushing[1]
    BY <1>2, <1>3, <2>1
  <2> QED BY <2>3, <2>4, <2>5 DEF FirstInOrder
<1>8. SecondInOrder(e, t)
  BY DEF SecondInOrder
<1> QED BY <1>1, <1>3, <1>5, <1>6, <1>7, <1>8 DEF OwnInv

\* Closable is what is left of the invariant while the second queue and the pause
\* are out of step; a closing or dead socket has the rest for nothing.
LEMMA OwnIsClosable ==
    ASSUME NEW e \in Ends, NEW s
    PROVE  /\ OwnInv(e, s) => Closable(e, s)
           /\ Closable(e, s) /\ (s.closeSent \/ s.destroyed) => OwnInv(e, s)
BY DEF OwnInv, Closable, SecondInOrder, PauseHeld

\* close() and every fault.
LEMMA CloseSocketKeeps ==
    ASSUME NEW e \in Ends, NEW s, Closable(e, s)
    PROVE  /\ OwnInv(e, CloseSocket(s)) /\ Grows(s, CloseSocket(s)) /\ Quiet(s, CloseSocket(s))
           /\ CloseSocket(s).closeSent \/ CloseSocket(s).destroyed
           /\ CloseSocket(s).destroyed = s.destroyed
<1>1. /\ s \in Sockets(e) /\ StagesInStep(s) /\ CloseOnce(s) /\ SendsHeld(e, s) /\ Bounded(s)
  BY DEF Closable
<1>2. CASE s.closeSent \/ s.destroyed
  <2>1. CloseSocket(s) = s
    BY <1>2 DEF CloseSocket
  <2>2. Len(s.log) \in Nat
    BY <1>1 DEF Sockets
  <2> QED BY <1>2, <2>1, <2>2, OwnIsClosable DEF Grows, Quiet, SameReads
<1>3. CASE ~(s.closeSent \/ s.destroyed)
  <2> DEFINE a == failOutboundQueue(s)
             d == IF s.accepted THEN a ELSE DiscardSendQueue(a)
             w == WriteLine(d, "close", 0)
             t == [w EXCEPT !.closeSent = TRUE, !.timer = TRUE]
  <2>1. CloseSocket(s) = t
    BY <1>3 DEF CloseSocket
  <2>2. /\ a \in Sockets(e) /\ SameReads(s, a) /\ SameStage(s, a) /\ SameEnd(s, a)
        /\ a.log = s.log /\ a.sendQueue = s.sendQueue /\ a.outboundQueue = <<>>
        /\ SettledAs(s.promise, a.promise, Elements(s.outboundQueue), "rejected")
    BY <1>1, FailProperties
  <2> HIDE DEF a
  <2>3. /\ d \in Sockets(e) /\ SameReads(a, d) /\ SameStage(a, d) /\ SameEnd(a, d)
        /\ d.log = a.log /\ d.outboundQueue = <<>>
        /\ d.sendQueue = IF s.accepted THEN s.sendQueue ELSE <<>>
        /\ SettledAs(a.promise, d.promise,
                     IF s.accepted THEN {} ELSE Elements(s.sendQueue), "rejected")
    <3>1. CASE s.accepted
      BY <2>2, <3>1 DEF SameReads, SameStage, SameEnd, SettledAs
    <3>2. CASE ~s.accepted
      BY <2>2, <3>2, DiscardProperties
    <3> QED BY <3>1, <3>2
  <2> HIDE DEF d
  <2>4. /\ w \in Sockets(e) /\ SameReads(d, w) /\ SameStage(d, w) /\ SameEnd(d, w)
        /\ SameQueues(d, w)
        /\ w.log = IF Unwritable(d) THEN d.log ELSE Append(d.log, Frame("close", 0))
    BY <2>3, WriteLineProperties, FrameProperties
  <2> HIDE DEF w
  <2>5. t \in Sockets(e)
    BY <2>4 DEF Sockets
  <2>6. /\ t.closeSent = TRUE /\ t.timer = TRUE
        /\ SameReads(w, t) /\ SameStage(w, t) /\ SameQueues(w, t) /\ t.log = w.log
        /\ t.destroyed = w.destroyed /\ t.writable = w.writable /\ t.closed = w.closed
        /\ t.closeEvents = w.closeEvents
    BY <2>4 DEF Sockets, SameReads, SameStage, SameQueues
  <2> HIDE DEF t
  <2>7. /\ SameReads(s, t) /\ SameStage(s, t)
        /\ t.destroyed = s.destroyed /\ t.writable = s.writable /\ t.closed = s.closed
        /\ t.closeEvents = s.closeEvents
        /\ t.outboundQueue = <<>>
        /\ t.sendQueue = IF s.accepted THEN s.sendQueue ELSE <<>>
        /\ t.promise = d.promise
    BY <2>2, <2>3, <2>4, <2>6 DEF SameReads, SameStage, SameEnd, SameQueues
  <2>8. \/ t.log = s.log
        \/ \E f \in Frames(e) : f.type # "data" /\ t.log = Append(s.log, f)
    <3>1. Frame("close", 0) \in Frames(e) /\ Frame("close", 0).type # "data"
      BY FrameProperties
    <3> QED BY <2>2, <2>3, <2>4, <2>6, <3>1
  <2>9. SendsHeld(e, t)
    <3> SUFFICES ASSUME NEW m \in Messages(e), t.promise[m] = "pending", ~t.destroyed,
                        t.writable # "reset"
                 PROVE  \/ m \in Elements(t.sendQueue) /\ t.accept # "done"
                        \/ m \in Elements(t.flushing)
                        \/ m = t.writing
      BY DEF SendsHeld
    <3>1. DOMAIN s.promise = Messages(e) /\ DOMAIN a.promise = Messages(e)
      BY <1>1, <2>2 DEF Sockets
    <3>2. /\ s.promise[m] = "pending" /\ m \notin Elements(s.outboundQueue)
          /\ ~s.accepted => m \notin Elements(s.sendQueue)
      BY <2>2, <2>3, <2>7, <3>1 DEF SettledAs
    <3> QED BY <1>1, <2>7, <3>2 DEF SendsHeld, SameStage
  <2>10. CloseOnce(t) /\ PauseHeld(t)
    BY <1>1, <2>6, <2>7 DEF CloseOnce, PauseHeld
  <2>11. Len(t.inboundQueue) <= Cap
    BY <1>1, <2>7 DEF Bounded, SameReads
  <2>12. /\ Unwritable(s) => Unwritable(t)
         /\ t.closed \/ t.writable = "ended" => t.destroyed
    BY <1>1, <2>7 DEF Unwritable, StagesInStep
  <2>13. OwnInv(e, t) /\ Grows(s, t)
    BY <1>3, <2>5, <2>6, <2>7, <2>8, <2>9, <2>10, <2>11, <2>12, ClosingKeeps
  <2> QED BY <1>3, <2>1, <2>6, <2>7, <2>13 DEF Quiet
<1> QED BY <1>2, <1>3

\* The socket dies: the ways to it differ in what they drop and write.
LEMMA DeadKeeps ==
    ASSUME NEW e \in Ends, NEW s, NEW t, OwnInv(e, s), t \in Sockets(e), SameStage(s, t),
           SameReads(s, t), ~s.destroyed, t.destroyed, t.closeSent = s.closeSent,
           \/ t.log = s.log
           \/ \E f \in Frames(e) : f.type # "data" /\ t.log = Append(s.log, f),
           t.sendQueue \in {s.sendQueue, <<>>}, t.outboundQueue \in {s.outboundQueue, <<>>},
           t.closeEvents = s.closeEvents + 1,
           s.closed => t.closed, s.writable # "open" => t.writable = s.writable
    PROVE  OwnInv(e, t) /\ Grows(s, t) /\ Quiet(s, t)
<1>1. /\ s \in Sockets(e) /\ StagesInStep(s) /\ CloseOnce(s) /\ Bounded(s)
  BY DEF OwnInv
<1>2. s.closed \in BOOLEAN /\ t.closed \in BOOLEAN
  BY <1>1 DEF Sockets
<1>3. CloseOnce(t) /\ PauseHeld(t) /\ SendsHeld(e, t)
  BY <1>1 DEF CloseOnce, PauseHeld, SendsHeld
<1>4. /\ Unwritable(s) => Unwritable(t)
      /\ s.writable = "reset" => t.writable = "reset"
  BY <1>2 DEF Unwritable
<1>5. /\ Len(t.inboundQueue) <= Cap
      /\ t.closeSent => t.outboundQueue = <<>>
  BY <1>1 DEF Bounded, SameReads, StagesInStep
<1> QED BY <1>3, <1>4, <1>5, ClosingKeeps, OwnIsClosable DEF Quiet

\* A log that goes on goes on.
LEMMA GrowsOn ==
    ASSUME NEW e \in Ends, NEW s \in Sockets(e), NEW t \in Sockets(e), NEW u \in Sockets(e),
           Grows(s, t), Grows(t, u)
    PROVE  Grows(s, u)
<1>1. /\ s.log \in Seq(Frames(e)) /\ t.log \in Seq(Frames(e)) /\ u.log \in Seq(Frames(e))
  BY DEF Sockets
<1>2. /\ Len(s.log) \in Nat /\ Len(t.log) \in Nat /\ Len(u.log) \in Nat
      /\ DOMAIN s.log = 1 .. Len(s.log) /\ DOMAIN t.log = 1 .. Len(t.log)
      /\ DOMAIN s.log \subseteq DOMAIN t.log
  BY <1>1 DEF Grows
<1>3. Len(s.log) <= Len(u.log) /\ \A i \in DOMAIN s.log : u.log[i] = s.log[i]
  BY <1>2 DEF Grows
<1>4. ASSUME NEW m, Logged(s, m) PROVE Logged(t, m)
  BY <1>2, <1>4 DEF Logged, Holds, Grows
<1>5. u.early = s.early \/ \A m \in Nat \ {0} : ~Logged(s, m)
  BY <1>4 DEF Grows
<1> QED BY <1>3, <1>5 DEF Grows

\* Two quiet steps are one.
LEMMA QuietOn ==
    ASSUME NEW s, NEW t, NEW u, Quiet(s, t), Quiet(t, u)
    PROVE  Quiet(s, u)
BY DEF Quiet, SameReads

\* A step that changes nothing is quiet, and the log goes on.
LEMMA GrowsSame ==
    ASSUME NEW e \in Ends, NEW s \in Sockets(e)
    PROVE  Grows(s, s) /\ Quiet(s, s)
<1>1. Len(s.log) \in Nat
  BY DEF Sockets
<1> QED BY <1>1 DEF Grows, Quiet, SameReads

\* A dead socket, of which only its timer and its stream may still change.
LEMMA GoneKeeps ==
    ASSUME NEW e \in Ends, NEW s, NEW t, OwnInv(e, s), s.destroyed, t \in Sockets(e),
           SameStage(s, t), SameReads(s, t), SameQueues(s, t), t.log = s.log,
           t.closeSent = s.closeSent, t.destroyed, t.closeEvents = s.closeEvents,
           t.writable = s.writable, s.closed => t.closed
    PROVE  OwnInv(e, t) /\ Grows(s, t) /\ Quiet(s, t)
<1>1. /\ s \in Sockets(e) /\ StagesInStep(s) /\ CloseOnce(s) /\ Bounded(s)
  BY DEF OwnInv
<1>2. CloseOnce(t) /\ PauseHeld(t) /\ SendsHeld(e, t)
  BY <1>1 DEF CloseOnce, PauseHeld, SendsHeld
<1>3. Unwritable(s) => Unwritable(t)
  BY DEF Unwritable
<1>4. /\ Len(t.inboundQueue) <= Cap
      /\ t.closeSent => t.outboundQueue = <<>>
      /\ t.sendQueue \in {s.sendQueue, <<>>} /\ t.outboundQueue \in {s.outboundQueue, <<>>}
  BY <1>1 DEF Bounded, SameReads, SameQueues, StagesInStep
<1> QED BY <1>2, <1>3, <1>4, ClosingKeeps, OwnIsClosable DEF Quiet

\* 'end' or 'close' of the stream.
LEMMA StreamGoneKeeps ==
    ASSUME NEW e \in Ends, NEW s, OwnInv(e, s)
    PROVE  /\ OwnInv(e, StreamGone(s)) /\ Grows(s, StreamGone(s)) /\ Quiet(s, StreamGone(s))
           /\ StreamGone(s).destroyed
<1>1. s \in Sockets(e)
  BY DEF OwnInv
<1>2. CASE s.destroyed
  <2> DEFINE t == [s EXCEPT !.timer = FALSE]
  <2>1. t \in Sockets(e)
    BY <1>1 DEF Sockets
  <2>2. /\ SameStage(s, t) /\ SameReads(s, t) /\ SameQueues(s, t) /\ t.log = s.log
        /\ t.closeSent = s.closeSent /\ t.destroyed = s.destroyed
        /\ t.closeEvents = s.closeEvents /\ t.writable = s.writable /\ t.closed = s.closed
    BY <1>1 DEF Sockets, SameReads, SameStage, SameQueues
  <2>3. StreamGone(s) = t
    BY <1>2 DEF StreamGone
  <2> HIDE DEF t
  <2> QED BY <1>2, <2>1, <2>2, <2>3, GoneKeeps
<1>3. CASE ~s.destroyed
  <2> DEFINE a == [s EXCEPT !.destroyed = TRUE, !.timer = FALSE]
             f == failOutboundQueue(a)
             d == IF s.accepted THEN f ELSE DiscardSendQueue(f)
             t == EmitClose(d)
  <2>1. StreamGone(s) = t
    BY <1>3 DEF StreamGone
  <2>2. a \in Sockets(e)
    BY <1>1 DEF Sockets
  <2>3. /\ SameStage(s, a) /\ SameReads(s, a) /\ SameQueues(s, a) /\ a.log = s.log
        /\ a.closeSent = s.closeSent /\ a.destroyed
        /\ a.closeEvents = s.closeEvents /\ a.writable = s.writable /\ a.closed = s.closed
    BY <1>1 DEF Sockets, SameReads, SameStage, SameQueues
  <2> HIDE DEF a
  <2>4. /\ f \in Sockets(e) /\ SameReads(a, f) /\ SameStage(a, f) /\ SameEnd(a, f)
        /\ f.log = a.log /\ f.sendQueue = a.sendQueue /\ f.outboundQueue = <<>>
    BY <2>2, FailProperties
  <2> HIDE DEF f
  <2>5. /\ d \in Sockets(e) /\ SameReads(f, d) /\ SameStage(f, d) /\ SameEnd(f, d)
        /\ d.log = f.log /\ d.outboundQueue = <<>> /\ d.sendQueue \in {f.sendQueue, <<>>}
    <3>1. CASE s.accepted
      BY <2>4, <3>1 DEF SameReads, SameStage, SameEnd
    <3>2. CASE ~s.accepted
      BY <2>4, <3>2, DiscardProperties
    <3> QED BY <3>1, <3>2
  <2> HIDE DEF d
  <2>6. /\ t \in Sockets(e) /\ SameReads(d, t) /\ SameStage(d, t) /\ SameQueues(d, t)
        /\ t.log = d.log /\ t.closeSent = d.closeSent /\ t.destroyed = d.destroyed
        /\ t.writable = d.writable /\ t.closed = d.closed /\ t.closeEvents = d.closeEvents + 1
    BY <2>5, EmitCloseProperties
  <2> HIDE DEF t
  <2>7. SameStage(s, t) /\ SameReads(s, t)
    BY <2>3, <2>4, <2>5, <2>6 DEF SameStage, SameReads
  <2>8. /\ t.sendQueue \in {s.sendQueue, <<>>} /\ t.outboundQueue = <<>>
    BY <2>3, <2>4, <2>5, <2>6 DEF SameQueues
  <2>9. /\ t.log = s.log /\ t.closeSent = s.closeSent /\ t.destroyed
        /\ t.writable = s.writable /\ t.closed = s.closed /\ t.closeEvents = s.closeEvents + 1
    BY <2>3, <2>4, <2>5, <2>6 DEF SameEnd
  <2> QED BY <1>3, <2>1, <2>6, <2>7, <2>8, <2>9, DeadKeeps
<1> QED BY <1>2, <1>3

\* 'close' of the stream.
LEMMA StreamClosedKeeps ==
    ASSUME NEW e \in Ends, NEW s, OwnInv(e, s), NEW t,
           t = [StreamGone(s) EXCEPT !.closed = TRUE]
    PROVE  OwnInv(e, t) /\ Grows(s, t) /\ Quiet(s, t)
<1> DEFINE g == StreamGone(s)
<1>1. /\ OwnInv(e, g) /\ Grows(s, g) /\ Quiet(s, g) /\ g.destroyed
  BY StreamGoneKeeps
<1>2. t = [g EXCEPT !.closed = TRUE]
  OBVIOUS
<1> HIDE DEF g
<1>3. s \in Sockets(e) /\ g \in Sockets(e)
  BY <1>1 DEF OwnInv
<1>4. t \in Sockets(e)
  BY <1>2, <1>3 DEF Sockets
<1>5. /\ SameStage(g, t) /\ SameReads(g, t) /\ SameQueues(g, t) /\ t.log = g.log
      /\ t.closeSent = g.closeSent /\ t.destroyed = g.destroyed
      /\ t.closeEvents = g.closeEvents /\ t.writable = g.writable /\ t.closed = TRUE
  BY <1>2, <1>3 DEF Sockets, SameReads, SameStage, SameQueues
<1>6. OwnInv(e, t) /\ Grows(g, t) /\ Quiet(g, t)
  BY <1>1, <1>4, <1>5, GoneKeeps
<1> QED BY <1>1, <1>3, <1>4, <1>6, GrowsOn, QuietOn

\* terminate() of a live socket.
LEMMA TerminateKeeps ==
    ASSUME NEW e \in Ends, NEW s, OwnInv(e, s), ~s.destroyed, NEW t,
           t = [EmitClose(failOutboundQueue(s)) EXCEPT !.destroyed = TRUE, !.writable = "reset"]
    PROVE  OwnInv(e, t) /\ Grows(s, t) /\ Quiet(s, t)
<1>1. s \in Sockets(e) /\ StagesInStep(s)
  BY DEF OwnInv
<1> DEFINE f == failOutboundQueue(s)
           c == EmitClose(f)
<1>2. /\ f \in Sockets(e) /\ SameReads(s, f) /\ SameStage(s, f) /\ SameEnd(s, f)
      /\ f.log = s.log /\ f.sendQueue = s.sendQueue /\ f.outboundQueue = <<>>
  BY <1>1, FailProperties
<1>3. t = [c EXCEPT !.destroyed = TRUE, !.writable = "reset"]
  OBVIOUS
<1> HIDE DEF f
<1>4. /\ c \in Sockets(e) /\ SameReads(f, c) /\ SameStage(f, c) /\ SameQueues(f, c)
      /\ c.log = f.log /\ c.closeSent = f.closeSent
      /\ c.closed = f.closed /\ c.closeEvents = f.closeEvents + 1
  BY <1>2, EmitCloseProperties
<1> HIDE DEF c
<1>5. t \in Sockets(e)
  BY <1>3, <1>4 DEF Sockets
<1>6. /\ SameReads(c, t) /\ SameStage(c, t) /\ SameQueues(c, t) /\ t.log = c.log
      /\ t.closeSent = c.closeSent /\ t.closed = c.closed /\ t.closeEvents = c.closeEvents
      /\ t.destroyed /\ t.writable = "reset"
  BY <1>3, <1>4 DEF Sockets, SameReads, SameStage, SameQueues
<1>7. SameStage(s, t) /\ SameReads(s, t)
  BY <1>2, <1>4, <1>6 DEF SameStage, SameReads
<1>8. /\ t.sendQueue = s.sendQueue /\ t.outboundQueue = <<>>
      /\ t.log = s.log /\ t.closeSent = s.closeSent
      /\ t.closed = s.closed /\ t.closeEvents = s.closeEvents + 1
  BY <1>2, <1>4, <1>6 DEF SameEnd, SameQueues
<1>9. s.writable # "open" => t.writable = s.writable
  BY <1>1, <1>6 DEF StagesInStep, Sockets
<1> QED BY <1>5, <1>6, <1>7, <1>8, <1>9, DeadKeeps

\* The close timer, on a live socket and on one that has died since.
LEMMA TimeoutKeeps ==
    ASSUME NEW e \in Ends, NEW s, OwnInv(e, s), NEW t,
           t = IF s.destroyed THEN [s EXCEPT !.timer = FALSE]
               ELSE EmitClose([failOutboundQueue(s) EXCEPT
                        !.timer = FALSE, !.destroyed = TRUE, !.writable = "reset"])
    PROVE  OwnInv(e, t) /\ Grows(s, t) /\ Quiet(s, t)
<1>1. s \in Sockets(e) /\ StagesInStep(s)
  BY DEF OwnInv
<1>2. CASE s.destroyed
  <2>1. t = StreamGone(s)
    BY <1>2 DEF StreamGone
  <2> QED BY <2>1, StreamGoneKeeps
<1>3. CASE ~s.destroyed
  <2> DEFINE f == failOutboundQueue(s)
             d == [f EXCEPT !.timer = FALSE, !.destroyed = TRUE, !.writable = "reset"]
  <2>1. t = EmitClose(d)
    BY <1>3
  <2>2. /\ f \in Sockets(e) /\ SameReads(s, f) /\ SameStage(s, f) /\ SameEnd(s, f)
        /\ f.log = s.log /\ f.sendQueue = s.sendQueue /\ f.outboundQueue = <<>>
    BY <1>1, FailProperties
  <2> HIDE DEF f
  <2>3. d \in Sockets(e)
    BY <2>2 DEF Sockets
  <2>4. /\ SameReads(f, d) /\ SameStage(f, d) /\ SameQueues(f, d) /\ d.log = f.log
        /\ d.closeSent = f.closeSent /\ d.closed = f.closed /\ d.closeEvents = f.closeEvents
        /\ d.destroyed /\ d.writable = "reset"
    BY <2>2 DEF Sockets, SameReads, SameStage, SameQueues
  <2> HIDE DEF d
  <2>5. /\ t \in Sockets(e) /\ SameReads(d, t) /\ SameStage(d, t) /\ SameQueues(d, t)
        /\ t.log = d.log /\ t.closeSent = d.closeSent /\ t.destroyed = d.destroyed
        /\ t.writable = d.writable /\ t.closed = d.closed /\ t.closeEvents = d.closeEvents + 1
    BY <2>1, <2>3, EmitCloseProperties
  <2>6. SameStage(s, t) /\ SameReads(s, t)
    BY <2>2, <2>4, <2>5 DEF SameStage, SameReads
  <2>7. /\ t.sendQueue = s.sendQueue /\ t.outboundQueue = <<>>
        /\ t.log = s.log /\ t.closeSent = s.closeSent /\ t.destroyed /\ t.writable = "reset"
        /\ t.closed = s.closed /\ t.closeEvents = s.closeEvents + 1
    BY <2>2, <2>4, <2>5 DEF SameEnd, SameQueues
  <2>8. s.writable # "open" => t.writable = s.writable
    BY <1>1, <1>3, <2>7 DEF StagesInStep, Sockets
  <2> QED BY <1>3, <2>5, <2>6, <2>7, <2>8, DeadKeeps
<1> QED BY <1>2, <1>3

\* The close frame of the peer.
LEMMA ReceiveCloseKeeps ==
    ASSUME NEW e \in Ends, NEW s, OwnInv(e, s), ~s.destroyed
    PROVE  /\ OwnInv(e, ReceiveClose(s)) /\ Grows(s, ReceiveClose(s))
           /\ Quiet(s, ReceiveClose(s)) /\ ReceiveClose(s).destroyed
<1>1. s \in Sockets(e) /\ StagesInStep(s)
  BY DEF OwnInv
<1> DEFINE a == [s EXCEPT !.destroyed = TRUE, !.timer = FALSE]
           c == EmitClose(a)
           w == IF s.closeSent THEN c ELSE WriteLine(c, "close", 0)
           how == IF w.writable = "open" THEN "ended" ELSE w.writable
           t == [w EXCEPT !.writable = how]
<1>2. ReceiveClose(s) = t
  BY DEF ReceiveClose
<1>3. a \in Sockets(e)
  BY <1>1 DEF Sockets
<1>4. /\ SameStage(s, a) /\ SameReads(s, a) /\ SameQueues(s, a) /\ a.log = s.log
      /\ a.closeSent = s.closeSent /\ a.destroyed
      /\ a.closeEvents = s.closeEvents /\ a.writable = s.writable /\ a.closed = s.closed
  BY <1>1 DEF Sockets, SameReads, SameStage, SameQueues
<1> HIDE DEF a
<1>5. /\ c \in Sockets(e) /\ SameReads(a, c) /\ SameStage(a, c) /\ SameQueues(a, c)
      /\ c.log = a.log /\ c.closeSent = a.closeSent /\ c.destroyed = a.destroyed
      /\ c.writable = a.writable /\ c.closed = a.closed /\ c.closeEvents = a.closeEvents + 1
  BY <1>3, EmitCloseProperties
<1> HIDE DEF c
<1>6. /\ w \in Sockets(e) /\ SameReads(c, w) /\ SameStage(c, w) /\ SameEnd(c, w)
      /\ SameQueues(c, w)
      /\ w.log \in {c.log, Append(c.log, Frame("close", 0))}
  <2>1. CASE s.closeSent
    BY <1>5, <2>1 DEF SameReads, SameStage, SameEnd, SameQueues
  <2>2. CASE ~s.closeSent
    <3>1. Frame("close", 0) \in Frames(e)
      BY FrameProperties
    <3>2. w = WriteLine(c, "close", 0)
      BY <2>2
    <3> HIDE DEF w
    <3> QED BY ONLY e \in Ends, <1>5, <3>1, <3>2, WriteLineProperties
  <2> QED BY <2>1, <2>2
<1> HIDE DEF w
<1>7. how \in {"open", "ended", "reset"} /\ (w.writable # "open" => how = w.writable)
  BY <1>6 DEF Sockets
<1> HIDE DEF how
<1>8. t \in Sockets(e)
  BY <1>6, <1>7 DEF Sockets
<1>9. /\ SameReads(w, t) /\ SameStage(w, t) /\ SameQueues(w, t) /\ t.log = w.log
      /\ t.closeSent = w.closeSent /\ t.closed = w.closed /\ t.closeEvents = w.closeEvents
      /\ t.destroyed = w.destroyed /\ t.writable = how
  BY <1>6 DEF Sockets, SameReads, SameStage, SameQueues
<1> HIDE DEF t
<1>10. SameStage(s, t) /\ SameReads(s, t)
  BY <1>4, <1>5, <1>6, <1>9 DEF SameStage, SameReads
<1>11. /\ t.sendQueue = s.sendQueue /\ t.outboundQueue = s.outboundQueue
       /\ t.closeSent = s.closeSent /\ t.destroyed
       /\ t.closed = s.closed /\ t.closeEvents = s.closeEvents + 1
       /\ s.writable # "open" => t.writable = s.writable
  BY <1>4, <1>5, <1>6, <1>7, <1>9 DEF SameEnd, SameQueues
<1>12. \/ t.log = s.log
       \/ \E f \in Frames(e) : f.type # "data" /\ t.log = Append(s.log, f)
  <2>1. Frame("close", 0) \in Frames(e) /\ Frame("close", 0).type # "data"
    BY FrameProperties
  <2> QED BY <1>4, <1>5, <1>6, <1>9, <2>1
<1> QED BY <1>2, <1>8, <1>10, <1>11, <1>12, DeadKeeps

----------------------------------------------------------------------------
(* The two queues of the messages to send *)

\* A queue and what is left of it without its head.
LEMMA TailIndexes ==
    ASSUME NEW S, NEW q \in Seq(S), q # <<>>
    PROVE  /\ Len(q) \in Nat \ {0} /\ Head(q) = q[1] /\ Head(q) \in S
           /\ Tail(q) \in Seq(S) /\ Len(Tail(q)) = Len(q) - 1
           /\ DOMAIN q = 1 .. Len(q) /\ DOMAIN Tail(q) = 1 .. (Len(q) - 1)
           /\ \A i \in DOMAIN Tail(q) : Tail(q)[i] = q[i + 1]
           /\ Elements(q) = Elements(Tail(q)) \cup {Head(q)}
BY TailProperties

\* Every pending message is somewhere, though nothing may be moving it.
SendsQueued(e, s) ==
    \A m \in Messages(e) :
        s.promise[m] = "pending" /\ ~s.destroyed /\ s.writable # "reset" =>
            \/ m \in Elements(s.sendQueue) /\ s.accept # "done"
            \/ m \in Elements(s.flushing)
            \/ m = s.writing
            \/ m \in Elements(s.outboundQueue)

\* The socket as the pump may find it.
PumpReady(e, s) ==
    /\ s \in Sockets(e) /\ Bounded(s) /\ StagesInStep(s)
    /\ CloseOnce(s) /\ PauseHeld(s) /\ SendsQueued(e, s)
    /\ LogInOrder(e, s) /\ FirstInOrder(e, s) /\ SecondInOrder(e, s)
    /\ e = "guest" => AcceptFirst(s)

\* pumpOutboundQueue writes the next message of the second queue, which is next in
\* order.
LEMMA PumpKeeps ==
    ASSUME NEW e \in Ends, NEW s, PumpReady(e, s), s.acceptWritten
    PROVE  /\ OwnInv(e, pumpOutboundQueue(s)) /\ Grows(s, pumpOutboundQueue(s))
           /\ Quiet(s, pumpOutboundQueue(s))
<1>1. /\ s \in Sockets(e) /\ Bounded(s) /\ StagesInStep(s)
      /\ CloseOnce(s) /\ PauseHeld(s) /\ SendsQueued(e, s)
      /\ LogInOrder(e, s) /\ FirstInOrder(e, s) /\ SecondInOrder(e, s)
      /\ e = "guest" => AcceptFirst(s)
  BY DEF PumpReady
<1>2. s.outboundQueue \in Seq(Messages(e)) /\ s.sends \in Nat /\ s.early \in Nat
  BY <1>1, MessageTypes DEF Sockets
<1>3. CASE s.writing # 0 \/ s.destroyed \/ s.outboundQueue = <<>>
  <2>1. pumpOutboundQueue(s) = s
    BY <1>3 DEF pumpOutboundQueue
  <2>2. SendsHeld(e, s)
    <3>1. Elements(<<>>) = {}
      BY EmptyProperties
    <3> QED BY <1>1, <1>3, <3>1 DEF SendsHeld, SendsQueued
  <2> QED BY <1>1, <2>1, <2>2, GrowsSame DEF OwnInv
<1>4. CASE ~(s.writing # 0 \/ s.destroyed \/ s.outboundQueue = <<>>)
  <2> DEFINE m == Head(s.outboundQueue)
             q == Tail(s.outboundQueue)
             w == WriteLine(s, "data", m)
             t == [w EXCEPT !.writing = m, !.outboundQueue = q]
  <2>1. /\ Len(s.outboundQueue) \in Nat \ {0} /\ m = s.outboundQueue[1] /\ m \in Messages(e)
        /\ q \in Seq(Messages(e)) /\ Len(q) = Len(s.outboundQueue) - 1
        /\ DOMAIN s.outboundQueue = 1 .. Len(s.outboundQueue)
        /\ DOMAIN q = 1 .. (Len(s.outboundQueue) - 1)
        /\ \A i \in DOMAIN q : q[i] = s.outboundQueue[i + 1]
        /\ Elements(s.outboundQueue) = Elements(q) \cup {m}
    BY <1>2, <1>4, TailIndexes
  <2>2. /\ w \in Sockets(e) /\ SameReads(s, w) /\ SameStage(s, w) /\ SameEnd(s, w)
        /\ SameQueues(s, w)
        /\ w.log = IF Unwritable(s) THEN s.log ELSE Append(s.log, Frame("data", m))
    <3>1. Frame("data", m) \in Frames(e)
      BY <2>1, FrameProperties
    <3> QED BY <1>1, <3>1, WriteLineProperties
  <2>3. pumpOutboundQueue(s) = t
    <3>1. w.outboundQueue = s.outboundQueue
      BY <2>2 DEF SameQueues
    <3> HIDE DEF w
    <3>2. [w EXCEPT !.writing = m, !.outboundQueue = Tail(@)] = t
      BY <2>2, <3>1 DEF Sockets
    <3> QED BY <1>4, <3>2 DEF pumpOutboundQueue, w
  <2> HIDE DEF m, q, w
  <2>4. t \in Sockets(e)
    BY <2>1, <2>2 DEF Sockets
  <2>5. /\ SameReads(w, t) /\ SameEnd(w, t) /\ t.log = w.log
        /\ t.sendQueue = w.sendQueue /\ t.promise = w.promise
        /\ t.accepted = w.accepted /\ t.acceptWritten = w.acceptWritten /\ t.accept = w.accept
        /\ t.sends = w.sends /\ t.early = w.early /\ t.flushing = w.flushing
        /\ t.writing = m /\ t.outboundQueue = q
    BY <2>2 DEF Sockets, SameReads, SameEnd
  <2> HIDE DEF t
  <2>6. SameReads(s, t) /\ SameEnd(s, t)
    BY <2>2, <2>5 DEF SameReads, SameEnd
  <2>7. /\ t.sendQueue = s.sendQueue /\ t.promise = s.promise
        /\ t.accepted = s.accepted /\ t.acceptWritten = s.acceptWritten /\ t.accept = s.accept
        /\ t.sends = s.sends /\ t.early = s.early /\ t.flushing = s.flushing
        /\ t.log = IF Unwritable(s) THEN s.log ELSE Append(s.log, Frame("data", m))
    BY <2>2, <2>5 DEF SameQueues, SameStage
  <2>8. Unwritable(t) = Unwritable(s)
    BY <2>6 DEF SameEnd, Unwritable
  <2>9. m \in Nat \ {0}
    BY <2>1, MessageTypes
  <2>10. Bounded(t)
    BY <1>1, <1>2, <2>1, <2>5, <2>6, <2>7, MessageTypes DEF Bounded, SameReads
  <2>11. ~s.closeSent /\ s.acceptWritten /\ s.accept = "done" /\ s.accepted
    BY <1>1, <1>4 DEF StagesInStep
  <2>12. StagesInStep(t)
    BY <1>1, <2>6, <2>7, <2>11 DEF StagesInStep, SameEnd
  <2>13. CloseOnce(t) /\ PauseHeld(t)
    BY <1>1, <2>6 DEF CloseOnce, PauseHeld, SameEnd, SameReads
  <2>14. SendsHeld(e, t)
    <3> SUFFICES ASSUME NEW k \in Messages(e), t.promise[k] = "pending", ~t.destroyed,
                        t.writable # "reset"
                 PROVE  \/ k \in Elements(t.flushing)
                        \/ k = t.writing
                        \/ k \in Elements(t.outboundQueue) /\ t.writing # 0
      BY DEF SendsHeld
    <3>1. k \in Elements(s.flushing) \/ k = s.writing \/ k \in Elements(s.outboundQueue)
      BY <1>1, <2>6, <2>7, <2>11 DEF SendsQueued, SameEnd
    <3>2. k # s.writing
      BY <1>4, MessageTypes
    <3> QED BY <2>1, <2>5, <2>7, <2>9, <3>1, <3>2
  <2>15. CASE Unwritable(s)
    <3>1. LogInOrder(e, t) /\ Grows(s, t) /\ (AcceptFirst(s) => AcceptFirst(t))
      BY <1>1, <2>4, <2>7, <2>15, OtherFrame
    <3>2. FirstInOrder(e, t)
      BY <2>7, <2>8, <2>11, <2>15 DEF FirstInOrder
    <3>3. SecondInOrder(e, t)
      BY <1>1, <2>7, <2>8, <2>15 DEF SecondInOrder
    <3> QED BY <1>1, <2>3, <2>4, <2>6, <2>10, <2>12, <2>13, <2>14, <3>1, <3>2, <3>3
            DEF OwnInv, Quiet, SameEnd
  <2>16. CASE ~Unwritable(s)
    <3> DEFINE n == s.sends - Len(s.outboundQueue)
    <3>1. /\ s.early <= n
          /\ \A i \in DOMAIN s.outboundQueue : s.outboundQueue[i] = n + i
          /\ \A k \in Messages(e) : k > s.early => (Logged(s, k) <=> k <= n)
          /\ s.early <= s.sends
      BY <1>1, <1>4, <2>11, <2>16 DEF SecondInOrder, StagesInStep
    <3>2. m = n + 1 /\ n \in Int
      BY <1>2, <2>1, <3>1
    <3>3. t.sends - Len(t.outboundQueue) = n + 1
      BY <1>2, <2>1, <2>5, <2>7
    <3> HIDE DEF n
    <3>4. \A k \in Messages(e) : SameQueue(s, k, m) => (Logged(s, k) <=> k < m)
      <4> SUFFICES ASSUME NEW k \in Messages(e), SameQueue(s, k, m)
                   PROVE  Logged(s, k) <=> k < m
        OBVIOUS
      <4>1. k > s.early /\ k \in Nat
        BY <1>2, <2>9, <3>1, <3>2, MessageTypes DEF SameQueue
      <4>2. Logged(s, k) <=> k <= n
        BY <3>1, <4>1
      <4>3. k <= n <=> k < m
        BY <3>2, <4>1
      <4> QED BY <4>2, <4>3
    <3>5. /\ \A k : Logged(t, k) <=> (Logged(s, k) \/ k = m)
          /\ LogInOrder(e, t)
          /\ Grows(s, t)
          /\ AcceptFirst(s) /\ s.acceptWritten => AcceptFirst(t)
      <4>1. t.log = Append(s.log, Frame("data", m))
        BY <2>7, <2>16
      <4> QED BY <1>1, <2>1, <2>4, <2>7, <3>4, <4>1, DataFrame
    <3>6. FirstInOrder(e, t)
      <4> SUFFICES ASSUME s.flushing # <<>>
                   PROVE  /\ \A i \in DOMAIN s.flushing :
                                s.flushing[i] = s.flushing[1] + i - 1 /\ s.flushing[i] <= s.early
                          /\ \A k \in 1 .. s.early : Logged(t, k) <=> k <= s.flushing[1]
        BY <2>7, <2>11 DEF FirstInOrder
      <4>1. /\ \A i \in DOMAIN s.flushing :
                  s.flushing[i] = s.flushing[1] + i - 1 /\ s.flushing[i] <= s.early
            /\ \A k \in 1 .. s.early : Logged(s, k) <=> k <= s.flushing[1]
        BY <1>1, <2>16 DEF FirstInOrder
      <4>2. \A k \in 1 .. s.early : k # m
        BY <1>2, <3>1, <3>2
      <4> QED BY <3>5, <4>1, <4>2
    <3>7. SecondInOrder(e, t)
      <4>1. s.early <= n + 1
        BY <1>2, <3>1, <3>2
      <4>2. \A i \in DOMAIN q : q[i] = n + 1 + i
        <5> TAKE i \in DOMAIN q
        <5>1. i + 1 \in DOMAIN s.outboundQueue /\ i \in Nat
          BY <2>1
        <5>2. q[i] = n + (i + 1)
          BY <2>1, <3>1, <5>1
        <5> QED BY <3>2, <5>1, <5>2
      <4>3. ASSUME NEW k \in Messages(e), k > s.early PROVE Logged(t, k) <=> k <= n + 1
        <5>1. Logged(s, k) <=> k <= n
          BY <3>1, <4>3
        <5>2. k <= n \/ k = m <=> k <= n + 1
          BY <3>2, MessageTypes
        <5> QED BY <3>5, <5>1, <5>2
      <4> DEFINE N == t.sends - Len(t.outboundQueue)
      <4>4. /\ t.early <= N
            /\ \A i \in DOMAIN t.outboundQueue : t.outboundQueue[i] = N + i
            /\ \A k \in Messages(e) : k > t.early => (Logged(t, k) <=> k <= N)
            /\ t.early <= t.sends
        BY <2>5, <2>7, <3>1, <3>3, <4>1, <4>2, <4>3
      <4> QED BY <2>7, <2>11, <4>4 DEF SecondInOrder
    <3> QED BY <1>1, <2>3, <2>4, <2>6, <2>10, <2>11, <2>12, <2>13, <2>14, <3>5, <3>6, <3>7
            DEF OwnInv, Quiet, SameEnd
  <2> QED BY <2>15, <2>16
<1> QED BY <1>3, <1>4

\* The socket as flushNext may find it: the first entry is not written yet.
FlushReady(e, s) ==
    /\ s \in Sockets(e) /\ Bounded(s) /\ StagesInStep(s)
    /\ CloseOnce(s) /\ PauseHeld(s) /\ SendsQueued(e, s)
    /\ LogInOrder(e, s) /\ SecondInOrder(e, s)
    /\ ~Unwritable(s) /\ s.flushing # <<>> =>
          /\ \A i \in DOMAIN s.flushing :
                s.flushing[i] = s.flushing[1] + i - 1 /\ s.flushing[i] <= s.early
          /\ \A m \in 1 .. s.early : Logged(s, m) <=> m < s.flushing[1]
    /\ e = "guest" => AcceptFirst(s)

\* flushNext writes the next message of the first queue, or starts the pump.
LEMMA FlushKeeps ==
    ASSUME NEW e \in Ends, NEW s, FlushReady(e, s), s.acceptWritten
    PROVE  OwnInv(e, FlushNext(s)) /\ Grows(s, FlushNext(s)) /\ Quiet(s, FlushNext(s))
<1>1. /\ s \in Sockets(e) /\ Bounded(s) /\ StagesInStep(s)
      /\ CloseOnce(s) /\ PauseHeld(s) /\ SendsQueued(e, s)
      /\ LogInOrder(e, s) /\ SecondInOrder(e, s)
      /\ e = "guest" => AcceptFirst(s)
  BY DEF FlushReady
<1>2. s.accept = "done" /\ s.accepted
  BY <1>1 DEF StagesInStep
<1>3. CASE s.flushing = <<>>
  <2>1. FirstInOrder(e, s)
    BY <1>2, <1>3 DEF FirstInOrder
  <2>2. PumpReady(e, s) /\ FlushNext(s) = pumpOutboundQueue(s)
    BY <1>1, <1>3, <2>1 DEF PumpReady, FlushNext
  <2> QED BY <2>2, PumpKeeps
<1>4. CASE s.flushing # <<>>
  <2> DEFINE m == Head(s.flushing)
             t == WriteLine(s, "data", m)
  <2>1. FlushNext(s) = t
    BY <1>4 DEF FlushNext
  <2>2. s.flushing \in Seq(Messages(e)) /\ s.early \in Nat
    BY <1>1, MessageTypes DEF Sockets
  <2>3. /\ Len(s.flushing) \in Nat \ {0} /\ m = s.flushing[1] /\ m \in Messages(e)
        /\ DOMAIN s.flushing = 1 .. Len(s.flushing)
    BY <1>4, <2>2, TailIndexes
  <2> HIDE DEF m
  <2>4. /\ t \in Sockets(e) /\ SameReads(s, t) /\ SameStage(s, t) /\ SameEnd(s, t)
        /\ SameQueues(s, t)
        /\ t.log = IF Unwritable(s) THEN s.log ELSE Append(s.log, Frame("data", m))
    BY <1>1, <2>3, WriteLineProperties, FrameProperties
  <2> HIDE DEF t
  <2>5. /\ t.accepted = s.accepted /\ t.acceptWritten = s.acceptWritten /\ t.accept = s.accept
        /\ t.sends = s.sends /\ t.early = s.early /\ t.flushing = s.flushing
        /\ t.writing = s.writing
        /\ t.sendQueue = s.sendQueue /\ t.outboundQueue = s.outboundQueue
        /\ t.promise = s.promise
        /\ t.closeSent = s.closeSent /\ t.destroyed = s.destroyed /\ t.writable = s.writable
    BY <2>4 DEF SameStage, SameQueues, SameEnd
  <2>6. Unwritable(t) = Unwritable(s)
    BY <2>4 DEF SameEnd, Unwritable
  <2>7. Bounded(t) /\ StagesInStep(t) /\ CloseOnce(t) /\ PauseHeld(t)
    BY <1>1, <2>4, <2>5 DEF Bounded, StagesInStep, CloseOnce, PauseHeld, SameReads, SameEnd
  <2>8. SendsHeld(e, t)
    BY <1>1, <1>4, <2>5 DEF SendsHeld, SendsQueued
  <2>9. CASE Unwritable(s)
    <3>1. LogInOrder(e, t) /\ Grows(s, t) /\ (AcceptFirst(s) => AcceptFirst(t))
      BY <1>1, <2>4, <2>5, <2>9, OtherFrame
    <3>2. FirstInOrder(e, t)
      BY <1>2, <2>5, <2>6, <2>9 DEF FirstInOrder
    <3>3. SecondInOrder(e, t)
      BY <1>1, <2>5, <2>6, <2>9 DEF SecondInOrder
    <3> QED BY <1>1, <2>1, <2>4, <2>5, <2>7, <2>8, <3>1, <3>2, <3>3 DEF OwnInv, Quiet
  <2>10. CASE ~Unwritable(s)
    <3>1. /\ \A i \in DOMAIN s.flushing :
                s.flushing[i] = s.flushing[1] + i - 1 /\ s.flushing[i] <= s.early
          /\ \A k \in 1 .. s.early : Logged(s, k) <=> k < s.flushing[1]
      BY <1>4, <2>10 DEF FlushReady
    <3>2. m <= s.early /\ m \in Nat
      BY <2>3, <3>1, MessageTypes
    <3>3. \A k \in Messages(e) : SameQueue(s, k, m) => (Logged(s, k) <=> k < m)
      <4> SUFFICES ASSUME NEW k \in Messages(e), SameQueue(s, k, m)
                   PROVE  Logged(s, k) <=> k < m
        OBVIOUS
      <4>1. k \in 1 .. s.early
        BY <2>2, <3>2, MessageTypes DEF SameQueue
      <4> QED BY <2>3, <3>1, <4>1
    <3>4. /\ \A k : Logged(t, k) <=> (Logged(s, k) \/ k = m)
          /\ LogInOrder(e, t)
          /\ Grows(s, t)
          /\ AcceptFirst(s) /\ s.acceptWritten => AcceptFirst(t)
      <4>1. t.log = Append(s.log, Frame("data", m))
        BY <2>4, <2>10
      <4> QED BY <1>1, <2>3, <2>4, <2>5, <3>3, <4>1, DataFrame
    <3>5. FirstInOrder(e, t)
      <4>1. \A k \in 1 .. s.early : Logged(t, k) <=> k <= s.flushing[1]
        <5> TAKE k \in 1 .. s.early
        <5>1. Logged(s, k) <=> k < m
          BY <2>3, <3>1
        <5>2. k < m \/ k = m <=> k <= m
          BY <2>2, <3>2
        <5> QED BY <2>3, <3>4, <5>1, <5>2
      <4> QED BY <1>2, <2>5, <3>1, <4>1 DEF FirstInOrder
    <3>6. SecondInOrder(e, t)
      <4>1. \A k \in Messages(e) : k > s.early => (Logged(t, k) <=> Logged(s, k))
        BY <2>2, <3>2, <3>4, MessageTypes
      <4> QED BY <1>1, <2>5, <2>6, <4>1 DEF SecondInOrder
    <3> QED BY <1>1, <2>1, <2>4, <2>5, <2>7, <2>8, <3>4, <3>5, <3>6 DEF OwnInv, Quiet
  <2> QED BY <2>9, <2>10
<1> QED BY <1>3, <1>4

\* A write has settled: what does not depend on the queue it was for.
LEMMA RelayKeeps ==
    ASSUME NEW e \in Ends, NEW s, NEW t, OwnInv(e, s), s.acceptWritten, t \in Sockets(e),
           SameReads(s, t), SameEnd(s, t), t.log = s.log,
           t.accepted = s.accepted, t.acceptWritten = s.acceptWritten, t.accept = s.accept,
           t.sends = s.sends, t.early = s.early, t.sendQueue = s.sendQueue,
           t.outboundQueue = s.outboundQueue \/ (Unwritable(s) /\ t.outboundQueue = <<>>),
           Len(t.flushing) <= Cap
    PROVE  /\ Bounded(t) /\ StagesInStep(t) /\ CloseOnce(t) /\ PauseHeld(t)
           /\ LogInOrder(e, t) /\ SecondInOrder(e, t) /\ (e = "guest" => AcceptFirst(t))
           /\ Grows(s, t) /\ Quiet(s, t) /\ Unwritable(t) = Unwritable(s)
           /\ \A m : Logged(t, m) <=> Logged(s, m)
<1>1. /\ s \in Sockets(e) /\ Bounded(s) /\ StagesInStep(s) /\ CloseOnce(s) /\ PauseHeld(s)
      /\ LogInOrder(e, s) /\ SecondInOrder(e, s) /\ (e = "guest" => AcceptFirst(s))
  BY DEF OwnInv
<1>2. /\ LogInOrder(e, t) /\ Grows(s, t) /\ (AcceptFirst(s) => AcceptFirst(t))
      /\ \A m : Logged(t, m) <=> Logged(s, m)
  BY <1>1, OtherFrame
<1>3. Unwritable(t) = Unwritable(s)
  BY DEF SameEnd, Unwritable
<1>4. Quiet(s, t) /\ CloseOnce(t) /\ PauseHeld(t)
  BY <1>1 DEF Quiet, SameEnd, CloseOnce, PauseHeld, SameReads
<1>5. Bounded(t)
  <2>1. Len(<<>>) = 0
    OBVIOUS
  <2> QED BY <1>1, <2>1, MessageTypes DEF Bounded, SameReads
<1>6. StagesInStep(t)
  BY <1>1 DEF StagesInStep, SameEnd
<1>7. SecondInOrder(e, t)
  <2>1. CASE Unwritable(s)
    BY <1>1, <1>3, <2>1 DEF SecondInOrder
  <2>2. CASE ~Unwritable(s)
    BY <1>1, <1>2, <1>3, <2>2 DEF SecondInOrder, SameEnd
  <2> QED BY <2>1, <2>2
<1> QED BY <1>1, <1>2, <1>3, <1>4, <1>5, <1>6, <1>7

\* The write of a flushed entry has settled.
LEMMA FlushWrittenKeeps ==
    ASSUME NEW e \in Ends, NEW s, OwnInv(e, s), s.flushing # <<>>, NEW t,
           t = FlushNext([Settle(s, {Head(s.flushing)}, "resolved") EXCEPT !.flushing = Tail(@)])
    PROVE  OwnInv(e, t) /\ Grows(s, t) /\ Quiet(s, t)
<1>1. /\ s \in Sockets(e) /\ StagesInStep(s) /\ SendsHeld(e, s) /\ FirstInOrder(e, s)
      /\ Bounded(s)
  BY DEF OwnInv
<1>2. s.acceptWritten
  BY <1>1 DEF StagesInStep
<1> DEFINE m == Head(s.flushing)
           q == Tail(s.flushing)
           c == Settle(s, {m}, "resolved")
           u == [c EXCEPT !.flushing = q]
<1>3. s.flushing \in Seq(Messages(e)) /\ s.early \in Nat
  BY <1>1, MessageTypes DEF Sockets
<1>4. /\ Len(s.flushing) \in Nat \ {0} /\ m = s.flushing[1] /\ m \in Messages(e)
      /\ q \in Seq(Messages(e)) /\ Len(q) = Len(s.flushing) - 1
      /\ DOMAIN s.flushing = 1 .. Len(s.flushing)
      /\ DOMAIN q = 1 .. (Len(s.flushing) - 1)
      /\ \A i \in DOMAIN q : q[i] = s.flushing[i + 1]
      /\ Elements(s.flushing) = Elements(q) \cup {m}
  BY <1>3, TailIndexes
<1>5. /\ c \in Sockets(e) /\ SameReads(s, c) /\ SameStage(s, c) /\ SameEnd(s, c)
      /\ c.log = s.log /\ c.sendQueue = s.sendQueue /\ c.outboundQueue = s.outboundQueue
      /\ SettledAs(s.promise, c.promise, {m}, "resolved")
  BY <1>1, SettleProperties DEF Statuses
<1>6. t = FlushNext(u)
  <2>1. c.flushing = s.flushing
    BY <1>5 DEF SameStage
  <2> HIDE DEF c
  <2>2. [c EXCEPT !.flushing = Tail(@)] = u
    BY <1>5, <2>1 DEF Sockets
  <2> QED BY <2>2 DEF c
<1> HIDE DEF m, q, c
<1>7. u \in Sockets(e)
  BY <1>4, <1>5 DEF Sockets
<1>8. /\ SameReads(c, u) /\ SameEnd(c, u) /\ u.log = c.log
      /\ u.accepted = c.accepted /\ u.acceptWritten = c.acceptWritten /\ u.accept = c.accept
      /\ u.sends = c.sends /\ u.early = c.early /\ u.sendQueue = c.sendQueue
      /\ u.outboundQueue = c.outboundQueue /\ u.writing = c.writing
      /\ u.promise = c.promise /\ u.flushing = q
  BY <1>5 DEF Sockets, SameReads, SameEnd
<1> HIDE DEF u
<1>9. /\ SameReads(s, u) /\ SameEnd(s, u) /\ u.log = s.log
      /\ u.accepted = s.accepted /\ u.acceptWritten = s.acceptWritten /\ u.accept = s.accept
      /\ u.sends = s.sends /\ u.early = s.early /\ u.sendQueue = s.sendQueue
      /\ u.outboundQueue = s.outboundQueue /\ u.writing = s.writing
  BY <1>5, <1>8 DEF SameReads, SameEnd, SameStage
<1>10. Len(u.flushing) <= Cap
  BY <1>1, <1>4, <1>8, MessageTypes DEF Bounded
<1>11. /\ Bounded(u) /\ StagesInStep(u) /\ CloseOnce(u) /\ PauseHeld(u)
       /\ LogInOrder(e, u) /\ SecondInOrder(e, u) /\ (e = "guest" => AcceptFirst(u))
       /\ Grows(s, u) /\ Quiet(s, u) /\ Unwritable(u) = Unwritable(s)
       /\ \A k : Logged(u, k) <=> Logged(s, k)
  BY <1>2, <1>7, <1>9, <1>10, RelayKeeps
<1>12. SendsQueued(e, u)
  <2> SUFFICES ASSUME NEW k \in Messages(e), u.promise[k] = "pending", ~u.destroyed,
                      u.writable # "reset"
               PROVE  \/ k \in Elements(u.sendQueue) /\ u.accept # "done"
                      \/ k \in Elements(u.flushing)
                      \/ k = u.writing
                      \/ k \in Elements(u.outboundQueue)
    BY DEF SendsQueued
  <2>1. DOMAIN s.promise = Messages(e)
    BY <1>1 DEF Sockets
  <2>2. k # m /\ s.promise[k] = "pending"
    BY <1>5, <1>8, <2>1 DEF SettledAs
  <2> QED BY <1>1, <1>4, <1>8, <1>9, <2>2 DEF SendsHeld, SameEnd
<1>13. ASSUME ~Unwritable(u), u.flushing # <<>>
       PROVE  /\ \A i \in DOMAIN u.flushing :
                    u.flushing[i] = u.flushing[1] + i - 1 /\ u.flushing[i] <= u.early
              /\ \A k \in 1 .. u.early : Logged(u, k) <=> k < u.flushing[1]
  <2>1. /\ \A i \in DOMAIN s.flushing : s.flushing[i] = m + i - 1 /\ s.flushing[i] <= s.early
        /\ \A k \in 1 .. s.early : Logged(s, k) <=> k <= m
    BY <1>1, <1>4, <1>11, <1>13 DEF FirstInOrder
  <2>2. m \in Nat
    BY <1>4, MessageTypes
  <2>3. 1 \in DOMAIN q
    BY <1>4, <1>8, <1>13
  <2>4. ASSUME NEW i \in DOMAIN q PROVE q[i] = m + i /\ q[i] <= s.early
    <3>1. i + 1 \in DOMAIN s.flushing /\ i \in Nat
      BY <1>4
    <3>2. q[i] = m + (i + 1) - 1 /\ q[i] <= s.early
      BY <1>4, <2>1, <3>1
    <3> QED BY <2>2, <3>1, <3>2
  <2>5. q[1] = m + 1
    BY <2>3, <2>4
  <2>6. \A i \in DOMAIN q : q[i] = q[1] + i - 1 /\ q[i] <= s.early
    <3> TAKE i \in DOMAIN q
    <3>1. q[i] = m + i /\ q[i] <= s.early
      BY <2>4
    <3>2. m + i = m + 1 + i - 1
      BY <1>4, <2>2
    <3> QED BY <2>5, <3>1, <3>2
  <2>7. \A k \in 1 .. s.early : Logged(u, k) <=> k < q[1]
    <3> TAKE k \in 1 .. s.early
    <3>1. k <= m <=> k < q[1]
      BY <1>3, <2>2, <2>5
    <3> QED BY <1>11, <2>1, <3>1
  <2> QED BY <1>8, <1>9, <2>6, <2>7
<1>14. FlushReady(e, u)
  BY <1>7, <1>11, <1>12, <1>13 DEF FlushReady
<1>15. OwnInv(e, t) /\ Grows(u, t) /\ Quiet(u, t)
  BY <1>2, <1>6, <1>9, <1>14, FlushKeeps
<1>16. t \in Sockets(e)
  BY <1>15 DEF OwnInv
<1> QED BY <1>1, <1>7, <1>11, <1>15, <1>16, GrowsOn, QuietOn

\* A flushed entry that could not be written takes all that follow it along.
LEMMA FlushRefusedKeeps ==
    ASSUME NEW e \in Ends, NEW s, OwnInv(e, s), s.flushing # <<>>, Unwritable(s), NEW t,
           t = pumpOutboundQueue([Settle(s, Elements(s.flushing), "rejected") EXCEPT
                                      !.flushing = <<>>])
    PROVE  OwnInv(e, t) /\ Grows(s, t) /\ Quiet(s, t)
<1>1. /\ s \in Sockets(e) /\ StagesInStep(s) /\ SendsHeld(e, s) /\ Bounded(s)
  BY DEF OwnInv
<1>2. s.acceptWritten
  BY <1>1 DEF StagesInStep
<1> DEFINE q == <<>>
           c == Settle(s, Elements(s.flushing), "rejected")
           u == [c EXCEPT !.flushing = q]
<1>3. t = pumpOutboundQueue(u)
  OBVIOUS
<1>4. q \in Seq(Messages(e)) /\ Len(q) = 0
  OBVIOUS
<1>5. /\ c \in Sockets(e) /\ SameReads(s, c) /\ SameStage(s, c) /\ SameEnd(s, c)
      /\ c.log = s.log /\ c.sendQueue = s.sendQueue /\ c.outboundQueue = s.outboundQueue
      /\ SettledAs(s.promise, c.promise, Elements(s.flushing), "rejected")
  BY <1>1, SettleProperties DEF Statuses
<1> HIDE DEF q, c
<1>6. u \in Sockets(e)
  BY <1>4, <1>5 DEF Sockets
<1>7. /\ SameReads(c, u) /\ SameEnd(c, u) /\ u.log = c.log
      /\ u.accepted = c.accepted /\ u.acceptWritten = c.acceptWritten /\ u.accept = c.accept
      /\ u.sends = c.sends /\ u.early = c.early /\ u.sendQueue = c.sendQueue
      /\ u.outboundQueue = c.outboundQueue /\ u.writing = c.writing
      /\ u.promise = c.promise /\ u.flushing = q
  BY <1>5 DEF Sockets, SameReads, SameEnd
<1> HIDE DEF u
<1>8. /\ SameReads(s, u) /\ SameEnd(s, u) /\ u.log = s.log
      /\ u.accepted = s.accepted /\ u.acceptWritten = s.acceptWritten /\ u.accept = s.accept
      /\ u.sends = s.sends /\ u.early = s.early /\ u.sendQueue = s.sendQueue
      /\ u.outboundQueue = s.outboundQueue /\ u.writing = s.writing
  BY <1>5, <1>7 DEF SameReads, SameEnd, SameStage
<1>9. Len(u.flushing) <= Cap
  BY <1>4, <1>7, MessageTypes
<1>10. /\ Bounded(u) /\ StagesInStep(u) /\ CloseOnce(u) /\ PauseHeld(u)
       /\ LogInOrder(e, u) /\ SecondInOrder(e, u) /\ (e = "guest" => AcceptFirst(u))
       /\ Grows(s, u) /\ Quiet(s, u) /\ Unwritable(u) = Unwritable(s)
  BY <1>2, <1>6, <1>8, <1>9, RelayKeeps
<1>11. SendsQueued(e, u)
  <2> SUFFICES ASSUME NEW k \in Messages(e), u.promise[k] = "pending", ~u.destroyed,
                      u.writable # "reset"
               PROVE  \/ k \in Elements(u.sendQueue) /\ u.accept # "done"
                      \/ k = u.writing
                      \/ k \in Elements(u.outboundQueue)
    BY DEF SendsQueued
  <2>1. DOMAIN s.promise = Messages(e)
    BY <1>1 DEF Sockets
  <2>2. k \notin Elements(s.flushing) /\ s.promise[k] = "pending"
    BY <1>5, <1>7, <2>1 DEF SettledAs
  <2> QED BY <1>1, <1>7, <1>8, <2>2 DEF SendsHeld, SameEnd
<1>12. FirstInOrder(e, u)
  BY <1>2, <1>8, <1>10 DEF FirstInOrder, StagesInStep
<1>13. PumpReady(e, u)
  BY <1>6, <1>10, <1>11, <1>12 DEF PumpReady
<1>14. OwnInv(e, t) /\ Grows(u, t) /\ Quiet(u, t)
  BY <1>2, <1>3, <1>8, <1>13, PumpKeeps
<1>15. t \in Sockets(e)
  BY <1>14 DEF OwnInv
<1> QED BY <1>1, <1>6, <1>10, <1>14, <1>15, GrowsOn, QuietOn

\* The write of the pump has settled.
LEMMA PumpSettled ==
    ASSUME NEW e \in Ends, NEW s, OwnInv(e, s), s.writing # 0, NEW how \in {"resolved", "rejected"},
           NEW u, u = [Settle(s, {s.writing}, how) EXCEPT !.writing = 0]
    PROVE  /\ PumpReady(e, u) /\ Grows(s, u) /\ Quiet(s, u)
           /\ u.acceptWritten /\ u.writing = 0 /\ Unwritable(u) = Unwritable(s)
<1>1. /\ s \in Sockets(e) /\ StagesInStep(s) /\ SendsHeld(e, s) /\ Bounded(s)
      /\ FirstInOrder(e, s)
  BY DEF OwnInv
<1>2. s.acceptWritten
  BY <1>1 DEF StagesInStep
<1> DEFINE c == Settle(s, {s.writing}, how)
<1>3. u = [c EXCEPT !.writing = 0]
  OBVIOUS
<1>4. /\ c \in Sockets(e) /\ SameReads(s, c) /\ SameStage(s, c) /\ SameEnd(s, c)
      /\ c.log = s.log /\ c.sendQueue = s.sendQueue /\ c.outboundQueue = s.outboundQueue
      /\ SettledAs(s.promise, c.promise, {s.writing}, how)
  BY <1>1, SettleProperties DEF Statuses
<1> HIDE DEF c
<1>5. u \in Sockets(e)
  BY <1>3, <1>4 DEF Sockets
<1>6. /\ SameReads(c, u) /\ SameEnd(c, u) /\ u.log = c.log
      /\ u.accepted = c.accepted /\ u.acceptWritten = c.acceptWritten /\ u.accept = c.accept
      /\ u.sends = c.sends /\ u.early = c.early /\ u.sendQueue = c.sendQueue
      /\ u.outboundQueue = c.outboundQueue /\ u.flushing = c.flushing
      /\ u.promise = c.promise /\ u.writing = 0
  BY <1>3, <1>4 DEF Sockets, SameReads, SameEnd
<1>7. /\ SameReads(s, u) /\ SameEnd(s, u) /\ u.log = s.log
      /\ u.accepted = s.accepted /\ u.acceptWritten = s.acceptWritten /\ u.accept = s.accept
      /\ u.sends = s.sends /\ u.early = s.early /\ u.sendQueue = s.sendQueue
      /\ u.outboundQueue = s.outboundQueue /\ u.flushing = s.flushing
  BY <1>4, <1>6 DEF SameReads, SameEnd, SameStage
<1>8. Len(u.flushing) <= Cap
  BY <1>1, <1>7 DEF Bounded
<1>9. /\ Bounded(u) /\ StagesInStep(u) /\ CloseOnce(u) /\ PauseHeld(u)
      /\ LogInOrder(e, u) /\ SecondInOrder(e, u) /\ (e = "guest" => AcceptFirst(u))
      /\ Grows(s, u) /\ Quiet(s, u) /\ Unwritable(u) = Unwritable(s)
      /\ \A k : Logged(u, k) <=> Logged(s, k)
  <2>1. u.outboundQueue = s.outboundQueue \/ (Unwritable(s) /\ u.outboundQueue = <<>>)
    BY <1>7
  <2> QED BY ONLY e \in Ends, OwnInv(e, s), <1>2, <1>5, <1>7, <1>8, <2>1, RelayKeeps
<1>10. SendsQueued(e, u)
  <2> SUFFICES ASSUME NEW k \in Messages(e), u.promise[k] = "pending", ~u.destroyed,
                      u.writable # "reset"
               PROVE  \/ k \in Elements(u.sendQueue) /\ u.accept # "done"
                      \/ k \in Elements(u.flushing)
                      \/ k \in Elements(u.outboundQueue)
    BY DEF SendsQueued
  <2>1. DOMAIN s.promise = Messages(e)
    BY <1>1 DEF Sockets
  <2>2. k # s.writing /\ s.promise[k] = "pending"
    BY <1>4, <1>6, <2>1 DEF SettledAs
  <2> QED BY <1>1, <1>7, <2>2 DEF SendsHeld, SameEnd
<1>11. FirstInOrder(e, u)
  <2>1. u.accept = "done" /\ s.accept = "done"
    BY <1>1, <1>2, <1>7 DEF StagesInStep
  <2> QED BY <1>1, <1>7, <1>9, <2>1 DEF FirstInOrder
<1>12. PumpReady(e, u)
  BY <1>5, <1>9, <1>10, <1>11 DEF PumpReady
<1> QED BY <1>2, <1>6, <1>7, <1>9, <1>12

\* The write of the pump resolves, and the pump goes on.
LEMMA PumpWrittenKeeps ==
    ASSUME NEW e \in Ends, NEW s, OwnInv(e, s), s.writing # 0, NEW t,
           t = pumpOutboundQueue([Settle(s, {s.writing}, "resolved") EXCEPT !.writing = 0])
    PROVE  OwnInv(e, t) /\ Grows(s, t) /\ Quiet(s, t)
<1> DEFINE u == [Settle(s, {s.writing}, "resolved") EXCEPT !.writing = 0]
<1>1. t = pumpOutboundQueue(u)
  OBVIOUS
<1>2. /\ PumpReady(e, u) /\ Grows(s, u) /\ Quiet(s, u) /\ u.acceptWritten
  BY PumpSettled
<1> HIDE DEF u
<1>3. OwnInv(e, t) /\ Grows(u, t) /\ Quiet(u, t)
  BY <1>1, <1>2, PumpKeeps
<1>4. s \in Sockets(e) /\ u \in Sockets(e) /\ t \in Sockets(e)
  BY <1>2, <1>3 DEF OwnInv, PumpReady
<1> QED BY <1>2, <1>3, <1>4, GrowsOn, QuietOn

\* The write of the pump is refused, and so is what is queued behind it.
LEMMA PumpRefusedKeeps ==
    ASSUME NEW e \in Ends, NEW s, OwnInv(e, s), s.writing # 0, Unwritable(s), NEW t,
           t = failOutboundQueue([Settle(s, {s.writing}, "rejected") EXCEPT !.writing = 0])
    PROVE  OwnInv(e, t) /\ Grows(s, t) /\ Quiet(s, t)
<1> DEFINE u == [Settle(s, {s.writing}, "rejected") EXCEPT !.writing = 0]
<1>1. t = failOutboundQueue(u)
  OBVIOUS
<1>2. /\ PumpReady(e, u) /\ Grows(s, u) /\ Quiet(s, u) /\ u.acceptWritten
      /\ u.writing = 0 /\ Unwritable(u)
  BY PumpSettled
<1> HIDE DEF u
<1>3. /\ u \in Sockets(e) /\ Bounded(u) /\ StagesInStep(u)
      /\ CloseOnce(u) /\ PauseHeld(u) /\ SendsQueued(e, u)
      /\ LogInOrder(e, u) /\ SecondInOrder(e, u) /\ (e = "guest" => AcceptFirst(u))
  BY <1>2 DEF PumpReady
<1>4. /\ t \in Sockets(e) /\ SameReads(u, t) /\ SameStage(u, t) /\ SameEnd(u, t)
      /\ t.log = u.log /\ t.sendQueue = u.sendQueue /\ t.outboundQueue = <<>>
      /\ SettledAs(u.promise, t.promise, Elements(u.outboundQueue), "rejected")
  BY <1>1, <1>3, FailProperties
<1>5. Unwritable(t)
  BY <1>2, <1>4 DEF Unwritable, SameEnd
<1>6. LogInOrder(e, t) /\ Grows(u, t) /\ (AcceptFirst(u) => AcceptFirst(t))
  BY <1>3, <1>4, OtherFrame DEF SameStage
<1>7. Quiet(u, t) /\ CloseOnce(t) /\ PauseHeld(t)
  BY <1>3, <1>4 DEF Quiet, SameEnd, CloseOnce, PauseHeld, SameReads
<1>8. Bounded(t)
  <2>1. Len(<<>>) = 0
    OBVIOUS
  <2> QED BY <1>3, <1>4, <2>1, MessageTypes DEF Bounded, SameReads, SameStage
<1>9. StagesInStep(t)
  BY <1>3, <1>4 DEF StagesInStep, SameEnd, SameStage
<1>10. FirstInOrder(e, t) /\ SecondInOrder(e, t)
  BY <1>2, <1>3, <1>4, <1>5 DEF FirstInOrder, SecondInOrder, SameStage, StagesInStep
<1>11. SendsHeld(e, t)
  <2> SUFFICES ASSUME NEW k \in Messages(e), t.promise[k] = "pending", ~t.destroyed,
                      t.writable # "reset"
               PROVE  \/ k \in Elements(t.sendQueue) /\ t.accept # "done"
                      \/ k \in Elements(t.flushing)
    BY DEF SendsHeld
  <2>1. DOMAIN u.promise = Messages(e) /\ k # 0
    BY <1>3, MessageTypes DEF Sockets
  <2>2. k \notin Elements(u.outboundQueue) /\ u.promise[k] = "pending"
    BY <1>4, <2>1 DEF SettledAs
  <2> QED BY <1>2, <1>3, <1>4, <2>1, <2>2 DEF SendsQueued, SameEnd, SameStage
<1>12. OwnInv(e, t)
  BY <1>3, <1>4, <1>6, <1>7, <1>8, <1>9, <1>10, <1>11 DEF OwnInv
<1>13. s \in Sockets(e)
  BY DEF OwnInv
<1> QED BY <1>2, <1>3, <1>4, <1>6, <1>7, <1>12, <1>13, GrowsOn, QuietOn

----------------------------------------------------------------------------
(* The calls of the application and the stages of the accept frame *)

\* Nothing but promises that settle, and what the application sees of the state.
LEMMA AsideKeeps ==
    ASSUME NEW e \in Ends, NEW s, NEW t, OwnInv(e, s), t \in Sockets(e),
           SameReads(s, t), SameStage(s, t), SameEnd(s, t), t.log = s.log,
           t.sendQueue = s.sendQueue, t.outboundQueue = s.outboundQueue,
           \A k \in Messages(e) : t.promise[k] = "pending" => s.promise[k] = "pending"
    PROVE  OwnInv(e, t) /\ Grows(s, t) /\ Quiet(s, t)
<1>1. /\ s \in Sockets(e) /\ Bounded(s) /\ StagesInStep(s) /\ CloseOnce(s) /\ PauseHeld(s)
      /\ SendsHeld(e, s) /\ LogInOrder(e, s) /\ FirstInOrder(e, s) /\ SecondInOrder(e, s)
      /\ (e = "guest" => AcceptFirst(s))
  BY DEF OwnInv
<1>2. /\ t.accepted = s.accepted /\ t.acceptWritten = s.acceptWritten /\ t.accept = s.accept
      /\ t.sends = s.sends /\ t.early = s.early /\ t.flushing = s.flushing
      /\ t.writing = s.writing
      /\ t.closeSent = s.closeSent /\ t.destroyed = s.destroyed /\ t.timer = s.timer
      /\ t.writable = s.writable /\ t.closed = s.closed /\ t.closeEvents = s.closeEvents
  BY DEF SameStage, SameEnd
<1>3. /\ LogInOrder(e, t) /\ Grows(s, t) /\ (AcceptFirst(s) => AcceptFirst(t))
      /\ \A m : Logged(t, m) <=> Logged(s, m)
  BY <1>1, <1>2, OtherFrame
<1>4. Unwritable(t) = Unwritable(s)
  BY <1>2 DEF Unwritable
<1>5. Quiet(s, t) /\ CloseOnce(t) /\ PauseHeld(t)
  BY <1>1, <1>2 DEF Quiet, CloseOnce, PauseHeld, SameReads
<1>6. Bounded(t)
  BY <1>1, <1>2 DEF Bounded, SameReads
<1>7. StagesInStep(t)
  BY <1>1, <1>2 DEF StagesInStep
<1>8. SendsHeld(e, t)
  BY <1>1, <1>2 DEF SendsHeld
<1>9. FirstInOrder(e, t)
  BY <1>1, <1>2, <1>3, <1>4 DEF FirstInOrder
<1>10. SecondInOrder(e, t)
  BY <1>1, <1>2, <1>3, <1>4 DEF SecondInOrder
<1> QED BY <1>1, <1>3, <1>5, <1>6, <1>7, <1>8, <1>9, <1>10 DEF OwnInv

\* The state of the native adapter is not part of the invariant.
LEMMA ReadyStateKeeps ==
    ASSUME NEW e \in Ends, NEW s, OwnInv(e, s),
           NEW r \in {"none", "connecting", "open", "closing", "closed"},
           NEW t, t = [s EXCEPT !.readyState = r]
    PROVE  OwnInv(e, t) /\ Grows(s, t) /\ Quiet(s, t)
<1>1. s \in Sockets(e)
  BY DEF OwnInv
<1>2. t \in Sockets(e)
  BY <1>1 DEF Sockets
<1>3. /\ SameReads(s, t) /\ SameStage(s, t) /\ SameEnd(s, t) /\ SameQueues(s, t) /\ t.log = s.log
  BY <1>1 DEF Sockets, SameReads, SameStage, SameEnd, SameQueues
<1>4. /\ t.sendQueue = s.sendQueue /\ t.outboundQueue = s.outboundQueue
      /\ \A k \in Messages(e) : t.promise[k] = "pending" => s.promise[k] = "pending"
  BY <1>3 DEF SameQueues
<1> QED BY <1>2, <1>3, <1>4, AsideKeeps

\* close(), of the class and of the native adapter.
LEMMA CloseKeeps ==
    ASSUME NEW e \in Ends, NEW s, OwnInv(e, s), NEW t,
           t = [CloseSocket(s) EXCEPT !.readyState = IF @ = "none" THEN @ ELSE "closing"]
    PROVE  OwnInv(e, t) /\ Grows(s, t) /\ Quiet(s, t)
<1> DEFINE c == CloseSocket(s)
           r == IF c.readyState = "none" THEN c.readyState ELSE "closing"
<1>1. OwnInv(e, c) /\ Grows(s, c) /\ Quiet(s, c)
  BY OwnIsClosable, CloseSocketKeeps
<1>2. s \in Sockets(e) /\ c \in Sockets(e)
  BY <1>1 DEF OwnInv
<1>3. t = [c EXCEPT !.readyState = r]
  OBVIOUS
<1>4. r \in {"none", "connecting", "open", "closing", "closed"}
  OBVIOUS
<1> HIDE DEF c, r
<1>5. OwnInv(e, t) /\ Grows(c, t) /\ Quiet(c, t)
  BY <1>1, <1>3, <1>4, ReadyStateKeeps
<1>6. t \in Sockets(e)
  BY <1>5 DEF OwnInv
<1> QED BY <1>1, <1>2, <1>5, <1>6, GrowsOn, QuietOn

\* A call of send() takes the next number.
LEMMA NumberedKeeps ==
    ASSUME NEW e \in Ends, NEW s, OwnInv(e, s), s.sends < MaxSends[e], NEW t,
           t = [s EXCEPT !.sends = s.sends + 1]
    PROVE  /\ Closable(e, t) /\ PauseHeld(t) /\ Grows(s, t) /\ Quiet(s, t)
           /\ SameReads(s, t) /\ SameEnd(s, t) /\ SameQueues(s, t) /\ t.log = s.log
           /\ t.accepted = s.accepted /\ t.acceptWritten = s.acceptWritten
           /\ t.accept = s.accept /\ t.sends = s.sends + 1 /\ t.early = s.early
           /\ t.flushing = s.flushing /\ t.writing = s.writing
           /\ Unwritable(t) = Unwritable(s)
           /\ \A m : Logged(t, m) <=> Logged(s, m)
<1>1. /\ s \in Sockets(e) /\ Bounded(s) /\ StagesInStep(s) /\ CloseOnce(s) /\ PauseHeld(s)
      /\ SendsHeld(e, s) /\ LogInOrder(e, s) /\ FirstInOrder(e, s)
      /\ (e = "guest" => AcceptFirst(s))
  BY DEF OwnInv
<1> DEFINE n == s.sends + 1
<1>2. s.sends \in Nat /\ s.early \in Nat /\ n \in 0 .. MaxSends[e] /\ s.sends <= n
  BY <1>1, MessageTypes DEF Sockets
<1>3. t = [s EXCEPT !.sends = n]
  OBVIOUS
<1> HIDE DEF n
<1>4. t \in Sockets(e)
  BY <1>1, <1>2, <1>3 DEF Sockets
<1>5. /\ SameReads(s, t) /\ SameEnd(s, t) /\ SameQueues(s, t) /\ t.log = s.log
      /\ t.accepted = s.accepted /\ t.acceptWritten = s.acceptWritten
      /\ t.accept = s.accept /\ t.sends = n /\ t.early = s.early
      /\ t.flushing = s.flushing /\ t.writing = s.writing
  BY <1>1, <1>3 DEF Sockets, SameReads, SameEnd, SameQueues
<1>6. /\ LogInOrder(e, t) /\ Grows(s, t) /\ (AcceptFirst(s) => AcceptFirst(t))
      /\ \A m : Logged(t, m) <=> Logged(s, m)
  BY ONLY e \in Ends, <1>1, <1>4, <1>5, OtherFrame
<1>7. Unwritable(t) = Unwritable(s)
  BY ONLY <1>5 DEF Unwritable, SameEnd
<1>8. Quiet(s, t) /\ CloseOnce(t) /\ PauseHeld(t)
  BY ONLY <1>1, <1>5 DEF Quiet, CloseOnce, PauseHeld, SameReads, SameEnd
<1>9. Bounded(t)
  BY ONLY <1>1, <1>5 DEF Bounded, SameReads, SameQueues
<1>10. StagesInStep(t)
  <2>1. t.early <= t.sends
    BY ONLY <1>1, <1>2, <1>5, n \in Nat DEF StagesInStep
  <2> QED BY ONLY <1>1, <1>5, <2>1 DEF StagesInStep, SameEnd, SameQueues
<1>11. SendsHeld(e, t)
  BY ONLY <1>1, <1>5 DEF SendsHeld, SameEnd, SameQueues
<1>12. FirstInOrder(e, t)
  <2>1. t.sendQueue = s.sendQueue /\ Len(s.sendQueue) \in Nat
    BY ONLY <1>1, <1>5 DEF SameQueues, Sockets
  <2>2. n \in Nat
    BY <1>2, MessageTypes
  <2> QED BY ONLY <1>1, <1>2, <1>5, <1>6, <1>7, <2>1, <2>2 DEF FirstInOrder
<1>13. t.sends = s.sends + 1
  BY <1>5 DEF n
<1> QED BY ONLY <1>1, <1>4, <1>5, <1>6, <1>7, <1>8, <1>9, <1>10, <1>11, <1>12, <1>13 DEF Closable

\* Message m gets a promise of its own.
Promised(s, m, how) == [s EXCEPT !.promise[m] = how]

\* Setting one promise changes nothing else.
LEMMA PromiseProperties ==
    ASSUME NEW e \in Ends, NEW s \in Sockets(e), NEW m \in Messages(e), NEW how \in Statuses
    PROVE  /\ Promised(s, m, how) \in Sockets(e)
           /\ SameReads(s, Promised(s, m, how)) /\ SameStage(s, Promised(s, m, how))
           /\ SameEnd(s, Promised(s, m, how)) /\ Promised(s, m, how).log = s.log
           /\ Promised(s, m, how).sendQueue = s.sendQueue
           /\ Promised(s, m, how).outboundQueue = s.outboundQueue
           /\ SettledAs(s.promise, Promised(s, m, how).promise, {m}, how)
<1> DEFINE p == [s.promise EXCEPT ![m] = how]
           t == [s EXCEPT !.promise = p]
<1>1. s.promise \in [Messages(e) -> Statuses]
  BY DEF Sockets
<1>2. p \in [Messages(e) -> Statuses] /\ SettledAs(s.promise, p, {m}, how)
  BY <1>1 DEF SettledAs
<1>3. Promised(s, m, how) = t
  BY DEF Promised
<1> HIDE DEF p
<1>4. t \in Sockets(e)
  BY <1>2 DEF Sockets
<1>5. /\ SameReads(s, t) /\ SameStage(s, t) /\ SameEnd(s, t) /\ t.log = s.log
      /\ t.sendQueue = s.sendQueue /\ t.outboundQueue = s.outboundQueue /\ t.promise = p
  BY DEF Sockets, SameReads, SameStage, SameEnd
<1> HIDE DEF t
<1> QED BY <1>2, <1>3, <1>4, <1>5

\* A send() that a full queue refuses.
LEMMA RefusedKeeps ==
    ASSUME NEW e \in Ends, NEW s, Closable(e, s), NEW m \in Messages(e), NEW t,
           t = [handleProtocolFault(s) EXCEPT !.promise[m] = "rejected",
                    !.readyState = IF @ = "none" THEN @ ELSE "closing"]
    PROVE  OwnInv(e, t) /\ Grows(s, t) /\ Quiet(s, t)
<1> DEFINE c == CloseSocket(s)
           r == IF c.readyState = "none" THEN c.readyState ELSE "closing"
           d == Promised(c, m, "rejected")
<1>1. OwnInv(e, c) /\ Grows(s, c) /\ Quiet(s, c)
  BY CloseSocketKeeps
<1>2. s \in Sockets(e) /\ c \in Sockets(e)
  BY <1>1 DEF OwnInv, Closable
<1>3. t = [d EXCEPT !.readyState = r]
  <2>1. t = [c EXCEPT !.promise[m] = "rejected", !.readyState = r]
    BY DEF handleProtocolFault
  <2> HIDE DEF c, r
  <2>2. [c EXCEPT !.promise[m] = "rejected", !.readyState = r] = [d EXCEPT !.readyState = r]
    BY <1>2 DEF Sockets, Promised
  <2> QED BY <2>1, <2>2
<1>4. r \in {"none", "connecting", "open", "closing", "closed"}
  BY <1>2 DEF Sockets
<1> HIDE DEF c, r
<1>5. /\ d \in Sockets(e)
      /\ SameReads(c, d) /\ SameStage(c, d) /\ SameEnd(c, d) /\ d.log = c.log
      /\ d.sendQueue = c.sendQueue /\ d.outboundQueue = c.outboundQueue
      /\ SettledAs(c.promise, d.promise, {m}, "rejected")
  BY <1>2, PromiseProperties DEF Statuses
<1> HIDE DEF d
<1>6. \A k \in Messages(e) : d.promise[k] = "pending" => c.promise[k] = "pending"
  <2>1. DOMAIN c.promise = Messages(e)
    BY <1>2 DEF Sockets
  <2> QED BY <1>5, <2>1 DEF SettledAs
<1>7. OwnInv(e, d) /\ Grows(c, d) /\ Quiet(c, d)
  BY <1>1, <1>5, <1>6, AsideKeeps
<1>8. OwnInv(e, t) /\ Grows(d, t) /\ Quiet(d, t)
  BY <1>3, <1>4, <1>7, ReadyStateKeeps
<1>9. t \in Sockets(e)
  BY <1>8 DEF OwnInv
<1>10. Grows(s, d) /\ Quiet(s, d)
  BY <1>1, <1>2, <1>5, <1>7, GrowsOn, QuietOn
<1> QED BY <1>2, <1>5, <1>8, <1>9, <1>10, GrowsOn, QuietOn

\* send() in front of the accept frame.
LEMMA EarlySendKeeps ==
    ASSUME NEW e \in Ends, NEW s, Closable(e, s), PauseHeld(s), NEW m \in Messages(e), m = s.sends,
           ~(s.closeSent \/ s.destroyed), ~s.accepted, Len(s.sendQueue) < Cap,
           ~Unwritable(s) /\ s.accept = "handler" => Len(s.sendQueue) = s.sends - 1,
           NEW t,
           t = [[s EXCEPT !.promise[m] = "pending"] EXCEPT !.sendQueue = Append(@, m)]
    PROVE  OwnInv(e, t) /\ Grows(s, t) /\ Quiet(s, t)
<1>1. /\ s \in Sockets(e) /\ Bounded(s) /\ StagesInStep(s) /\ CloseOnce(s) /\ PauseHeld(s)
      /\ SendsHeld(e, s) /\ LogInOrder(e, s) /\ FirstInOrder(e, s)
      /\ (e = "guest" => AcceptFirst(s))
  BY DEF Closable
<1> DEFINE c == Promised(s, m, "pending")
           q == Append(s.sendQueue, m)
<1>2. /\ c \in Sockets(e)
      /\ SameReads(s, c) /\ SameStage(s, c) /\ SameEnd(s, c) /\ c.log = s.log
      /\ c.sendQueue = s.sendQueue /\ c.outboundQueue = s.outboundQueue
      /\ SettledAs(s.promise, c.promise, {m}, "pending")
  BY <1>1, PromiseProperties DEF Statuses
<1>3. t = [c EXCEPT !.sendQueue = q]
  <2> t = [c EXCEPT !.sendQueue = Append(@, m)]
    BY DEF Promised
  <2> HIDE DEF c
  <2> QED BY <1>2 DEF Sockets
<1>4. s.sendQueue \in Seq(Messages(e))
  BY <1>1 DEF Sockets
<1>5. /\ q \in Seq(Messages(e)) /\ Len(s.sendQueue) \in Nat /\ Len(q) = Len(s.sendQueue) + 1
      /\ DOMAIN q = 1 .. (Len(s.sendQueue) + 1) /\ DOMAIN s.sendQueue = 1 .. Len(s.sendQueue)
      /\ \A i \in DOMAIN s.sendQueue : q[i] = s.sendQueue[i]
      /\ q[Len(s.sendQueue) + 1] = m
  BY <1>4, AppendIndexes
<1>6. Elements(q) = Elements(s.sendQueue) \cup {m}
  BY <1>4, AppendProperties
<1> HIDE DEF c, q
<1>7. t \in Sockets(e)
  BY ONLY <1>2, <1>3, <1>5 DEF Sockets
<1>8. /\ SameReads(c, t) /\ SameStage(c, t) /\ SameEnd(c, t) /\ t.log = c.log
      /\ t.sendQueue = q /\ t.outboundQueue = c.outboundQueue /\ t.promise = c.promise
  BY <1>2, <1>3 DEF Sockets, SameReads, SameStage, SameEnd
<1>9. SameReads(s, t)
  BY ONLY <1>2, <1>8 DEF SameReads
<1>10. /\ t.accepted = s.accepted /\ t.acceptWritten = s.acceptWritten /\ t.accept = s.accept
       /\ t.sends = s.sends /\ t.early = s.early /\ t.flushing = s.flushing
       /\ t.writing = s.writing
       /\ t.closeSent = s.closeSent /\ t.destroyed = s.destroyed /\ t.timer = s.timer
       /\ t.writable = s.writable /\ t.closed = s.closed /\ t.closeEvents = s.closeEvents
       /\ t.outboundQueue = s.outboundQueue /\ t.log = s.log
  BY ONLY <1>2, <1>8 DEF SameStage, SameEnd
<1>11. /\ LogInOrder(e, t) /\ Grows(s, t) /\ (AcceptFirst(s) => AcceptFirst(t))
       /\ \A k : Logged(t, k) <=> Logged(s, k)
  BY ONLY e \in Ends, <1>1, <1>7, <1>10, OtherFrame
<1>12. Unwritable(t) = Unwritable(s)
  BY ONLY <1>10 DEF Unwritable
<1>13. Quiet(s, t) /\ CloseOnce(t) /\ PauseHeld(t)
  BY ONLY <1>1, <1>9, <1>10 DEF Quiet, CloseOnce, PauseHeld, SameReads
<1>14. Bounded(t)
  <2>1. Len(q) <= Cap
    BY <1>5, MessageTypes
  <2> QED BY ONLY <1>1, <1>8, <1>9, <1>10, <2>1 DEF Bounded, SameReads
<1>15. StagesInStep(t)
  BY ONLY <1>1, <1>10 DEF StagesInStep
<1>16. s.accept = "handler" \/ (s.accept = "done" /\ s.writable = "reset")
  BY <1>1 DEF StagesInStep, Sockets
<1>17. SendsHeld(e, t)
  <2> SUFFICES ASSUME NEW k \in Messages(e), t.promise[k] = "pending", ~t.destroyed,
                      t.writable # "reset"
               PROVE  \/ k \in Elements(t.sendQueue) /\ t.accept # "done"
                      \/ k \in Elements(t.flushing)
                      \/ k = t.writing
                      \/ /\ k \in Elements(t.outboundQueue)
                         /\ t.writing # 0 \/ t.flushing # <<>> \/ t.accept = "writing"
    BY DEF SendsHeld
  <2>1. DOMAIN s.promise = Messages(e)
    BY <1>1 DEF Sockets
  <2>2. k = m \/ s.promise[k] = "pending"
    BY ONLY <1>2, <1>8, <2>1, k \in Messages(e), t.promise[k] = "pending" DEF SettledAs
  <2>3. CASE k = m
    BY <1>6, <1>8, <1>10, <1>16, <2>3
  <2>4. CASE s.promise[k] = "pending"
    BY <1>1, <1>6, <1>8, <1>10, <2>4 DEF SendsHeld
  <2> QED BY <2>2, <2>3, <2>4
<1>18. s.flushing = <<>> /\ s.outboundQueue = s.outboundQueue
  BY <1>1 DEF StagesInStep
<1>19. FirstInOrder(e, t)
  <2>1. ASSUME ~Unwritable(t), t.accept # "done"
        PROVE  /\ \A i \in DOMAIN q : q[i] = i
               /\ Len(q) <= s.sends
    <3>1. s.accept = "handler" /\ Len(s.sendQueue) = s.sends - 1
      BY <1>10, <1>12, <1>16, <2>1
    <3>2. \A i \in DOMAIN s.sendQueue : s.sendQueue[i] = i
      BY <1>1, <1>12, <2>1, <3>1 DEF FirstInOrder
    <3>3. s.sends \in Nat
      BY MessageTypes
    <3> QED BY <1>5, <3>1, <3>2, <3>3
  <2>2. s.accept # "done" => \A k \in Messages(e) : ~Logged(s, k)
    BY <1>1 DEF FirstInOrder
  <2> QED BY <1>8, <1>10, <1>11, <1>16, <1>18, <2>1, <2>2 DEF FirstInOrder, Unwritable
<1>20. SecondInOrder(e, t)
  <2>1. s.sends \in Nat
    BY MessageTypes
  <2> SUFFICES ASSUME ~Unwritable(t) PROVE t.accept = "handler" /\ Len(t.sendQueue) = t.sends
    BY DEF SecondInOrder
  <2>2. s.accept = "handler"
    BY <1>10, <1>16 DEF Unwritable
  <2>3. Len(s.sendQueue) = s.sends - 1
    BY <1>12, <2>2
  <2> QED BY <1>5, <1>8, <1>10, <2>1, <2>2, <2>3
<1> QED BY ONLY <1>1, <1>7, <1>11, <1>13, <1>14, <1>15, <1>17, <1>19, <1>20 DEF OwnInv

\* send() of an accepted socket, up to the pump.
LEMMA LateSendKeeps ==
    ASSUME NEW e \in Ends, NEW s, Closable(e, s), PauseHeld(s), NEW m \in Messages(e), m = s.sends,
           ~(s.closeSent \/ s.destroyed), s.accepted, Len(s.outboundQueue) < Cap,
           NEW n, n = s.sends - 1 - Len(s.outboundQueue),
           ~Unwritable(s) =>
              /\ s.early <= n
              /\ \A i \in DOMAIN s.outboundQueue : s.outboundQueue[i] = n + i
              /\ \A k \in Messages(e) : k > s.early => (Logged(s, k) <=> k <= n),
           NEW t,
           t = [[s EXCEPT !.promise[m] = "pending"] EXCEPT !.outboundQueue = Append(@, m)]
    PROVE  /\ PumpReady(e, t) /\ Grows(s, t) /\ Quiet(s, t) /\ t.acceptWritten = s.acceptWritten
           /\ ~s.acceptWritten => OwnInv(e, t)
<1>1. /\ s \in Sockets(e) /\ Bounded(s) /\ StagesInStep(s) /\ CloseOnce(s) /\ PauseHeld(s)
      /\ SendsHeld(e, s) /\ LogInOrder(e, s) /\ FirstInOrder(e, s)
      /\ (e = "guest" => AcceptFirst(s))
  BY DEF Closable
<1> DEFINE c == Promised(s, m, "pending")
           q == Append(s.outboundQueue, m)
<1>2. /\ c \in Sockets(e)
      /\ SameReads(s, c) /\ SameStage(s, c) /\ SameEnd(s, c) /\ c.log = s.log
      /\ c.sendQueue = s.sendQueue /\ c.outboundQueue = s.outboundQueue
      /\ SettledAs(s.promise, c.promise, {m}, "pending")
  BY <1>1, PromiseProperties DEF Statuses
<1>3. t = [c EXCEPT !.outboundQueue = q]
  <2> t = [c EXCEPT !.outboundQueue = Append(@, m)]
    BY DEF Promised
  <2> HIDE DEF c
  <2> QED BY <1>2 DEF Sockets
<1>4. s.outboundQueue \in Seq(Messages(e))
  BY <1>1 DEF Sockets
<1>5. /\ q \in Seq(Messages(e)) /\ Len(s.outboundQueue) \in Nat
      /\ Len(q) = Len(s.outboundQueue) + 1
      /\ DOMAIN q = 1 .. (Len(s.outboundQueue) + 1)
      /\ DOMAIN s.outboundQueue = 1 .. Len(s.outboundQueue)
      /\ \A i \in DOMAIN s.outboundQueue : q[i] = s.outboundQueue[i]
      /\ q[Len(s.outboundQueue) + 1] = m
  BY <1>4, AppendIndexes
<1>6. Elements(q) = Elements(s.outboundQueue) \cup {m}
  BY <1>4, AppendProperties
<1> HIDE DEF c, q
<1>7. t \in Sockets(e)
  BY ONLY <1>2, <1>3, <1>5 DEF Sockets
<1>8. /\ SameReads(c, t) /\ SameStage(c, t) /\ SameEnd(c, t) /\ t.log = c.log
      /\ t.sendQueue = c.sendQueue /\ t.outboundQueue = q /\ t.promise = c.promise
  BY <1>2, <1>3 DEF Sockets, SameReads, SameStage, SameEnd
<1>9. SameReads(s, t)
  BY ONLY <1>2, <1>8 DEF SameReads
<1>10. /\ t.accepted = s.accepted /\ t.acceptWritten = s.acceptWritten /\ t.accept = s.accept
       /\ t.sends = s.sends /\ t.early = s.early /\ t.flushing = s.flushing
       /\ t.writing = s.writing
       /\ t.closeSent = s.closeSent /\ t.destroyed = s.destroyed /\ t.timer = s.timer
       /\ t.writable = s.writable /\ t.closed = s.closed /\ t.closeEvents = s.closeEvents
       /\ t.sendQueue = s.sendQueue /\ t.log = s.log
  BY ONLY <1>2, <1>8 DEF SameStage, SameEnd
<1>11. /\ LogInOrder(e, t) /\ Grows(s, t) /\ (AcceptFirst(s) => AcceptFirst(t))
       /\ \A k : Logged(t, k) <=> Logged(s, k)
  BY ONLY e \in Ends, <1>1, <1>7, <1>10, OtherFrame
<1>12. Unwritable(t) = Unwritable(s)
  BY ONLY <1>10 DEF Unwritable
<1>13. Quiet(s, t) /\ CloseOnce(t) /\ PauseHeld(t)
  BY ONLY <1>1, <1>9, <1>10 DEF Quiet, CloseOnce, PauseHeld, SameReads
<1>14. Bounded(t)
  <2>1. Len(q) <= Cap
    BY <1>5, MessageTypes
  <2> QED BY ONLY <1>1, <1>8, <1>9, <1>10, <2>1 DEF Bounded, SameReads
<1>15. s.accept # "handler"
  BY <1>1 DEF StagesInStep
<1>16. StagesInStep(t)
  BY <1>1, <1>10, <1>15 DEF StagesInStep
<1>17. SendsQueued(e, t)
  <2> SUFFICES ASSUME NEW k \in Messages(e), t.promise[k] = "pending", ~t.destroyed,
                      t.writable # "reset"
               PROVE  \/ k \in Elements(t.sendQueue) /\ t.accept # "done"
                      \/ k \in Elements(t.flushing)
                      \/ k = t.writing
                      \/ k \in Elements(t.outboundQueue)
    BY DEF SendsQueued
  <2>1. DOMAIN s.promise = Messages(e)
    BY <1>1 DEF Sockets
  <2>2. k = m \/ s.promise[k] = "pending"
    BY ONLY <1>2, <1>8, <2>1, k \in Messages(e), t.promise[k] = "pending" DEF SettledAs
  <2>3. CASE k = m
    BY <1>6, <1>8, <2>3
  <2>4. CASE s.promise[k] = "pending"
    BY <1>1, <1>6, <1>8, <1>10, <2>4 DEF SendsHeld
  <2> QED BY <2>2, <2>3, <2>4
<1>18. FirstInOrder(e, t)
  BY ONLY <1>1, <1>10, <1>11, <1>12 DEF FirstInOrder
<1>19. SecondInOrder(e, t)
  <2> SUFFICES ASSUME ~Unwritable(t)
               PROVE  LET N == t.sends - Len(t.outboundQueue)
                      IN  /\ t.early <= N
                          /\ \A i \in DOMAIN t.outboundQueue : t.outboundQueue[i] = N + i
                          /\ \A k \in Messages(e) : k > t.early => (Logged(t, k) <=> k <= N)
    BY <1>10, <1>15 DEF SecondInOrder
  <2>1. s.sends \in Nat /\ n \in Int
    BY <1>5, MessageTypes
  <2>2. t.sends - Len(t.outboundQueue) = n
    <3>1. s.sends - (Len(s.outboundQueue) + 1) = s.sends - 1 - Len(s.outboundQueue)
      <4>1. \A a, b \in Nat : a - (b + 1) = a - 1 - b
        OBVIOUS
      <4> QED BY <1>5, <2>1, <4>1
    <3> QED BY <1>5, <1>8, <1>10, <3>1
  <2>3. /\ s.early <= n
        /\ \A i \in DOMAIN s.outboundQueue : s.outboundQueue[i] = n + i
        /\ \A k \in Messages(e) : k > s.early => (Logged(s, k) <=> k <= n)
    BY <1>12
  <2>4. \A i \in DOMAIN q : q[i] = n + i
    <3> TAKE i \in DOMAIN q
    <3>1. CASE i \in DOMAIN s.outboundQueue
      BY <1>5, <2>3, <3>1
    <3>2. CASE i = Len(s.outboundQueue) + 1
      BY <1>5, <2>1, <3>2
    <3> QED BY <1>5, <3>1, <3>2
  <2> QED BY <1>8, <1>10, <1>11, <2>2, <2>3, <2>4
<1>20. PumpReady(e, t)
  BY ONLY <1>1, <1>7, <1>11, <1>13, <1>14, <1>16, <1>17, <1>18, <1>19 DEF PumpReady
<1>21. ASSUME ~s.acceptWritten PROVE OwnInv(e, t)
  <2>1. s.accept = "writing" \/ s.writable = "reset"
    BY <1>1, <1>15, <1>21 DEF StagesInStep, Sockets
  <2>2. SendsHeld(e, t)
    BY ONLY <1>10, <1>17, <2>1 DEF SendsHeld, SendsQueued
  <2> QED BY ONLY <1>20, <2>2 DEF OwnInv, PumpReady
<1> QED BY ONLY <1>10, <1>11, <1>13, <1>20, <1>21

\* send()
LEMMA SendKeeps ==
    ASSUME NEW e \in Ends, NEW s, OwnInv(e, s), s.sends < MaxSends[e], NEW t,
           t = SendResult([s EXCEPT !.sends = s.sends + 1], s.sends + 1)
    PROVE  OwnInv(e, t) /\ Grows(s, t) /\ Quiet(s, t)
<1> DEFINE m == s.sends + 1
           u == [s EXCEPT !.sends = s.sends + 1]
           queued == [u EXCEPT !.promise[m] = "pending"]
<1>1. s \in Sockets(e) /\ StagesInStep(s) /\ SecondInOrder(e, s)
  BY DEF OwnInv
<1>2. m \in Messages(e) /\ s.sends \in Nat
  BY <1>1, MessageTypes DEF Sockets
<1>3. /\ Closable(e, u) /\ PauseHeld(u) /\ Grows(s, u) /\ Quiet(s, u)
      /\ SameReads(s, u) /\ SameEnd(s, u) /\ SameQueues(s, u) /\ u.log = s.log
      /\ u.accepted = s.accepted /\ u.acceptWritten = s.acceptWritten
      /\ u.accept = s.accept /\ u.sends = m /\ u.early = s.early
      /\ u.flushing = s.flushing /\ u.writing = s.writing
      /\ Unwritable(u) = Unwritable(s)
      /\ \A k : Logged(u, k) <=> Logged(s, k)
  BY NumberedKeeps
<1>4. t = SendResult(u, m)
  OBVIOUS
<1> HIDE DEF u
<1>5. /\ u \in Sockets(e)
      /\ u.sendQueue = s.sendQueue /\ u.outboundQueue = s.outboundQueue
      /\ u.closeSent = s.closeSent /\ u.destroyed = s.destroyed
  BY <1>3 DEF SameQueues, SameEnd, Closable
<1>6. Len(u.sendQueue) \in Nat /\ Len(u.outboundQueue) \in Nat /\ Cap \in Nat
  BY <1>5, MessageTypes DEF Sockets
<1>7. SUFFICES OwnInv(e, t) /\ Grows(u, t) /\ Quiet(u, t)
  <2>1. OwnInv(e, t) => t \in Sockets(e)
    BY DEF OwnInv
  <2> QED BY ONLY e \in Ends, <1>1, <1>3, <1>5, <1>7, <2>1, GrowsOn, QuietOn
<1>8. CASE u.closeSent \/ u.destroyed
  <2>1. t = Promised(u, m, "resolved")
    BY <1>4, <1>8 DEF SendResult, Promised
  <2>2. OwnInv(e, u)
    BY <1>3, <1>8, OwnIsClosable
  <2> HIDE DEF m
  <2>3. /\ t \in Sockets(e)
        /\ SameReads(u, t) /\ SameStage(u, t) /\ SameEnd(u, t) /\ t.log = u.log
        /\ t.sendQueue = u.sendQueue /\ t.outboundQueue = u.outboundQueue
        /\ SettledAs(u.promise, t.promise, {m}, "resolved")
    BY ONLY e \in Ends, <1>2, <1>5, <2>1, PromiseProperties DEF Statuses
  <2>4. DOMAIN u.promise = Messages(e)
    BY <1>5 DEF Sockets
  <2>5. \A k \in Messages(e) : t.promise[k] = "pending" => u.promise[k] = "pending"
    BY <2>3, <2>4 DEF SettledAs
  <2> QED BY ONLY e \in Ends, <2>2, <2>3, <2>5, AsideKeeps
<1>9. CASE ~(u.closeSent \/ u.destroyed) /\ ~u.accepted
  <2>1. CASE Len(u.sendQueue) >= Cap
    <3>1. t = [handleProtocolFault(u) EXCEPT !.promise[m] = "rejected",
                   !.readyState = IF @ = "none" THEN @ ELSE "closing"]
      BY <1>4, <1>9, <2>1 DEF SendResult
    <3> HIDE DEF m
    <3> QED BY ONLY e \in Ends, <1>2, <1>3, <3>1, RefusedKeeps
  <2>2. CASE ~(Len(u.sendQueue) >= Cap)
    <3>1. t = [queued EXCEPT !.sendQueue = Append(@, m)]
      BY <1>4, <1>9, <2>2 DEF SendResult
    <3>2. ~Unwritable(u) /\ u.accept = "handler" => Len(u.sendQueue) = u.sends - 1
      BY <1>1, <1>2, <1>3, <1>5, <1>9 DEF SecondInOrder
    <3>3. Len(u.sendQueue) < Cap
      BY <1>6, <2>2
    <3> HIDE DEF m
    <3>4. t = [[u EXCEPT !.promise[m] = "pending"] EXCEPT !.sendQueue = Append(@, m)]
      BY <3>1
    <3> QED BY ONLY e \in Ends, <1>2, <1>3, <1>9, <3>2, <3>3, <3>4, EarlySendKeeps
  <2> QED BY <2>1, <2>2
<1>10. CASE ~(u.closeSent \/ u.destroyed) /\ u.accepted
  <2>1. CASE Len(u.outboundQueue) >= Cap
    <3>1. t = [handleProtocolFault(u) EXCEPT !.promise[m] = "rejected",
                   !.readyState = IF @ = "none" THEN @ ELSE "closing"]
      BY <1>4, <1>10, <2>1 DEF SendResult
    <3> HIDE DEF m
    <3> QED BY ONLY e \in Ends, <1>2, <1>3, <3>1, RefusedKeeps
  <2>2. CASE ~(Len(u.outboundQueue) >= Cap)
    <3> DEFINE pushed == [queued EXCEPT !.outboundQueue = Append(@, m)]
               n == u.sends - 1 - Len(u.outboundQueue)
    <3>1. t = IF u.acceptWritten THEN pumpOutboundQueue(pushed) ELSE pushed
      BY <1>4, <1>10, <2>2 DEF SendResult
    <3>2. n = s.sends - Len(s.outboundQueue)
      BY <1>2, <1>3, <1>5, <1>6
    <3>3. u.accept # "handler"
      BY <1>1, <1>3, <1>10 DEF StagesInStep
    <3>4. ~Unwritable(u) =>
              /\ u.early <= n
              /\ \A i \in DOMAIN u.outboundQueue : u.outboundQueue[i] = n + i
              /\ \A k \in Messages(e) : k > u.early => (Logged(u, k) <=> k <= n)
      BY <1>1, <1>3, <1>5, <1>10, <3>2, <3>3 DEF SecondInOrder
    <3>5. Len(u.outboundQueue) < Cap
      BY <1>6, <2>2
    <3>6. pushed = [[u EXCEPT !.promise[m] = "pending"] EXCEPT !.outboundQueue = Append(@, m)]
      OBVIOUS
    <3>7. n = u.sends - 1 - Len(u.outboundQueue)
      OBVIOUS
    <3> HIDE DEF pushed, n, m
    <3>8. /\ PumpReady(e, pushed) /\ Grows(u, pushed) /\ Quiet(u, pushed)
          /\ pushed.acceptWritten = u.acceptWritten
          /\ ~u.acceptWritten => OwnInv(e, pushed)
      BY ONLY e \in Ends, <1>2, <1>3, <1>10, <3>4, <3>5, <3>6, <3>7, LateSendKeeps
    <3>9. CASE ~u.acceptWritten
      BY <3>1, <3>8, <3>9
    <3>10. CASE u.acceptWritten
      <4>1. OwnInv(e, t) /\ Grows(pushed, t) /\ Quiet(pushed, t)
        BY ONLY e \in Ends, <3>1, <3>8, <3>10, PumpKeeps
      <4>2. pushed \in Sockets(e) /\ t \in Sockets(e)
        BY ONLY <3>8, <4>1 DEF PumpReady, OwnInv
      <4> QED BY ONLY e \in Ends, <1>5, <3>8, <4>1, <4>2, GrowsOn, QuietOn
    <3> QED BY <3>9, <3>10
  <2> QED BY <2>1, <2>2
<1> QED BY <1>8, <1>9, <1>10

\* The accept frame is written, and the first queue is flushed.
LEMMA AcceptWrittenKeeps ==
    ASSUME NEW e \in Ends, NEW s, OwnInv(e, s), s.accept = "writing",
           Frame("accept", 0) \in Elements(s.log), NEW t,
           t = FlushNext([s EXCEPT !.accept = "done", !.acceptWritten = TRUE,
                                   !.flushing = s.sendQueue, !.sendQueue = <<>>])
    PROVE  OwnInv(e, t) /\ Grows(s, t) /\ Quiet(s, t)
<1>1. /\ s \in Sockets(e) /\ Bounded(s) /\ StagesInStep(s) /\ CloseOnce(s) /\ PauseHeld(s)
      /\ SendsHeld(e, s) /\ LogInOrder(e, s) /\ FirstInOrder(e, s) /\ SecondInOrder(e, s)
      /\ (e = "guest" => AcceptFirst(s))
  BY DEF OwnInv
<1> DEFINE empty == <<>>
           q == s.sendQueue
           u == [s EXCEPT !.accept = "done", !.acceptWritten = TRUE,
                          !.flushing = q, !.sendQueue = empty]
<1>2. t = FlushNext(u)
  OBVIOUS
<1>3. empty \in Seq(Messages(e)) /\ q \in Seq(Messages(e)) /\ Len(empty) = 0
  BY <1>1 DEF Sockets
<1>4. q = s.sendQueue /\ Elements(empty) = {}
  BY EmptyProperties
<1> HIDE DEF empty, q
<1>5. u \in Sockets(e)
  BY ONLY <1>1, <1>3 DEF Sockets
<1>6. /\ SameReads(s, u) /\ SameEnd(s, u) /\ u.log = s.log /\ u.promise = s.promise
      /\ u.accepted = s.accepted /\ u.acceptWritten = TRUE /\ u.accept = "done"
      /\ u.sends = s.sends /\ u.early = s.early /\ u.writing = s.writing
      /\ u.flushing = q /\ u.sendQueue = empty /\ u.outboundQueue = s.outboundQueue
  BY ONLY <1>1 DEF Sockets, SameReads, SameEnd
<1> HIDE DEF u
<1>7. /\ LogInOrder(e, u) /\ Grows(s, u)
      /\ \A k : Logged(u, k) <=> Logged(s, k)
  BY ONLY e \in Ends, <1>1, <1>5, <1>6, OtherFrame
<1>8. Unwritable(u) = Unwritable(s)
  BY ONLY <1>6 DEF Unwritable, SameEnd
<1>9. Quiet(s, u) /\ CloseOnce(u) /\ PauseHeld(u)
  BY ONLY <1>1, <1>6 DEF Quiet, CloseOnce, PauseHeld, SameReads, SameEnd
<1>10. Bounded(u)
  BY <1>1, <1>3, <1>4, <1>6, MessageTypes DEF Bounded, SameReads
<1>11. s.accepted /\ ~s.acceptWritten /\ s.flushing = <<>> /\ s.writing = 0
  BY <1>1 DEF StagesInStep
<1>12. StagesInStep(u)
  BY <1>1, <1>6, <1>11 DEF StagesInStep, SameEnd
<1>13. SendsQueued(e, u)
  <2>1. Elements(<<>>) = {}
    BY EmptyProperties
  <2> QED BY <1>1, <1>4, <1>6, <1>11, <2>1 DEF SendsQueued, SendsHeld, SameEnd
<1>14. SecondInOrder(e, u)
  BY <1>1, <1>6, <1>7, <1>8 DEF SecondInOrder, SameEnd
<1>15. ASSUME ~Unwritable(u), u.flushing # <<>>
       PROVE  /\ \A i \in DOMAIN u.flushing :
                    u.flushing[i] = u.flushing[1] + i - 1 /\ u.flushing[i] <= u.early
              /\ \A k \in 1 .. u.early : Logged(u, k) <=> k < u.flushing[1]
  <2>1. /\ \A i \in DOMAIN q : q[i] = i
        /\ Len(q) <= s.early
        /\ \A k \in Messages(e) : ~Logged(s, k)
    BY <1>1, <1>4, <1>8, <1>15 DEF FirstInOrder
  <2>2. DOMAIN q = 1 .. Len(q) /\ Len(q) \in Nat /\ Len(q) > 0
    BY <1>3, <1>6, <1>15
  <2>3. s.early \in Nat /\ 1 .. s.early \subseteq Messages(e)
    BY <1>1, MessageTypes DEF Sockets
  <2>4. q[1] = 1
    BY <2>1, <2>2
  <2>5. \A i \in DOMAIN q : q[i] = q[1] + i - 1 /\ q[i] <= s.early
    <3> TAKE i \in DOMAIN q
    <3>1. q[i] = i /\ i \in Nat /\ i <= Len(q)
      BY <2>1, <2>2
    <3> QED BY <2>1, <2>2, <2>3, <2>4, <3>1
  <2>6. \A k \in 1 .. s.early : Logged(u, k) <=> k < q[1]
    <3> TAKE k \in 1 .. s.early
    <3>1. ~Logged(u, k)
      BY <1>7, <2>1, <2>3
    <3>2. ~(k < q[1])
      BY <2>3, <2>4
    <3> QED BY <3>1, <3>2
  <2> QED BY <1>6, <2>5, <2>6
<1>16. e = "guest" => AcceptFirst(u)
  <2>1. PICK j \in DOMAIN s.log : s.log[j] = Frame("accept", 0)
    BY DEF Elements
  <2>2. u.log[j].type = "accept" /\ j \in DOMAIN u.log
    BY <1>6, <2>1 DEF Frame
  <2> QED BY <1>1, <1>6, <2>2 DEF AcceptFirst
<1>17. FlushReady(e, u)
  BY ONLY <1>5, <1>7, <1>9, <1>10, <1>12, <1>13, <1>14, <1>15, <1>16 DEF FlushReady
<1>18. OwnInv(e, t) /\ Grows(u, t) /\ Quiet(u, t)
  BY ONLY e \in Ends, <1>2, <1>6, <1>17, FlushKeeps
<1>19. t \in Sockets(e)
  BY <1>18 DEF OwnInv
<1> QED BY ONLY e \in Ends, <1>1, <1>5, <1>7, <1>9, <1>18, <1>19, GrowsOn, QuietOn

\* A stage that ends with a stream nothing can be written to any more.
LEMMA EndedKeeps ==
    ASSUME NEW e \in Ends, NEW s, NEW t, OwnInv(e, s), t \in Sockets(e),
           SameReads(s, t), SameQueues(s, t), t.accepted = s.accepted,
           t.acceptWritten = s.acceptWritten, t.accept \in {s.accept, "done"},
           t.sends = s.sends, t.early = s.early, t.flushing = s.flushing,
           t.writing = s.writing, t.closeSent = s.closeSent, t.destroyed = s.destroyed,
           t.timer = s.timer, t.closed = s.closed, t.closeEvents = s.closeEvents,
           t.writable \in {s.writable, "reset"}, Unwritable(t),
           \/ t.log = s.log
           \/ \E f \in Frames(e) : f.type # "data" /\ t.log = Append(s.log, f)
    PROVE  OwnInv(e, t) /\ Grows(s, t) /\ Quiet(s, t)
<1>1. /\ s \in Sockets(e) /\ Bounded(s) /\ StagesInStep(s) /\ CloseOnce(s) /\ PauseHeld(s)
      /\ SendsHeld(e, s) /\ LogInOrder(e, s) /\ FirstInOrder(e, s) /\ SecondInOrder(e, s)
      /\ (e = "guest" => AcceptFirst(s))
  BY DEF OwnInv
<1>2. /\ LogInOrder(e, t) /\ Grows(s, t) /\ (AcceptFirst(s) => AcceptFirst(t))
      /\ \A k : Logged(t, k) <=> Logged(s, k)
  BY <1>1, OtherFrame
<1>3. Quiet(s, t) /\ CloseOnce(t) /\ PauseHeld(t)
  BY <1>1 DEF Quiet, CloseOnce, PauseHeld, SameReads
<1>4. Bounded(t)
  BY <1>1 DEF Bounded, SameReads, SameQueues
<1>5. t.destroyed \/ t.writable = "reset"
  BY <1>1 DEF Unwritable, StagesInStep, Sockets
<1>6. StagesInStep(t)
  BY <1>1, <1>5 DEF StagesInStep, SameQueues
<1>7. SendsHeld(e, t)
  BY <1>5 DEF SendsHeld
<1>8. FirstInOrder(e, t) /\ SecondInOrder(e, t)
  BY <1>1, <1>2 DEF FirstInOrder, SecondInOrder
<1> QED BY <1>1, <1>2, <1>3, <1>4, <1>6, <1>7, <1>8 DEF OwnInv

\* The accept frame could not be written.
LEMMA AcceptFailedKeeps ==
    ASSUME NEW e \in Ends, NEW s, OwnInv(e, s), Unwritable(s), NEW t,
           t = [s EXCEPT !.accept = "done"]
    PROVE  OwnInv(e, t) /\ Grows(s, t) /\ Quiet(s, t)
<1>1. s \in Sockets(e)
  BY DEF OwnInv
<1>2. t \in Sockets(e)
  BY <1>1 DEF Sockets
<1>3. /\ SameReads(s, t) /\ SameQueues(s, t) /\ t.accepted = s.accepted
      /\ t.acceptWritten = s.acceptWritten /\ t.accept = "done"
      /\ t.sends = s.sends /\ t.early = s.early /\ t.flushing = s.flushing
      /\ t.writing = s.writing /\ t.closeSent = s.closeSent /\ t.destroyed = s.destroyed
      /\ t.timer = s.timer /\ t.closed = s.closed /\ t.closeEvents = s.closeEvents
      /\ t.writable = s.writable /\ t.log = s.log
  BY <1>1 DEF Sockets, SameReads, SameQueues
<1>4. Unwritable(t)
  BY <1>3 DEF Unwritable
<1> QED BY ONLY e \in Ends, OwnInv(e, s), <1>2, <1>3, <1>4, EndedKeeps

\* The Host refuses the Broker's stream.
LEMMA ResetKeeps ==
    ASSUME NEW e \in Ends, NEW s, OwnInv(e, s), NEW t, t = [s EXCEPT !.writable = "reset"]
    PROVE  OwnInv(e, t) /\ Grows(s, t) /\ Quiet(s, t)
<1>1. s \in Sockets(e)
  BY DEF OwnInv
<1>2. t \in Sockets(e)
  BY <1>1 DEF Sockets
<1>3. /\ SameReads(s, t) /\ SameQueues(s, t) /\ t.accepted = s.accepted
      /\ t.acceptWritten = s.acceptWritten /\ t.accept = s.accept
      /\ t.sends = s.sends /\ t.early = s.early /\ t.flushing = s.flushing
      /\ t.writing = s.writing /\ t.closeSent = s.closeSent /\ t.destroyed = s.destroyed
      /\ t.timer = s.timer /\ t.closed = s.closed /\ t.closeEvents = s.closeEvents
      /\ t.writable = "reset" /\ t.log = s.log
  BY <1>1 DEF Sockets, SameReads, SameQueues
<1>4. Unwritable(t)
  BY <1>3 DEF Unwritable
<1> QED BY ONLY e \in Ends, OwnInv(e, s), <1>2, <1>3, <1>4, EndedKeeps

\* The handler of the Guest refuses or fails.
LEMMA RejectKeeps ==
    ASSUME NEW e \in Ends, NEW s, OwnInv(e, s), NEW frame \in BOOLEAN, NEW t,
           t = [(IF frame THEN WriteLine(s, "error", 0) ELSE s) EXCEPT
                    !.accept = "done", !.writable = "reset"]
    PROVE  OwnInv(e, t) /\ Grows(s, t) /\ Quiet(s, t)
<1>1. s \in Sockets(e)
  BY DEF OwnInv
<1> DEFINE w == IF frame THEN WriteLine(s, "error", 0) ELSE s
<1>2. /\ w \in Sockets(e) /\ SameReads(s, w) /\ SameStage(s, w) /\ SameEnd(s, w)
      /\ SameQueues(s, w) /\ w.log \in {s.log, Append(s.log, Frame("error", 0))}
  <2>1. CASE frame
    <3>1. Frame("error", 0) \in Frames(e)
      BY FrameProperties
    <3>2. w = WriteLine(s, "error", 0)
      BY <2>1
    <3> HIDE DEF w
    <3>3. /\ w \in Sockets(e) /\ SameReads(s, w) /\ SameStage(s, w) /\ SameEnd(s, w)
          /\ SameQueues(s, w)
          /\ w.log = IF Unwritable(s) THEN s.log ELSE Append(s.log, Frame("error", 0))
      BY ONLY e \in Ends, s \in Sockets(e), <1>1, <3>1, <3>2, WriteLineProperties
    <3> QED BY ONLY <3>3
  <2>2. CASE ~frame
    BY <1>1, <2>2 DEF SameReads, SameStage, SameEnd, SameQueues
  <2> QED BY <2>1, <2>2
<1>3. t = [w EXCEPT !.accept = "done", !.writable = "reset"]
  OBVIOUS
<1> HIDE DEF w
<1>4. t \in Sockets(e)
  BY ONLY <1>2, <1>3 DEF Sockets
<1>5. /\ SameReads(w, t) /\ SameQueues(w, t) /\ t.accepted = w.accepted
      /\ t.acceptWritten = w.acceptWritten /\ t.accept = "done"
      /\ t.sends = w.sends /\ t.early = w.early /\ t.flushing = w.flushing
      /\ t.writing = w.writing /\ t.closeSent = w.closeSent /\ t.destroyed = w.destroyed
      /\ t.timer = w.timer /\ t.closed = w.closed /\ t.closeEvents = w.closeEvents
      /\ t.writable = "reset" /\ t.log = w.log
  BY ONLY <1>2, <1>3 DEF Sockets, SameReads, SameQueues
<1>6. /\ SameReads(s, t) /\ SameQueues(s, t)
  BY ONLY <1>2, <1>5 DEF SameReads, SameQueues
<1>7. /\ t.accepted = s.accepted /\ t.acceptWritten = s.acceptWritten /\ t.accept = "done"
      /\ t.sends = s.sends /\ t.early = s.early /\ t.flushing = s.flushing
      /\ t.writing = s.writing /\ t.closeSent = s.closeSent /\ t.destroyed = s.destroyed
      /\ t.timer = s.timer /\ t.closed = s.closed /\ t.closeEvents = s.closeEvents
      /\ t.writable = "reset"
  BY ONLY <1>2, <1>5 DEF SameStage, SameEnd
<1>8. Unwritable(t)
  BY <1>7 DEF Unwritable
<1>9. \/ t.log = s.log
      \/ \E f \in Frames(e) : f.type # "data" /\ t.log = Append(s.log, f)
  <2>1. Frame("error", 0) \in Frames(e) /\ Frame("error", 0).type # "data"
    BY FrameProperties
  <2> QED BY ONLY <1>2, <1>5, <2>1
<1> QED BY ONLY e \in Ends, OwnInv(e, s), <1>4, <1>6, <1>7, <1>8, <1>9, EndedKeeps

\* The two parts of sendAccept.
AcceptTried(s, a) ==
    a = IF s.destroyed THEN [DiscardSendQueue(s) EXCEPT !.accept = "done"]
        ELSE WriteLine([s EXCEPT !.accepted = TRUE, !.accept = "writing"], "accept", 0)
MarkedOpen(s, a, t) ==
    t = [a EXCEPT !.early = s.sends,
                  !.readyState = IF @ = "connecting" THEN "open" ELSE @]

\* sendAccept: the messages so far are those of the first queue.
LEMMA AcceptKeeps ==
    ASSUME NEW e \in Ends, NEW s, OwnInv(e, s), s.accept = "handler", NEW a, NEW t,
           AcceptTried(s, a), MarkedOpen(s, a, t)
    PROVE  OwnInv(e, t) /\ Grows(s, t) /\ Quiet(s, t)
<1> a = IF s.destroyed THEN [DiscardSendQueue(s) EXCEPT !.accept = "done"]
        ELSE WriteLine([s EXCEPT !.accepted = TRUE, !.accept = "writing"], "accept", 0)
  BY DEF AcceptTried
<1> t = [a EXCEPT !.early = s.sends,
                  !.readyState = IF @ = "connecting" THEN "open" ELSE @]
  BY DEF MarkedOpen
<1>1. /\ s \in Sockets(e) /\ Bounded(s) /\ StagesInStep(s) /\ CloseOnce(s) /\ PauseHeld(s)
      /\ SendsHeld(e, s) /\ LogInOrder(e, s) /\ FirstInOrder(e, s) /\ SecondInOrder(e, s)
      /\ (e = "guest" => AcceptFirst(s))
  BY DEF OwnInv
<1>2. /\ ~s.accepted /\ ~s.acceptWritten /\ s.outboundQueue = <<>>
      /\ s.flushing = <<>> /\ s.writing = 0
  BY <1>1 DEF StagesInStep
<1>3. /\ a \in Sockets(e) /\ SameReads(s, a) /\ SameEnd(s, a)
      /\ a.acceptWritten = s.acceptWritten /\ a.sends = s.sends /\ a.early = s.early
      /\ a.flushing = s.flushing /\ a.writing = s.writing /\ a.outboundQueue = s.outboundQueue
      /\ a.accept \in {"writing", "done"}
      /\ a.accept = "writing" => a.accepted /\ SameQueues(s, a)
      /\ a.accept = "done" => s.destroyed /\ a.sendQueue = <<>>
      /\ \/ a.log = s.log
         \/ \E f \in Frames(e) : f.type # "data" /\ a.log = Append(s.log, f)
  <2>1. CASE s.destroyed
    <3> DEFINE d == DiscardSendQueue(s)
    <3>1. /\ d \in Sockets(e) /\ SameReads(s, d) /\ SameStage(s, d) /\ SameEnd(s, d)
          /\ d.log = s.log /\ d.sendQueue = <<>> /\ d.outboundQueue = s.outboundQueue
      BY <1>1, DiscardProperties
    <3>2. a = [d EXCEPT !.accept = "done"]
      BY <2>1
    <3> HIDE DEF d
    <3>3. a \in Sockets(e)
      BY ONLY <3>1, <3>2 DEF Sockets
    <3>4. /\ SameReads(d, a) /\ SameEnd(d, a)
          /\ a.acceptWritten = d.acceptWritten /\ a.sends = d.sends /\ a.early = d.early
          /\ a.flushing = d.flushing /\ a.writing = d.writing
          /\ a.outboundQueue = d.outboundQueue /\ a.sendQueue = d.sendQueue
          /\ a.accept = "done" /\ a.log = d.log
      BY ONLY <3>1, <3>2 DEF Sockets, SameReads, SameEnd
    <3>5. /\ SameReads(s, a) /\ SameEnd(s, a)
          /\ a.acceptWritten = s.acceptWritten /\ a.sends = s.sends /\ a.early = s.early
          /\ a.flushing = s.flushing /\ a.writing = s.writing
      BY ONLY <3>1, <3>4 DEF SameReads, SameEnd, SameStage
    <3> QED BY ONLY <2>1, <3>1, <3>3, <3>4, <3>5
  <2>2. CASE ~s.destroyed
    <3> DEFINE b == [s EXCEPT !.accepted = TRUE, !.accept = "writing"]
    <3>1. b \in Sockets(e)
      BY ONLY <1>1 DEF Sockets
    <3>2. /\ SameReads(s, b) /\ SameEnd(s, b) /\ SameQueues(s, b) /\ b.log = s.log
          /\ b.acceptWritten = s.acceptWritten /\ b.sends = s.sends /\ b.early = s.early
          /\ b.flushing = s.flushing /\ b.writing = s.writing
          /\ b.accept = "writing" /\ b.accepted
      BY ONLY <1>1 DEF Sockets, SameReads, SameEnd, SameQueues
    <3>3. a = WriteLine(b, "accept", 0)
      BY <2>2
    <3> HIDE DEF b
    <3>4. /\ a \in Sockets(e) /\ SameReads(b, a) /\ SameStage(b, a) /\ SameEnd(b, a)
          /\ SameQueues(b, a)
          /\ a.log = IF Unwritable(b) THEN b.log ELSE Append(b.log, Frame("accept", 0))
      BY ONLY e \in Ends, <3>1, <3>3, WriteLineProperties, FrameProperties
    <3>5. SameReads(s, a) /\ SameEnd(s, a) /\ SameQueues(s, a)
      BY ONLY <3>2, <3>4 DEF SameReads, SameEnd, SameQueues
    <3>6. /\ a.acceptWritten = s.acceptWritten /\ a.sends = s.sends /\ a.early = s.early
          /\ a.flushing = s.flushing /\ a.writing = s.writing
          /\ a.accept = "writing" /\ a.accepted
      BY ONLY <3>2, <3>4 DEF SameStage
    <3>7. a.outboundQueue = s.outboundQueue
      BY ONLY <3>5 DEF SameQueues
    <3>8. \/ a.log = s.log
          \/ \E f \in Frames(e) : f.type # "data" /\ a.log = Append(s.log, f)
      <4>1. Frame("accept", 0) \in Frames(e) /\ Frame("accept", 0).type # "data"
        BY FrameProperties
      <4> QED BY ONLY <3>2, <3>4, <4>1
    <3> QED BY ONLY <3>4, <3>5, <3>6, <3>7, <3>8
  <2> QED BY <2>1, <2>2
<1> DEFINE r == IF a.readyState = "connecting" THEN "open" ELSE a.readyState
           n == s.sends
<1>4. t = [a EXCEPT !.early = n, !.readyState = r]
  OBVIOUS
<1>5. /\ r \in {"none", "connecting", "open", "closing", "closed"} /\ n \in 0 .. MaxSends[e]
      /\ n = s.sends
  BY ONLY <1>1, <1>3 DEF Sockets
<1> HIDE DEF r, n
<1>6. t \in Sockets(e)
  BY ONLY <1>3, <1>4, <1>5 DEF Sockets
<1>7. /\ SameReads(a, t) /\ SameEnd(a, t) /\ SameQueues(a, t) /\ t.log = a.log
      /\ t.acceptWritten = a.acceptWritten /\ t.sends = a.sends /\ t.early = n
      /\ t.flushing = a.flushing /\ t.writing = a.writing /\ t.accept = a.accept
      /\ t.accepted = a.accepted
  BY ONLY <1>3, <1>4 DEF Sockets, SameReads, SameEnd, SameQueues
<1>8. /\ SameReads(s, t) /\ SameEnd(s, t)
      /\ t.acceptWritten = s.acceptWritten /\ t.sends = s.sends /\ t.early = s.sends
      /\ t.flushing = s.flushing /\ t.writing = s.writing /\ t.outboundQueue = s.outboundQueue
      /\ t.accept \in {"writing", "done"}
      /\ t.accept = "writing" => t.accepted /\ t.sendQueue = s.sendQueue /\ t.promise = s.promise
      /\ t.accept = "done" => s.destroyed /\ t.sendQueue = <<>>
  BY ONLY <1>3, <1>5, <1>7 DEF SameReads, SameEnd, SameQueues
<1>9. /\ Grows(s, a) /\ (AcceptFirst(s) => AcceptFirst(a))
      /\ \A k : Logged(a, k) <=> Logged(s, k)
  BY ONLY e \in Ends, <1>1, <1>3, OtherFrame
<1>10. \A k \in Messages(e) : ~Logged(s, k)
  BY <1>1 DEF FirstInOrder
<1>11. \A k : Logged(t, k) <=> Logged(s, k)
  BY <1>7, <1>9 DEF Logged
<1>12. LogInOrder(e, t)
  BY <1>10, <1>11 DEF LogInOrder, Logged
<1>13. Grows(s, t)
  <2>1. \A k \in Nat \ {0} : ~Logged(s, k)
    <3> SUFFICES ASSUME NEW k \in Nat \ {0}, Logged(s, k) PROVE FALSE
      OBVIOUS
    <3>1. PICK i \in DOMAIN s.log : s.log[i].id = k
      BY DEF Logged, Holds
    <3>2. s.log[i].id \in Messages(e) \cup {0}
      <4>1. s.log \in Seq(Frames(e))
        BY ONLY <1>1 DEF Sockets, Frames
      <4>2. s.log[i] \in Frames(e)
        BY ONLY <4>1, i \in DOMAIN s.log
      <4> QED BY ONLY <4>2 DEF Frames
    <3> QED BY <1>10, <3>1, <3>2
  <2> QED BY <1>7, <1>9, <2>1 DEF Grows
<1>14. e = "guest" => AcceptFirst(t)
  BY <1>1, <1>7, <1>9 DEF AcceptFirst
<1>15. Quiet(s, t) /\ CloseOnce(t) /\ PauseHeld(t)
  BY ONLY <1>1, <1>8 DEF Quiet, CloseOnce, PauseHeld, SameReads, SameEnd
<1>16. Bounded(t)
  <2>1. Len(<<>>) = 0
    OBVIOUS
  <2> QED BY <1>1, <1>8, <2>1, MessageTypes DEF Bounded, SameReads
<1>17. StagesInStep(t)
  <2>1. s.sends <= s.sends
    BY <1>1, MessageTypes DEF Sockets
  <2> QED BY <1>1, <1>2, <1>8, <2>1 DEF StagesInStep, SameEnd
<1>18. SendsHeld(e, t)
  BY <1>1, <1>2, <1>8 DEF SendsHeld, SameEnd
<1>19. Unwritable(t) = Unwritable(s)
  BY ONLY <1>8 DEF Unwritable, SameEnd
<1>20. FirstInOrder(e, t)
  BY <1>1, <1>2, <1>8, <1>10, <1>11, <1>19 DEF FirstInOrder
<1>21. SecondInOrder(e, t)
  <2>1. s.sends \in Nat /\ Len(<<>>) = 0 /\ DOMAIN <<>> = {}
    BY <1>1, MessageTypes DEF Sockets
  <2>2. t.sends - Len(t.outboundQueue) = s.sends
    BY <1>2, <1>8, <2>1
  <2>3. \A m \in Messages(e) : m > t.early => (Logged(t, m) <=> m <= s.sends)
    <3> TAKE m \in Messages(e)
    <3> HAVE m > t.early
    <3>1. ~(m <= s.sends)
      BY <1>8, <2>1, MessageTypes
    <3>2. ~Logged(t, m)
      BY <1>10, <1>11
    <3> QED BY <3>1, <3>2
  <2> QED BY <1>2, <1>8, <2>1, <2>2, <2>3 DEF SecondInOrder
<1> QED BY ONLY <1>6, <1>12, <1>13, <1>14, <1>15, <1>16, <1>17, <1>18, <1>20, <1>21 DEF OwnInv

----------------------------------------------------------------------------
(* The inbound side *)

\* Messages are delivered, and nothing of what was read is lost or added.
Delivers(s, t) ==
    /\ Arrived(t) = Arrived(s) /\ t.read = s.read
    /\ s.closeSent => t.closeSent
    /\ s.destroyed => t.destroyed

\* A step that reads nothing delivers nothing.
LEMMA QuietDelivers ==
    ASSUME NEW s, NEW t, Quiet(s, t)
    PROVE  Delivers(s, t)
BY DEF Quiet, SameReads, Delivers, Arrived

\* Two deliveries are one.
LEMMA DeliversOn ==
    ASSUME NEW s, NEW t, NEW u, Delivers(s, t), Delivers(t, u)
    PROVE  Delivers(s, u)
BY DEF Delivers

\* Delivery moves messages from the inbound queue to the application and loses none.
LEMMA DeliveredReads ==
    ASSUME NEW e, NEW s, NEW t, NEW from, ReadsInOrder(e, s, from), Delivers(s, t)
    PROVE  ReadsInOrder(e, t, from)
<1> DEFINE got == Arrived(s)
<1>1. Arrived(t) = got /\ t.read = s.read
  BY DEF Delivers
<1>2. /\ ~t.closeSent => ~s.closeSent
      /\ ~t.closeSent /\ ~t.destroyed => ~s.closeSent /\ ~s.destroyed
  BY DEF Delivers
<1>3. /\ s.read <= Len(from.log)
      /\ \A i \in DOMAIN got :
            /\ \E a \in 1 .. s.read : Holds(from.log, a, got[i])
            /\ \A j \in 1 .. (i - 1) : SameQueue(from, got[j], got[i]) => got[j] < got[i]
            /\ ~s.closeSent =>
                  \A m \in 1 .. (got[i] - 1) :
                      SameQueue(from, m, got[i]) => \E j \in 1 .. (i - 1) : got[j] = m
      /\ ~s.closeSent /\ ~s.destroyed =>
            \A a \in 1 .. s.read : \A m \in Messages(Peer(e)) :
                Holds(from.log, a, m) => m \in Elements(got)
  BY DEF ReadsInOrder
<1> HIDE DEF got
<1> QED BY <1>1, <1>2, <1>3, Zenon DEF ReadsInOrder

\* The inbound side changes and nothing else.
LEMMA InboundKeeps ==
    ASSUME NEW e \in Ends, NEW s, NEW t, Closable(e, s), t \in Sockets(e),
           SameStage(s, t), SameEnd(s, t), SameQueues(s, t), t.log = s.log,
           Len(t.inboundQueue) <= Cap
    PROVE  /\ Closable(e, t) /\ Grows(s, t)
           /\ SecondInOrder(e, s) => SecondInOrder(e, t)
<1>1. /\ s \in Sockets(e) /\ Bounded(s) /\ StagesInStep(s) /\ CloseOnce(s)
      /\ SendsHeld(e, s) /\ LogInOrder(e, s) /\ FirstInOrder(e, s)
      /\ (e = "guest" => AcceptFirst(s))
  BY DEF Closable
<1>2. /\ t.accepted = s.accepted /\ t.acceptWritten = s.acceptWritten /\ t.accept = s.accept
      /\ t.sends = s.sends /\ t.early = s.early /\ t.flushing = s.flushing
      /\ t.writing = s.writing
      /\ t.closeSent = s.closeSent /\ t.destroyed = s.destroyed /\ t.timer = s.timer
      /\ t.writable = s.writable /\ t.closed = s.closed /\ t.closeEvents = s.closeEvents
      /\ t.sendQueue = s.sendQueue /\ t.outboundQueue = s.outboundQueue
      /\ t.promise = s.promise
  BY DEF SameStage, SameEnd, SameQueues
<1>3. /\ LogInOrder(e, t) /\ Grows(s, t) /\ (AcceptFirst(s) => AcceptFirst(t))
      /\ \A m : Logged(t, m) <=> Logged(s, m)
  BY <1>1, <1>2, OtherFrame
<1>4. Unwritable(t) = Unwritable(s)
  BY <1>2 DEF Unwritable
<1>5. Bounded(t)
  BY <1>1, <1>2 DEF Bounded
<1>6. StagesInStep(t) /\ CloseOnce(t)
  BY <1>1, <1>2 DEF StagesInStep, CloseOnce
<1>7. SendsHeld(e, t)
  BY <1>1, <1>2 DEF SendsHeld
<1>8. FirstInOrder(e, t)
  BY <1>1, <1>2, <1>3, <1>4 DEF FirstInOrder
<1>9. SecondInOrder(e, s) => SecondInOrder(e, t)
  BY <1>2, <1>3, <1>4 DEF SecondInOrder
<1> QED BY <1>1, <1>3, <1>5, <1>6, <1>7, <1>8, <1>9 DEF Closable

\* The invariant of a socket, in the parts a delivery takes one at a time.
LEMMA OwnParts ==
    ASSUME NEW e \in Ends, NEW s
    PROVE  OwnInv(e, s) <=> Closable(e, s) /\ SecondInOrder(e, s) /\ PauseHeld(s)
BY DEF OwnInv, Closable

\* The stream is resumed, unless there is a reason not to.
LEMMA ResumedKeeps ==
    ASSUME NEW e \in Ends, NEW s, Closable(e, s), SecondInOrder(e, s),
           PauseHeld(s) \/ (~s.destroyed /\ s.inboundQueue = <<>>)
    PROVE  OwnInv(e, Resumed(s)) /\ Grows(s, Resumed(s)) /\ Delivers(s, Resumed(s))
<1> DEFINE b == IF s.destroyed \/ s.inboundQueue # <<>> THEN s.paused ELSE FALSE
           t == [s EXCEPT !.paused = b]
<1>1. s \in Sockets(e) /\ Bounded(s)
  BY DEF Closable
<1>2. b \in BOOLEAN /\ (b => s.paused) /\ (~s.destroyed /\ s.inboundQueue = <<>> => ~b)
  BY <1>1 DEF Sockets
<1>3. Resumed(s) = t
  BY DEF Resumed
<1> HIDE DEF b
<1>4. t \in Sockets(e)
  BY <1>1, <1>2 DEF Sockets
<1>5. /\ SameStage(s, t) /\ SameEnd(s, t) /\ SameQueues(s, t) /\ t.log = s.log
      /\ t.inboundQueue = s.inboundQueue /\ t.processing = s.processing
      /\ t.received = s.received /\ t.read = s.read /\ t.paused = b
  BY <1>1 DEF Sockets, SameStage, SameEnd, SameQueues
<1> HIDE DEF t
<1>6. Closable(e, t) /\ Grows(s, t) /\ SecondInOrder(e, t)
  BY <1>1, <1>4, <1>5, InboundKeeps DEF Bounded
<1>7. PauseHeld(t)
  BY <1>2, <1>5 DEF PauseHeld, SameEnd
<1>8. Delivers(s, t)
  BY <1>5 DEF Delivers, Arrived, SameEnd
<1> QED BY <1>3, <1>6, <1>7, <1>8, OwnParts

\* Concatenation: the head of the second sequence moves to the end of the first.
LEMMA ConcatProperties ==
    ASSUME NEW S, NEW p \in Seq(S), NEW q \in Seq(S)
    PROVE  /\ p \o q \in Seq(S) /\ (p \o q) \o <<>> = p \o q
           /\ q # <<>> => Append(p, Head(q)) \o Tail(q) = p \o q
           /\ \A x \in S : p \o Append(q, x) = Append(p \o q, x)
<1>1. p \o q \in Seq(S) /\ (p \o q) \o <<>> = p \o q
  OBVIOUS
<1>2. ASSUME q # <<>> PROVE Append(p, Head(q)) \o Tail(q) = p \o q
  BY <1>2
<1>3. ASSUME NEW x \in S PROVE p \o Append(q, x) = Append(p \o q, x)
  OBVIOUS
<1> QED BY <1>1, <1>2, <1>3

\* One message goes to its listener, or all of them do.
Taken(s, n, p) ==
    [s EXCEPT !.received = IF n = 1 THEN Append(s.received, Head(s.inboundQueue))
                           ELSE s.received \o s.inboundQueue,
              !.inboundQueue = IF n = 1 THEN Tail(s.inboundQueue) ELSE <<>>,
              !.processing = p]

\* Taking one message, or all of them, from the inbound queue.
LEMMA TakenKeeps ==
    ASSUME NEW e \in Ends, NEW s, Closable(e, s), SecondInOrder(e, s), s.inboundQueue # <<>>,
           NEW n \in {1, 2}, NEW p \in BOOLEAN
    PROVE  /\ Closable(e, Taken(s, n, p)) /\ SecondInOrder(e, Taken(s, n, p))
           /\ Grows(s, Taken(s, n, p)) /\ Delivers(s, Taken(s, n, p))
           /\ Taken(s, n, p).processing = p /\ Taken(s, n, p).destroyed = s.destroyed
           /\ n = 2 => Taken(s, n, p).inboundQueue = <<>>
<1>1. s \in Sockets(e) /\ Bounded(s)
  BY DEF Closable
<1> DEFINE Q == Messages(Peer(e))
           r == IF n = 1 THEN Append(s.received, Head(s.inboundQueue))
                ELSE s.received \o s.inboundQueue
           q == IF n = 1 THEN Tail(s.inboundQueue) ELSE <<>>
           t == Taken(s, n, p)
<1>2. s.received \in Seq(Q) /\ s.inboundQueue \in Seq(Q)
  BY ONLY <1>1 DEF Sockets
<1> HIDE DEF Q
<1>3. /\ Head(s.inboundQueue) \in Q /\ Tail(s.inboundQueue) \in Seq(Q)
      /\ Len(Tail(s.inboundQueue)) = Len(s.inboundQueue) - 1 /\ Len(s.inboundQueue) \in Nat
  BY <1>2, TailIndexes
<1>4. /\ s.received \o s.inboundQueue \in Seq(Q)
      /\ (s.received \o s.inboundQueue) \o <<>> = s.received \o s.inboundQueue
      /\ Append(s.received, Head(s.inboundQueue)) \o Tail(s.inboundQueue)
            = s.received \o s.inboundQueue
  <2> DEFINE x == s.received
             y == s.inboundQueue
  <2>1. x \in Seq(Q) /\ y \in Seq(Q) /\ y # <<>>
    BY <1>2
  <2> HIDE DEF x, y
  <2>2. /\ x \o y \in Seq(Q) /\ (x \o y) \o <<>> = x \o y
        /\ Append(x, Head(y)) \o Tail(y) = x \o y
    BY ONLY <2>1, ConcatProperties
  <2> QED BY <2>2 DEF x, y
<1>5. Append(s.received, Head(s.inboundQueue)) \in Seq(Q)
  BY <1>2, <1>3, AppendIndexes
<1>6. <<>> \in Seq(Q) /\ Len(<<>>) = 0
  OBVIOUS
<1>7. /\ r \in Seq(Q) /\ q \in Seq(Q) /\ r \o q = s.received \o s.inboundQueue
      /\ Len(q) <= Cap /\ (n = 2 => q = <<>>)
  <2>1. Len(s.inboundQueue) <= Cap /\ Cap \in Nat
    BY <1>1, MessageTypes DEF Bounded
  <2>2. CASE n = 1
    <3>1. r = Append(s.received, Head(s.inboundQueue)) /\ q = Tail(s.inboundQueue)
      BY <2>2
    <3> HIDE DEF r, q
    <3>2. r \in Seq(Q) /\ q \in Seq(Q) /\ r \o q = s.received \o s.inboundQueue
      BY ONLY <1>3, <1>4, <1>5, <3>1
    <3>3. Len(q) <= Cap
      BY ONLY <1>3, <2>1, <3>1
    <3> QED BY <2>2, <3>2, <3>3
  <2>3. CASE n = 2
    BY <1>4, <1>6, <2>1, <2>3
  <2> QED BY <2>2, <2>3
<1>8. t = [s EXCEPT !.received = r, !.inboundQueue = q, !.processing = p]
  BY DEF Taken
<1> HIDE DEF r, q, t
<1>9. t \in Sockets(e)
  BY ONLY <1>1, <1>7, <1>8, p \in BOOLEAN DEF Sockets, Q
<1>10. /\ SameStage(s, t) /\ SameEnd(s, t) /\ SameQueues(s, t) /\ t.log = s.log
       /\ t.inboundQueue = q /\ t.received = r /\ t.processing = p
       /\ t.read = s.read /\ t.destroyed = s.destroyed /\ t.closeSent = s.closeSent
  BY ONLY <1>1, <1>8 DEF Sockets, SameStage, SameEnd, SameQueues
<1>11. Closable(e, t) /\ Grows(s, t) /\ SecondInOrder(e, t)
  BY ONLY e \in Ends, Closable(e, s), SecondInOrder(e, s), <1>7, <1>9, <1>10, InboundKeeps
<1>12. Delivers(s, t)
  BY ONLY <1>7, <1>10 DEF Delivers, Arrived
<1>13. /\ Closable(e, t) /\ SecondInOrder(e, t) /\ Grows(s, t) /\ Delivers(s, t)
       /\ t.processing = p /\ t.destroyed = s.destroyed
       /\ n = 2 => t.inboundQueue = <<>>
  BY ONLY <1>7, <1>10, <1>11, <1>12
<1> QED BY <1>13 DEF t

\* processInboundQueue, of a stream that may just have been paused.
LEMMA ProcessKeeps ==
    ASSUME NEW e \in Ends, NEW s, Closable(e, s), SecondInOrder(e, s),
           NEW listener \in {"sync", "async", "throws"}
    PROVE  /\ OwnInv(e, processInboundQueue(s, listener))
           /\ Grows(s, processInboundQueue(s, listener))
           /\ Delivers(s, processInboundQueue(s, listener))
<1> DEFINE t == processInboundQueue(s, listener)
<1>1. s \in Sockets(e)
  BY DEF Closable
<1>2. CASE s.processing
  <2>1. t = s
    BY <1>2 DEF processInboundQueue
  <2>2. PauseHeld(s) /\ Delivers(s, s)
    BY <1>2 DEF PauseHeld, Delivers
  <2>3. OwnInv(e, s) /\ Grows(s, s)
    BY <1>1, <2>2, OwnParts, GrowsSame
  <2> QED BY <2>1, <2>2, <2>3
<1>3. CASE ~s.processing /\ (s.destroyed \/ s.inboundQueue = <<>>)
  <2>1. t = Resumed(s)
    BY <1>3 DEF processInboundQueue
  <2>2. PauseHeld(s) \/ (~s.destroyed /\ s.inboundQueue = <<>>)
    BY <1>3 DEF PauseHeld
  <2> QED BY <2>1, <2>2, ResumedKeeps
<1>4. CASE ~s.processing /\ ~(s.destroyed \/ s.inboundQueue = <<>>)
  <2> DEFINE r == s.received
             q == s.inboundQueue
             one == [s EXCEPT !.received = Append(r, Head(q)), !.inboundQueue = Tail(q)]
             all == [s EXCEPT !.received = r \o q, !.inboundQueue = <<>>]
  <2>1. /\ listener = "sync" => t = Resumed(all)
        /\ listener = "async" => t = [one EXCEPT !.processing = TRUE]
        /\ listener = "throws" => t = Resumed(handleProtocolFault(one))
    BY <1>4 DEF processInboundQueue
  <2>2. s = [s EXCEPT !.processing = FALSE]
    BY <1>1, <1>4 DEF Sockets
  <2>3. /\ one = Taken(s, 1, FALSE) /\ all = Taken(s, 2, FALSE)
        /\ [one EXCEPT !.processing = TRUE] = Taken(s, 1, TRUE)
    <3> DEFINE a == Append(r, Head(q))
               b == Tail(q)
               c == r \o q
               d == <<>>
    <3>1. /\ one = [s EXCEPT !.received = a, !.inboundQueue = b]
          /\ all = [s EXCEPT !.received = c, !.inboundQueue = d]
          /\ Taken(s, 1, FALSE) = [s EXCEPT !.received = a, !.inboundQueue = b, !.processing = FALSE]
          /\ Taken(s, 1, TRUE) = [s EXCEPT !.received = a, !.inboundQueue = b, !.processing = TRUE]
          /\ Taken(s, 2, FALSE) = [s EXCEPT !.received = c, !.inboundQueue = d, !.processing = FALSE]
      BY DEF Taken
    <3> HIDE DEF a, b, c, d, one, all
    <3>2. /\ [s EXCEPT !.received = a, !.inboundQueue = b]
                = [s EXCEPT !.received = a, !.inboundQueue = b, !.processing = FALSE]
          /\ [s EXCEPT !.received = c, !.inboundQueue = d]
                = [s EXCEPT !.received = c, !.inboundQueue = d, !.processing = FALSE]
      BY <1>1, <1>4 DEF Sockets
    <3>3. [[s EXCEPT !.received = a, !.inboundQueue = b] EXCEPT !.processing = TRUE]
             = [s EXCEPT !.received = a, !.inboundQueue = b, !.processing = TRUE]
      BY <1>1 DEF Sockets
    <3> QED BY <3>1, <3>2, <3>3
  <2>4. ASSUME NEW n \in {1, 2}, NEW p \in BOOLEAN
        PROVE  /\ Closable(e, Taken(s, n, p)) /\ SecondInOrder(e, Taken(s, n, p))
               /\ Grows(s, Taken(s, n, p)) /\ Delivers(s, Taken(s, n, p))
               /\ Taken(s, n, p).processing = p /\ Taken(s, n, p).destroyed = s.destroyed
               /\ n = 2 => Taken(s, n, p).inboundQueue = <<>>
    BY <1>4, TakenKeeps
  <2> HIDE DEF one, all, t
  <2>5. CASE listener = "sync"
    <3>1. /\ Closable(e, all) /\ SecondInOrder(e, all) /\ Grows(s, all) /\ Delivers(s, all)
          /\ all.destroyed = s.destroyed /\ all.inboundQueue = <<>>
      BY <2>3, <2>4
    <3>2. OwnInv(e, t) /\ Grows(all, t) /\ Delivers(all, t)
      BY <1>4, <2>1, <2>5, <3>1, ResumedKeeps
    <3>3. all \in Sockets(e) /\ t \in Sockets(e)
      BY <3>1, <3>2 DEF Closable, OwnInv
    <3> QED BY <1>1, <3>1, <3>2, <3>3, GrowsOn, DeliversOn DEF t
  <2>6. CASE listener = "async"
    <3>1. /\ Closable(e, t) /\ SecondInOrder(e, t) /\ Grows(s, t) /\ Delivers(s, t)
          /\ t.processing
      BY <2>1, <2>3, <2>4, <2>6
    <3>2. PauseHeld(t)
      BY <3>1 DEF PauseHeld
    <3> QED BY <3>1, <3>2, OwnParts DEF t
  <2>7. CASE listener = "throws"
    <3>1. Closable(e, one) /\ Grows(s, one) /\ Delivers(s, one)
      BY <2>3, <2>4
    <3> DEFINE c == CloseSocket(one)
    <3>2. OwnInv(e, c) /\ Grows(one, c) /\ Quiet(one, c)
      BY <3>1, CloseSocketKeeps
    <3>3. t = Resumed(c)
      BY <2>1, <2>7 DEF handleProtocolFault
    <3> HIDE DEF c
    <3>4. OwnInv(e, t) /\ Grows(c, t) /\ Delivers(c, t)
      BY <3>2, <3>3, OwnParts, ResumedKeeps
    <3>5. one \in Sockets(e) /\ c \in Sockets(e) /\ t \in Sockets(e)
      BY <3>1, <3>2, <3>4 DEF Closable, OwnInv
    <3>6. Grows(s, c) /\ Delivers(s, c)
      BY <1>1, <3>1, <3>2, <3>5, GrowsOn, QuietDelivers, DeliversOn
    <3> QED BY <1>1, <3>4, <3>5, <3>6, GrowsOn, DeliversOn DEF t
  <2> QED BY <2>5, <2>6, <2>7
<1> QED BY <1>2, <1>3, <1>4

\* A frame is read that brings nothing, or nothing any more.
LEMMA ReadsPass ==
    ASSUME NEW e \in Ends, NEW s \in Sockets(e), NEW from \in Sockets(Peer(e)), NEW t,
           ReadsInOrder(e, s, from), s.read < Len(from.log),
           Arrived(t) = Arrived(s), t.read = s.read + 1,
           s.closeSent => t.closeSent, s.destroyed => t.destroyed,
           t.closeSent \/ t.destroyed \/ from.log[s.read + 1].type # "data"
    PROVE  ReadsInOrder(e, t, from)
<1> DEFINE got == Arrived(s)
<1>1. Arrived(t) = got
  OBVIOUS
<1>2. /\ s.read <= Len(from.log)
      /\ \A i \in DOMAIN got :
            /\ \E a \in 1 .. s.read : Holds(from.log, a, got[i])
            /\ \A j \in 1 .. (i - 1) : SameQueue(from, got[j], got[i]) => got[j] < got[i]
            /\ ~s.closeSent =>
                  \A m \in 1 .. (got[i] - 1) :
                      SameQueue(from, m, got[i]) => \E j \in 1 .. (i - 1) : got[j] = m
      /\ ~s.closeSent /\ ~s.destroyed =>
            \A a \in 1 .. s.read : \A m \in Messages(Peer(e)) :
                Holds(from.log, a, m) => m \in Elements(got)
  BY DEF ReadsInOrder
<1>3. s.read \in Nat /\ Len(from.log) \in Nat
  BY DEF Sockets
<1> HIDE DEF got
<1>4. t.read <= Len(from.log) /\ 1 .. s.read \subseteq 1 .. t.read
  BY <1>3
<1>5. ASSUME ~t.closeSent, ~t.destroyed, NEW a \in 1 .. t.read, NEW m \in Messages(Peer(e)),
             Holds(from.log, a, m)
      PROVE  m \in Elements(got)
  <2>1. a \in 1 .. s.read
    BY <1>3, <1>5 DEF Holds
  <2> QED BY <1>2, <1>5, <2>1
<1> QED BY <1>1, <1>2, <1>4, <1>5, Zenon DEF ReadsInOrder

\* A message is read and queued.
LEMMA ReadsAppend ==
    ASSUME NEW e \in Ends, NEW s \in Sockets(e), NEW from \in Sockets(Peer(e)), NEW t, NEW id,
           ReadsInOrder(e, s, from), LogInOrder(Peer(e), from), s.read < Len(from.log),
           id \in Messages(Peer(e)), Holds(from.log, s.read + 1, id),
           Arrived(t) = Append(Arrived(s), id), t.read = s.read + 1,
           t.closeSent = s.closeSent, t.destroyed = s.destroyed, ~s.destroyed
    PROVE  ReadsInOrder(e, t, from)
<1> DEFINE M == Messages(Peer(e))
           got == Arrived(s)
           n == Len(got)
           new == Append(got, id)
<1>1. /\ s.read <= Len(from.log)
      /\ \A i \in DOMAIN got :
            /\ \E a \in 1 .. s.read : Holds(from.log, a, got[i])
            /\ \A j \in 1 .. (i - 1) : SameQueue(from, got[j], got[i]) => got[j] < got[i]
            /\ ~s.closeSent =>
                  \A m \in 1 .. (got[i] - 1) :
                      SameQueue(from, m, got[i]) => \E j \in 1 .. (i - 1) : got[j] = m
      /\ ~s.closeSent /\ ~s.destroyed =>
            \A a \in 1 .. s.read : \A m \in M : Holds(from.log, a, m) => m \in Elements(got)
  BY DEF ReadsInOrder
<1>2. s.read \in Nat /\ Len(from.log) \in Nat
  BY DEF Sockets
<1>3. got \in Seq(M)
  <2>1. s.received \in Seq(M) /\ s.inboundQueue \in Seq(M)
    BY ONLY s \in Sockets(e) DEF Sockets
  <2> QED BY ONLY <2>1, ConcatProperties DEF Arrived
<1>4. M \subseteq Nat \ {0} /\ \A m \in M : 1 .. (m - 1) \subseteq M
  BY PeerProperties, MessageTypes
<1>5. Arrived(t) = new
  OBVIOUS
<1>6. id \in M
  OBVIOUS
<1> HIDE DEF got, M
<1>7. /\ n \in Nat /\ DOMAIN got = 1 .. n /\ DOMAIN new = 1 .. (n + 1)
      /\ \A i \in DOMAIN got : new[i] = got[i]
      /\ new[n + 1] = id
  BY ONLY <1>3, <1>6, AppendIndexes
<1>8. Elements(new) = Elements(got) \cup {id}
  BY ONLY <1>3, <1>6, AppendProperties
<1>9. \A i \in DOMAIN got : got[i] \in M
  BY <1>3
<1> HIDE DEF n, new
<1>10. s.read + 1 \in DOMAIN from.log
  BY DEF Holds
<1>11. /\ \A j \in 1 .. s.read : \A k \in M :
             Holds(from.log, j, k) /\ SameQueue(from, k, id) => k < id
       /\ \A k \in 1 .. (id - 1) : SameQueue(from, k, id) => \E j \in 1 .. s.read : Holds(from.log, j, k)
  <2>1. s.read + 1 - 1 = s.read
    BY <1>2
  <2> DEFINE p == s.read + 1
  <2>2. p \in DOMAIN from.log /\ Holds(from.log, p, id) /\ p - 1 = s.read
    <3>1. p \in DOMAIN from.log /\ p - 1 = s.read
      BY ONLY <1>2, <1>10
    <3>2. Holds(from.log, p, id)
      BY Zenon
    <3> QED BY <3>1, <3>2
  <2> HIDE DEF p
  <2>3. /\ \A j \in 1 .. (p - 1) : \A k \in M :
              Holds(from.log, j, k) /\ SameQueue(from, k, id) => k < id
        /\ \A k \in 1 .. (id - 1) :
              SameQueue(from, k, id) => \E j \in 1 .. (p - 1) : Holds(from.log, j, k)
    BY ONLY LogInOrder(Peer(e), from), <1>6, <2>2 DEF LogInOrder, M
  <2> QED BY ONLY <2>2, <2>3
<1>12. ASSUME NEW i \in DOMAIN new
       PROVE  /\ \E a \in 1 .. t.read : Holds(from.log, a, new[i])
              /\ \A j \in 1 .. (i - 1) : SameQueue(from, new[j], new[i]) => new[j] < new[i]
              /\ ~t.closeSent =>
                    \A m \in 1 .. (new[i] - 1) :
                        SameQueue(from, m, new[i]) => \E j \in 1 .. (i - 1) : new[j] = m
  <2>1. CASE i \in DOMAIN got
    <3>1. \A j \in 1 .. (i - 1) : j \in DOMAIN got
      BY <1>7, <2>1
    <3>2. new[i] = got[i] /\ \A j \in 1 .. (i - 1) : new[j] = got[j]
      BY <1>7, <2>1, <3>1
    <3>3. \E a \in 1 .. t.read : Holds(from.log, a, new[i])
      BY <1>1, <1>2, <2>1, <3>2
    <3> QED BY <1>1, <2>1, <3>2, <3>3
  <2>2. CASE i = n + 1
    <3>1. new[i] = id /\ \A j \in 1 .. (i - 1) : j \in DOMAIN got /\ new[j] = got[j]
      BY <1>7, <2>2
    <3>2. \E a \in 1 .. t.read : Holds(from.log, a, new[i])
      BY <1>2, <3>1
    <3>3. ASSUME NEW j \in 1 .. (i - 1), SameQueue(from, new[j], new[i])
          PROVE  new[j] < new[i]
      BY <1>1, <1>9, <1>11, <3>1, <3>3
    <3>4. ASSUME ~t.closeSent, NEW m \in 1 .. (new[i] - 1), SameQueue(from, m, new[i])
          PROVE  \E j \in 1 .. (i - 1) : new[j] = m
      <4>1. m \in M /\ m \in 1 .. (id - 1)
        BY <1>4, <1>6, <3>1, <3>4
      <4>2. PICK a \in 1 .. s.read : Holds(from.log, a, m)
        BY <1>11, <3>1, <3>4, <4>1
      <4>3. m \in Elements(got)
        BY <1>1, <3>4, <4>1, <4>2
      <4>4. PICK j \in DOMAIN got : got[j] = m
        BY <4>3 DEF Elements
      <4>5. j \in 1 .. (i - 1)
        BY <1>7, <2>2, <4>4
      <4> QED BY <3>1, <4>4, <4>5
    <3> QED BY <3>2, <3>3, <3>4
  <2> QED BY <1>7, <2>1, <2>2
<1>13. ASSUME ~t.closeSent, ~t.destroyed, NEW a \in 1 .. t.read, NEW m \in M,
              Holds(from.log, a, m)
       PROVE  m \in Elements(new)
  <2>1. CASE a \in 1 .. s.read
    BY <1>1, <1>8, <1>13, <2>1
  <2>2. CASE a = s.read + 1
    <3>1. m = id
      BY <1>13, <2>2 DEF Holds
    <3> QED BY <1>8, <3>1
  <2> QED BY <1>2, <2>1, <2>2
<1>14. t.read <= Len(from.log)
  BY <1>2
<1> QED BY <1>5, <1>12, <1>13, <1>14, Zenon DEF ReadsInOrder, M

\* A 'data' event takes one frame.
Turn(e, s, from, t) ==
    /\ OwnInv(e, t) /\ Grows(s, t) /\ ReadsInOrder(e, t, from) /\ t.read = s.read + 1

\* One turn of the parser's loop, whatever the frame is.
LEMMA NextFrameKeeps ==
    ASSUME NEW e \in Ends, NEW s, NEW from, OwnInv(e, s), OwnInv(Peer(e), from),
           ReadsInOrder(e, s, from), s.read < Len(from.log),
           NEW listener \in {"sync", "async", "throws"}
    PROVE  Turn(e, s, from, NextFrame(s, from.log, listener))
<1> DEFINE p == Peer(e)
           n == s.read + 1
           u == [s EXCEPT !.read = n]
           f == from.log[n]
           t == NextFrame(s, from.log, listener)
<1>1. s \in Sockets(e) /\ from \in Sockets(p) /\ LogInOrder(p, from) /\ Bounded(s) /\ PauseHeld(s)
  BY DEF OwnInv
<1>2. t = handleFrame(u, f, listener)
  BY DEF NextFrame
<1>3. n \in Nat /\ n = s.read + 1 /\ from.log \in Seq(Frames(p)) /\ n \in DOMAIN from.log
  <2>1. s.read \in Nat /\ from.log \in Seq(Frames(p))
    BY ONLY <1>1 DEF Sockets
  <2> QED BY <2>1
<1>4. f \in Frames(p)
  BY ONLY <1>3
<1>5. f.type \in {"accept", "close", "error", "data"} /\ (f.type = "data" => f.id \in Messages(p))
  BY ONLY <1>4 DEF Frames
<1>6. f.type # "data" => from.log[s.read + 1].type # "data"
  OBVIOUS
<1>7. f.type = "data" => Holds(from.log, s.read + 1, f.id)
  BY <1>3 DEF Holds
<1> HIDE DEF n, f, p
<1>8. u \in Sockets(e)
  BY ONLY <1>1, <1>3 DEF Sockets
<1>9. /\ SameStage(s, u) /\ SameEnd(s, u) /\ SameQueues(s, u) /\ u.log = s.log
      /\ u.inboundQueue = s.inboundQueue /\ u.processing = s.processing
      /\ u.received = s.received /\ u.read = n /\ u.paused = s.paused
  BY ONLY <1>1 DEF Sockets, SameStage, SameEnd, SameQueues
<1>10. u.destroyed = s.destroyed /\ u.closeSent = s.closeSent /\ Arrived(u) = Arrived(s)
  BY ONLY <1>9 DEF SameEnd, Arrived
<1> HIDE DEF u
<1>11. Closable(e, u) /\ Grows(s, u) /\ SecondInOrder(e, u)
  BY <1>1, <1>8, <1>9, InboundKeeps, OwnParts DEF Bounded
<1>12. OwnInv(e, u)
  <2>1. PauseHeld(u)
    BY <1>1, <1>9, <1>10 DEF PauseHeld
  <2> QED BY <1>11, <2>1, OwnParts
<1>13. ASSUME NEW v, OwnInv(e, v), Grows(u, v), Quiet(u, v),
              v.closeSent \/ v.destroyed \/ f.type # "data"
       PROVE  Turn(e, s, from, v)
  <2>1. v \in Sockets(e)
    BY <1>13 DEF OwnInv
  <2>2. Arrived(v) = Arrived(s) /\ v.read = s.read + 1
    BY <1>3, <1>9, <1>10, <1>13 DEF Quiet, SameReads, Arrived
  <2>3. (s.closeSent => v.closeSent) /\ (s.destroyed => v.destroyed)
    BY <1>10, <1>13 DEF Quiet
  <2>4. ReadsInOrder(e, v, from)
    BY <1>1, <1>6, <1>13, <2>2, <2>3, ReadsPass DEF p
  <2>5. Grows(s, v)
    BY <1>1, <1>8, <1>11, <1>13, <2>1, GrowsOn
  <2> QED BY <1>13, <2>2, <2>4, <2>5 DEF Turn
<1>14. Grows(u, u) /\ Quiet(u, u)
  BY <1>8, GrowsSame
<1>15. CASE u.destroyed
  <2>1. t = u
    BY <1>2, <1>15 DEF handleFrame
  <2> QED BY <1>12, <1>13, <1>14, <1>15, <2>1
<1>16. CASE ~u.destroyed /\ f.type = "error"
  <2>1. t = u
    BY <1>2, <1>16 DEF handleFrame
  <2> QED BY <1>12, <1>13, <1>14, <1>16, <2>1
<1>17. CASE ~u.destroyed /\ f.type = "close"
  <2>1. t = ReceiveClose(u)
    BY <1>2, <1>17 DEF handleFrame
  <2>2. OwnInv(e, t) /\ Grows(u, t) /\ Quiet(u, t)
    BY <1>12, <1>17, <2>1, ReceiveCloseKeeps
  <2> QED BY <1>13, <1>17, <2>2
<1>18. CASE ~u.destroyed /\ f.type = "accept"
  <2>1. t = CloseSocket(u)
    BY <1>2, <1>18 DEF handleFrame, handleProtocolFault
  <2>2. OwnInv(e, t) /\ Grows(u, t) /\ Quiet(u, t)
    BY <1>11, <2>1, CloseSocketKeeps
  <2> QED BY <1>13, <1>18, <2>2
<1>19. CASE ~u.destroyed /\ f.type = "data" /\ Len(u.inboundQueue) >= Cap
  <2>1. t = CloseSocket(u)
    BY <1>2, <1>19 DEF handleFrame, handleProtocolFault, enqueueInbound
  <2>2. /\ OwnInv(e, t) /\ Grows(u, t) /\ Quiet(u, t)
        /\ t.closeSent \/ t.destroyed
    BY <1>11, <2>1, CloseSocketKeeps
  <2> QED BY <1>13, <2>2
<1>20. CASE ~u.destroyed /\ f.type = "data" /\ ~(Len(u.inboundQueue) >= Cap)
  <2> DEFINE id == f.id
             q == Append(u.inboundQueue, id)
             v == [u EXCEPT !.inboundQueue = q, !.paused = TRUE]
  <2>1. t = processInboundQueue(v, listener)
    BY <1>2, <1>20 DEF handleFrame, enqueueInbound
  <2>2. id \in Messages(p) /\ Holds(from.log, s.read + 1, id)
    BY <1>5, <1>7, <1>20
  <2> HIDE DEF id
  <2>3. u.inboundQueue \in Seq(Messages(p)) /\ u.received \in Seq(Messages(p))
    BY ONLY <1>8 DEF Sockets, p
  <2>4. q \in Seq(Messages(p)) /\ Len(q) = Len(u.inboundQueue) + 1 /\ Len(u.inboundQueue) \in Nat
    BY ONLY <2>2, <2>3, AppendIndexes
  <2>5. u.received \o q = Append(u.received \o u.inboundQueue, id)
    <3> DEFINE x == u.received
               y == u.inboundQueue
    <3>1. x \in Seq(Messages(p)) /\ y \in Seq(Messages(p))
      BY <2>3
    <3> HIDE DEF x, y
    <3>2. x \o Append(y, id) = Append(x \o y, id)
      BY ONLY <2>2, <3>1, ConcatProperties
    <3> QED BY <3>2 DEF x, y
  <2> HIDE DEF q
  <2>6. v \in Sockets(e)
    BY ONLY <1>8, <2>4 DEF Sockets, p
  <2>7. /\ SameStage(u, v) /\ SameEnd(u, v) /\ SameQueues(u, v) /\ v.log = u.log
        /\ v.inboundQueue = q /\ v.received = u.received /\ v.read = u.read
    BY ONLY <1>8 DEF Sockets, SameStage, SameEnd, SameQueues
  <2> HIDE DEF v
  <2>8. Len(v.inboundQueue) <= Cap
    BY <1>20, <2>4, <2>7, MessageTypes
  <2>9. Closable(e, v) /\ Grows(u, v) /\ SecondInOrder(e, v)
    BY <1>11, <2>6, <2>7, <2>8, InboundKeeps
  <2>10. OwnInv(e, t) /\ Grows(v, t) /\ Delivers(v, t)
    BY <2>1, <2>9, ProcessKeeps
  <2>11. Arrived(v) = Append(Arrived(s), id)
    BY ONLY <1>10, <2>5, <2>7 DEF Arrived
  <2>12. v.read = s.read + 1 /\ v.closeSent = s.closeSent /\ v.destroyed = s.destroyed
    BY <1>3, <1>9, <1>10, <2>7 DEF SameEnd
  <2>13. ReadsInOrder(e, v, from)
    BY <1>1, <1>10, <1>20, <2>2, <2>11, <2>12, ReadsAppend DEF p
  <2>14. ReadsInOrder(e, t, from)
    BY <2>10, <2>13, DeliveredReads
  <2>15. t \in Sockets(e)
    BY <2>10 DEF OwnInv
  <2>16. Grows(s, v)
    BY <1>1, <1>8, <1>11, <2>6, <2>9, GrowsOn
  <2>17. Grows(s, t)
    BY <1>1, <2>6, <2>10, <2>15, <2>16, GrowsOn
  <2> QED BY <2>10, <2>12, <2>14, <2>17 DEF Turn, Delivers
<1> QED BY <1>5, <1>15, <1>16, <1>17, <1>18, <1>19, <1>20

\* The loop over the frames of a chunk.
IsParse(g, s, log, n, listener) ==
    g = [i \in 0 .. n |-> IF i = 0 THEN s ELSE NextFrame(g[i - 1], log, listener)]
ParseAfter(s, log, n, listener) == CHOOSE g : IsParse(g, s, log, n, listener)

ParseStep(x, log, listener) ==
    IF x.read < Len(log) THEN NextFrame(x, log, listener) ELSE x

ParseSteps(g, S, a, n, log, listener) ==
    /\ g \in [0 .. n -> S] /\ g[0] = a
    /\ \A i \in 1 .. n : g[i] = ParseStep(g[i - 1], log, listener)

\* The parser's loop is a function of the number of turns.
LEMMA ParseLoop ==
    ASSUME NEW S, NEW a \in S, NEW n \in Nat, NEW log, NEW listener,
           \A x \in S : ParseStep(x, log, listener) \in S
    PROVE  \E g : ParseSteps(g, S, a, n, log, listener)
<1> DEFINE f == [i \in 1 .. n |-> [x \in S |-> ParseStep(x, log, listener)]]
<1>1. f \in [1 .. n -> [S -> S]]
  OBVIOUS
<1> HIDE DEF f
<1>2. PICK g : g \in [0 .. n -> S] /\ g[0] = a /\ \A i \in 1 .. n : g[i] = f[i][g[i - 1]]
  BY <1>1, Iteration
<1>3. \A i \in 1 .. n : f[i][g[i - 1]] = ParseStep(g[i - 1], log, listener)
  BY <1>2 DEF f
<1>4. ParseSteps(g, S, a, n, log, listener)
  BY <1>2, <1>3 DEF ParseSteps
<1> QED BY <1>4

\* A chunk of n frames.
LEMMA ParsedKeeps ==
    ASSUME NEW e \in Ends, NEW s, NEW from, OwnInv(e, s), OwnInv(Peer(e), from),
           ReadsInOrder(e, s, from), NEW n \in Nat, s.read + n <= Len(from.log),
           NEW listener \in {"sync", "async", "throws"}
    PROVE  /\ OwnInv(e, Parsed(s, from.log, n, listener))
           /\ Grows(s, Parsed(s, from.log, n, listener))
           /\ ReadsInOrder(e, Parsed(s, from.log, n, listener), from)
<1> DEFINE S == {x \in Sockets(e) : OwnInv(e, x) /\ Grows(s, x) /\ ReadsInOrder(e, x, from)}
<1>1. s \in Sockets(e) /\ from \in Sockets(Peer(e)) /\ s.read \in Nat /\ Len(from.log) \in Nat
  <2>1. s \in Sockets(e) /\ from \in Sockets(Peer(e))
    BY DEF OwnInv
  <2>2. s.read \in Nat
    BY ONLY <2>1 DEF Sockets
  <2>3. from.log \in Seq(Frames(Peer(e)))
    BY ONLY <2>1 DEF Sockets
  <2> QED BY <2>1, <2>2, <2>3
<1>2. s \in S
  BY <1>1, GrowsSame
<1>3. ASSUME NEW x \in S, x.read < Len(from.log)
      PROVE  NextFrame(x, from.log, listener) \in S /\ NextFrame(x, from.log, listener).read = x.read + 1
  <2> DEFINE t == NextFrame(x, from.log, listener)
  <2>1. x \in Sockets(e) /\ OwnInv(e, x) /\ Grows(s, x) /\ ReadsInOrder(e, x, from)
    OBVIOUS
  <2>2. Turn(e, x, from, t)
    BY <1>3, <2>1, NextFrameKeeps
  <2> HIDE DEF t
  <2>3. t \in Sockets(e) /\ OwnInv(e, t) /\ Grows(x, t) /\ ReadsInOrder(e, t, from)
        /\ t.read = x.read + 1
    BY <2>2 DEF Turn, OwnInv
  <2>4. Grows(s, t)
    BY <1>1, <2>1, <2>3, GrowsOn
  <2>5. t \in S /\ t.read = x.read + 1
    BY <2>3, <2>4
  <2> QED BY <2>5 DEF t
<1>4. \A x \in S : ParseStep(x, from.log, listener) \in S
  BY <1>3 DEF ParseStep
<1> HIDE DEF S
<1>5. \E g : ParseSteps(g, S, s, n, from.log, listener)
  BY <1>2, <1>4, ParseLoop
<1>6. PICK g : ParseSteps(g, S, s, n, from.log, listener)
  BY <1>5
<1>7. /\ g \in [0 .. n -> S] /\ g[0] = s
      /\ \A i \in 1 .. n : g[i] = ParseStep(g[i - 1], from.log, listener)
  BY <1>6 DEF ParseSteps
<1>8. \A i \in 1 .. n : i - 1 \in 0 .. n /\ g[i] = ParseStep(g[i - 1], from.log, listener)
  BY <1>7
<1>9. ASSUME NEW h, \A i \in 0 .. n : h[i] \in S, h[0] = s,
             \A i \in 1 .. n : h[i - 1].read < Len(from.log) =>
                 h[i] = NextFrame(h[i - 1], from.log, listener)
      PROVE  \A i \in 0 .. n : h[i].read = s.read + i
  <2> DEFINE K == {k \in Nat : k <= n => h[k].read = s.read + k}
  <2>1. 0 \in K
    BY <1>1, <1>9
  <2>2. ASSUME NEW k \in Nat, k \in K PROVE k + 1 \in K
    <3> SUFFICES ASSUME k + 1 <= n PROVE h[k + 1].read = s.read + (k + 1)
      OBVIOUS
    <3>1. k \in 0 .. n /\ k + 1 \in 1 .. n /\ (k + 1) - 1 = k /\ k <= n
      OBVIOUS
    <3>2. h[k].read = s.read + k /\ h[k] \in S
      BY <1>9, <2>2, <3>1
    <3>3. h[k].read < Len(from.log)
      BY <1>1, <3>1, <3>2
    <3>4. h[k + 1] = NextFrame(h[k], from.log, listener)
      BY <1>9, <3>1, <3>3
    <3>5. h[k + 1].read = h[k].read + 1
      BY <1>3, <3>2, <3>3, <3>4
    <3> QED BY <1>1, <3>2, <3>5
  <2>3. \A k \in Nat : k \in K
    <3> HIDE DEF K
    <3> QED BY <2>1, <2>2, SetInduction
  <2> QED BY <2>3
<1>10. \A i \in 0 .. n : g[i].read = s.read + i
  <2>1. \A i \in 0 .. n : g[i] \in S
    BY <1>7
  <2>2. \A i \in 1 .. n : g[i - 1].read < Len(from.log) =>
                 g[i] = NextFrame(g[i - 1], from.log, listener)
    BY <1>8 DEF ParseStep
  <2> QED BY <1>7, <1>9, <2>1, <2>2
<1>11. \A i \in 0 .. n : g[i] = IF i = 0 THEN s ELSE NextFrame(g[i - 1], from.log, listener)
  <2> SUFFICES ASSUME NEW i \in 0 .. n, i # 0
               PROVE  g[i] = NextFrame(g[i - 1], from.log, listener)
    BY <1>7
  <2>1. i \in 1 .. n /\ i - 1 \in 0 .. n
    OBVIOUS
  <2>2. g[i - 1].read = s.read + (i - 1)
    BY <1>10, <2>1
  <2>3. g[i - 1].read < Len(from.log)
    BY <1>1, <2>1, <2>2
  <2> QED BY <1>8, <2>1, <2>3 DEF ParseStep
<1>12. IsParse(g, s, from.log, n, listener)
  BY <1>7, <1>11 DEF IsParse
<1> DEFINE after == ParseAfter(s, from.log, n, listener)
<1>13. IsParse(after, s, from.log, n, listener)
  BY <1>12 DEF ParseAfter
<1>14. Parsed(s, from.log, n, listener) = after[n]
  BY Zenon DEF Parsed, ParseAfter, IsParse
<1> HIDE DEF after
<1>15. \A i \in 0 .. n : after[i] = IF i = 0 THEN s ELSE NextFrame(after[i - 1], from.log, listener)
  BY <1>13 DEF IsParse
<1>16. \A i \in 0 .. n : after[i] \in S /\ after[i].read = s.read + i
  <2> DEFINE K == {k \in Nat : k <= n => after[k] \in S /\ after[k].read = s.read + k}
  <2>1. 0 \in K
    BY <1>1, <1>2, <1>15
  <2>2. ASSUME NEW k \in Nat, k \in K PROVE k + 1 \in K
    <3> SUFFICES ASSUME k + 1 <= n
                 PROVE  after[k + 1] \in S /\ after[k + 1].read = s.read + (k + 1)
      OBVIOUS
    <3>1. k \in 0 .. n /\ k + 1 \in 0 .. n /\ k + 1 # 0 /\ (k + 1) - 1 = k /\ k <= n
      OBVIOUS
    <3>2. after[k].read = s.read + k /\ after[k] \in S
      BY <2>2, <3>1
    <3>3. after[k].read < Len(from.log)
      BY <1>1, <3>1, <3>2
    <3>4. after[k + 1] = NextFrame(after[k], from.log, listener)
      BY <1>15, <3>1
    <3>5. after[k + 1] \in S /\ after[k + 1].read = after[k].read + 1
      BY <1>3, <3>2, <3>3, <3>4
    <3> QED BY <1>1, <3>2, <3>5
  <2>3. \A k \in Nat : k \in K
    <3> HIDE DEF K
    <3> QED BY <2>1, <2>2, SetInduction
  <2> QED BY <2>3
<1>17. after[n] \in S
  BY <1>16
<1> QED BY <1>14, <1>17 DEF S

----------------------------------------------------------------------------
(* Both ends *)

\* What an end has read stays as it is when the other end goes on.
LEMMA ReadsExtend ==
    ASSUME NEW e \in Ends, NEW s \in Sockets(e), NEW from \in Sockets(Peer(e)),
           NEW to \in Sockets(Peer(e)), ReadsInOrder(e, s, from), Grows(from, to)
    PROVE  ReadsInOrder(e, s, to)
<1> DEFINE M == Messages(Peer(e))
           got == Arrived(s)
<1>1. /\ s.read <= Len(from.log)
      /\ \A i \in DOMAIN got :
            /\ \E a \in 1 .. s.read : Holds(from.log, a, got[i])
            /\ \A j \in 1 .. (i - 1) : SameQueue(from, got[j], got[i]) => got[j] < got[i]
            /\ ~s.closeSent =>
                  \A m \in 1 .. (got[i] - 1) :
                      SameQueue(from, m, got[i]) => \E j \in 1 .. (i - 1) : got[j] = m
      /\ ~s.closeSent /\ ~s.destroyed =>
            \A a \in 1 .. s.read : \A m \in M : Holds(from.log, a, m) => m \in Elements(got)
  BY DEF ReadsInOrder
<1>2. s.read \in Nat
  BY ONLY s \in Sockets(e) DEF Sockets
<1>3. from.log \in Seq(Frames(Peer(e))) /\ to.log \in Seq(Frames(Peer(e)))
  BY ONLY from \in Sockets(Peer(e)), to \in Sockets(Peer(e)) DEF Sockets
<1>4. /\ Len(from.log) \in Nat /\ Len(to.log) \in Nat
      /\ DOMAIN from.log = 1 .. Len(from.log) /\ DOMAIN to.log = 1 .. Len(to.log)
  BY <1>3
<1>5. got \in Seq(M)
  <2>1. s.received \in Seq(M) /\ s.inboundQueue \in Seq(M)
    BY ONLY s \in Sockets(e) DEF Sockets
  <2> QED BY ONLY <2>1, ConcatProperties DEF Arrived
<1>6. M \subseteq Nat \ {0}
  BY PeerProperties, MessageTypes
<1> HIDE DEF got, M
<1>7. \A a \in 1 .. s.read : \A m : Holds(to.log, a, m) <=> Holds(from.log, a, m)
  <2> TAKE a \in 1 .. s.read
  <2>1. a \in DOMAIN from.log /\ a \in DOMAIN to.log /\ to.log[a] = from.log[a]
    BY <1>1, <1>2, <1>4 DEF Grows
  <2> QED BY <2>1 DEF Holds
<1>8. s.read <= Len(to.log)
  BY <1>1, <1>2, <1>4 DEF Grows
<1>9. ASSUME NEW i \in DOMAIN got
      PROVE  /\ \E a \in 1 .. s.read : Holds(to.log, a, got[i])
             /\ \A j \in 1 .. (i - 1) : SameQueue(to, got[j], got[i]) => got[j] < got[i]
             /\ ~s.closeSent =>
                   \A m \in 1 .. (got[i] - 1) :
                       SameQueue(to, m, got[i]) => \E j \in 1 .. (i - 1) : got[j] = m
  <2>1. PICK a \in 1 .. s.read : Holds(from.log, a, got[i])
    BY <1>1
  <2>2. Logged(from, got[i]) /\ got[i] \in Nat \ {0}
    <3>1. got[i] \in M
      BY ONLY <1>5, i \in DOMAIN got
    <3>2. Logged(from, got[i])
      BY ONLY <2>1 DEF Logged, Holds
    <3> QED BY ONLY <1>6, <3>1, <3>2
  <2>3. to.early = from.early
    BY <2>2 DEF Grows
  <2>4. \A m, k : SameQueue(to, m, k) <=> SameQueue(from, m, k)
    BY <2>3 DEF SameQueue
  <2> QED BY <1>1, <1>7, <2>1, <2>4
<1> QED BY <1>1, <1>7, <1>8, <1>9, Zenon DEF ReadsInOrder, got, M

\* A step of one end.
LEMMA EndStepKeeps ==
    ASSUME EndpointInv, NEW e \in Ends, NEW t, OwnInv(e, t), Grows(ws[e], t),
           ReadsInOrder(e, t, ws[Peer(e)]), ws' = [ws EXCEPT ![e] = t], open' \in BOOLEAN
    PROVE  EndpointInv'
<1> DEFINE p == Peer(e)
<1>1. p \in Ends /\ p # e /\ Peer(p) = e
  BY PeerProperties
<1>2. \A x \in Ends : x = e \/ x = p
  BY DEF Ends, Peer
<1>3. DOMAIN ws = Ends /\ \A x \in Ends : OwnInv(x, ws[x]) /\ ReadsInOrder(x, ws[x], ws[Peer(x)])
  BY DEF EndpointInv
<1>4. DOMAIN ws' = Ends /\ ws'[e] = t /\ ws'[p] = ws[p]
  BY <1>1, <1>3
<1> HIDE DEF p
<1>5. OwnInv(p, ws[p]) /\ ReadsInOrder(p, ws[p], ws[e])
  BY <1>1, <1>3
<1>6. ws[e] \in Sockets(e) /\ t \in Sockets(e) /\ ws[p] \in Sockets(p)
  BY <1>3, <1>5 DEF OwnInv
<1>7. ReadsInOrder(p, ws[p], t)
  BY ONLY <1>1, <1>5, <1>6, Grows(ws[e], t), ReadsExtend
<1>8. \A x \in Ends : OwnInv(x, ws'[x]) /\ ReadsInOrder(x, ws'[x], ws'[Peer(x)])
  <2>1. OwnInv(e, ws'[e]) /\ ReadsInOrder(e, ws'[e], ws'[Peer(e)])
    BY <1>4 DEF p
  <2>2. OwnInv(p, ws'[p]) /\ ReadsInOrder(p, ws'[p], ws'[Peer(p)])
    BY <1>1, <1>4, <1>5, <1>7
  <2> QED BY <1>2, <2>1, <2>2
<1> QED BY <1>4, <1>8 DEF EndpointInv

\* A step of one end that reads nothing.
LEMMA QuietStepKeeps ==
    ASSUME EndpointInv, NEW e \in Ends, NEW t, OwnInv(e, t), Grows(ws[e], t), Quiet(ws[e], t),
           ws' = [ws EXCEPT ![e] = t], open' \in BOOLEAN
    PROVE  EndpointInv'
<1>1. ReadsInOrder(e, ws[e], ws[Peer(e)])
  BY DEF EndpointInv
<1>2. ReadsInOrder(e, t, ws[Peer(e)])
  BY <1>1, QuietDelivers, DeliveredReads
<1> QED BY <1>2, EndStepKeeps

\* The two fresh sockets.
LEMMA EndpointInitKeeps ==
    ASSUME EndpointInit
    PROVE  EndpointInv
<1>1. ASSUME NEW e \in Ends, NEW a \in BOOLEAN, a <=> e = "broker"
      PROVE  OwnInv(e, NewSocket(e, a)) /\ Arrived(NewSocket(e, a)) = <<>>
             /\ NewSocket(e, a).read = 0 /\ NewSocket(e, a).log = <<>>
  <2> DEFINE s == NewSocket(e, a)
             q == <<>>
             pr == [m \in Messages(e) |-> "none"]
             acc == IF a THEN "done" ELSE "handler"
             rs == IF e \notin Native THEN "none" ELSE IF a THEN "open" ELSE "connecting"
  <2>1. /\ s.accepted = a /\ s.acceptWritten = a /\ s.accept = acc
        /\ s.closeSent = FALSE /\ s.destroyed = FALSE /\ s.timer = FALSE
        /\ s.sendQueue = q /\ s.flushing = q /\ s.outboundQueue = q /\ s.writing = 0
        /\ s.inboundQueue = q /\ s.processing = FALSE /\ s.paused = FALSE
        /\ s.promise = pr /\ s.sends = 0
        /\ s.log = q /\ s.read = 0 /\ s.writable = "open" /\ s.closed = FALSE
        /\ s.received = q /\ s.closeEvents = 0 /\ s.early = 0
    BY DEF NewSocket
  <2>2. /\ acc \in {"handler", "writing", "done"} /\ pr \in [Messages(e) -> Statuses]
        /\ rs \in {"none", "connecting", "open", "closing", "closed"}
        /\ 0 \in 0 .. MaxSends[e]
    BY MessageTypes DEF Statuses
  <2>3. /\ q \in Seq(Messages(e)) /\ q \in Seq(Messages(Peer(e))) /\ q \in Seq(Frames(e))
        /\ Len(q) = 0 /\ DOMAIN q = {} /\ q = <<>>
    OBVIOUS
  <2>4. s \in Sockets(e)
    <3>1. s = [accepted |-> a, acceptWritten |-> a, accept |-> acc,
               closeSent |-> FALSE, destroyed |-> FALSE, timer |-> FALSE,
               sendQueue |-> q, flushing |-> q, outboundQueue |-> q, writing |-> 0,
               inboundQueue |-> q, processing |-> FALSE, paused |-> FALSE,
               promise |-> pr, sends |-> 0,
               log |-> q, read |-> 0, writable |-> "open", closed |-> FALSE,
               received |-> q, closeEvents |-> 0, early |-> 0, readyState |-> rs]
      BY DEF NewSocket
    <3> HIDE DEF s, q, pr, acc, rs
    <3> QED BY ONLY a \in BOOLEAN, <2>2, <2>3, <3>1 DEF Sockets
  <2>5. Elements(q) = {} /\ Arrived(s) = <<>>
    BY <2>1, EmptyProperties DEF Arrived
  <2>6. \A m \in Messages(e) : s.promise[m] # "pending"
    BY <2>1
  <2>7. acc = "handler" <=> ~a
    OBVIOUS
  <2>8. acc = "done" <=> a
    OBVIOUS
  <2> HIDE DEF s, q, pr, acc, rs
  <2>9. Bounded(s)
    BY <2>1, <2>3, MessageTypes DEF Bounded
  <2>10. StagesInStep(s)
    BY <2>1, <2>2, <2>3, <2>7, <2>8 DEF StagesInStep
  <2>11. CloseOnce(s) /\ PauseHeld(s) /\ SendsHeld(e, s)
    BY <2>1, <2>6 DEF CloseOnce, PauseHeld, SendsHeld
  <2>12. \A m : ~Logged(s, m)
    BY <2>1, <2>3 DEF Logged
  <2>13. LogInOrder(e, s)
    BY <2>1, <2>3 DEF LogInOrder
  <2>14. FirstInOrder(e, s)
    BY <2>1, <2>3, <2>12 DEF FirstInOrder
  <2>15. SecondInOrder(e, s)
    <3>1. \A m \in Messages(e) : ~(m <= 0)
      BY MessageTypes
    <3> QED BY <2>1, <2>3, <2>12, <3>1 DEF SecondInOrder
  <2>16. e = "guest" => AcceptFirst(s)
    BY <1>1, <2>1, <2>3 DEF AcceptFirst
  <2>17. OwnInv(e, s)
    BY <2>4, <2>9, <2>10, <2>11, <2>13, <2>14, <2>15, <2>16 DEF OwnInv
  <2> QED BY <2>1, <2>3, <2>5, <2>17 DEF s
<1>2. DOMAIN ws = Ends /\ \A e \in Ends : ws[e] = NewSocket(e, e = "broker")
  BY DEF EndpointInit
<1>3. \A e \in Ends : OwnInv(e, ws[e]) /\ Arrived(ws[e]) = <<>> /\ ws[e].read = 0
                         /\ ws[e].log = <<>>
  BY <1>1, <1>2
<1>4. ASSUME NEW e \in Ends PROVE ReadsInOrder(e, ws[e], ws[Peer(e)])
  <2>1. Arrived(ws[e]) = <<>> /\ ws[e].read = 0 /\ ws[Peer(e)].log = <<>>
    BY <1>3, PeerProperties
  <2>2. DOMAIN <<>> = {} /\ Len(<<>>) = 0 /\ 1 .. 0 = {}
    OBVIOUS
  <2> QED BY <2>1, <2>2 DEF ReadsInOrder
<1> QED BY <1>2, <1>3, <1>4 DEF EndpointInv, EndpointInit

\* Moving the position in the peer's log changes nothing else.
LEMMA ReadProperties ==
    ASSUME NEW e \in Ends, NEW s \in Sockets(e), NEW n \in Nat, NEW u,
           u = [s EXCEPT !.read = n]
    PROVE  /\ u \in Sockets(e)
           /\ u.read = n /\ SameStage(s, u) /\ SameEnd(s, u) /\ SameQueues(s, u)
           /\ u.log = s.log /\ u.inboundQueue = s.inboundQueue /\ u.received = s.received
           /\ u.processing = s.processing /\ u.paused = s.paused
<1>1. u \in Sockets(e)
  BY DEF Sockets
<1>2. /\ u.read = n /\ SameStage(s, u) /\ SameEnd(s, u) /\ SameQueues(s, u)
      /\ u.log = s.log /\ u.inboundQueue = s.inboundQueue /\ u.received = s.received
      /\ u.processing = s.processing /\ u.paused = s.paused
  BY DEF Sockets, SameStage, SameEnd, SameQueues
<1> QED BY <1>1, <1>2

\* The Host has read the first line of the lease stream: it is no message.
LEMMA FirstLineRead ==
    ASSUME EndpointInv, ws["broker"].read = 0, ws["guest"].log # <<>>,
           NEW u, u = [ws["broker"] EXCEPT !.read = 1]
    PROVE  /\ OwnInv("broker", u) /\ Grows(ws["broker"], u)
           /\ ReadsInOrder("broker", u, ws["guest"])
<1> DEFINE s == ws["broker"]
           from == ws["guest"]
<1>1. "broker" \in Ends /\ "guest" \in Ends /\ Peer("broker") = "guest"
  BY DEF Ends, Peer
<1>2. /\ OwnInv("broker", s) /\ OwnInv("guest", from) /\ ReadsInOrder("broker", s, from)
  BY <1>1 DEF EndpointInv
<1>3. s.read = 0 /\ from.log # <<>> /\ u = [s EXCEPT !.read = 1]
  OBVIOUS
<1> HIDE DEF s, from
<1>4. s \in Sockets("broker") /\ from \in Sockets("guest") /\ AcceptFirst(from)
  BY <1>2 DEF OwnInv
<1>5. u \in Sockets("broker")
  BY ONLY <1>1, <1>3, <1>4, ReadProperties
<1>6. /\ u.read = 1 /\ SameStage(s, u) /\ SameEnd(s, u) /\ SameQueues(s, u) /\ u.log = s.log
      /\ u.inboundQueue = s.inboundQueue /\ u.received = s.received
      /\ u.processing = s.processing /\ u.paused = s.paused
  BY ONLY <1>1, <1>3, <1>4, ReadProperties
<1>7. from.log \in Seq(Frames("guest"))
  BY ONLY <1>4 DEF Sockets
<1>8. 0 < Len(from.log) /\ 1 \in DOMAIN from.log
  BY ONLY <1>3, <1>7
<1>9. from.log[1].type # "data"
  <2>1. \A j \in 1 .. 1 : j = 1
    OBVIOUS
  <2>2. from.log[1].type = "data" => \E j \in 1 .. 1 : from.log[j].type = "accept"
    BY ONLY <1>4, <1>8 DEF AcceptFirst
  <2> QED BY ONLY <2>1, <2>2
<1> HIDE DEF s, from
<1>10. Closable("broker", s) /\ SecondInOrder("broker", s) /\ PauseHeld(s)
  BY ONLY <1>1, <1>2, OwnParts
<1>11. Len(u.inboundQueue) <= Cap
  BY ONLY <1>2, <1>6 DEF OwnInv, Bounded
<1>12. Closable("broker", u) /\ Grows(s, u) /\ SecondInOrder("broker", u)
  BY ONLY <1>1, <1>5, <1>6, <1>10, <1>11, InboundKeeps
<1>13. PauseHeld(u)
  BY ONLY <1>6, <1>10 DEF PauseHeld, SameEnd
<1>14. OwnInv("broker", u)
  BY ONLY <1>1, <1>12, <1>13, OwnParts
<1>15. /\ Arrived(u) = Arrived(s) /\ u.read = s.read + 1 /\ s.read < Len(from.log)
       /\ (s.closeSent => u.closeSent) /\ (s.destroyed => u.destroyed)
       /\ from.log[s.read + 1].type # "data"
  <2>1. s.read + 1 = 1
    BY ONLY <1>3
  <2>2. u.read = s.read + 1 /\ s.read < Len(from.log) /\ from.log[s.read + 1].type # "data"
    BY ONLY <1>3, <1>6, <1>8, <1>9, <2>1
  <2>3. u.closeSent = s.closeSent /\ u.destroyed = s.destroyed
    BY ONLY <1>6 DEF SameEnd
  <2>4. Arrived(u) = Arrived(s)
    BY ONLY <1>6 DEF Arrived
  <2> QED BY ONLY <2>2, <2>3, <2>4, Zenon
<1>16. ReadsInOrder("broker", u, from)
  <2>1. from \in Sockets(Peer("broker"))
    BY <1>1, <1>4
  <2> QED BY ONLY <1>1, <1>2, <1>4, <2>1, <1>15, ReadsPass
<1> QED BY <1>12, <1>14, <1>16 DEF s, from

\* The steps of one end.
LEMMA EndKeeps ==
    ASSUME EndpointInv, NEW e \in Ends,
           AppStep(e) \/ SocketStep(e) \/ ListenerFails(e) \/ StreamClose(e)
    PROVE  EndpointInv'
<1> DEFINE s == ws[e]
           from == ws[Peer(e)]
<1>1. /\ OwnInv(e, s) /\ OwnInv(Peer(e), from) /\ ReadsInOrder(e, s, from)
      /\ open \in BOOLEAN /\ DOMAIN ws = Ends
  BY PeerProperties DEF EndpointInv
<1>2. s \in Sockets(e) /\ from \in Sockets(Peer(e))
  BY <1>1 DEF OwnInv
<1>3. /\ s.read \in Nat /\ s.sends \in Nat /\ Len(from.log) \in Nat
      /\ s.readyState \in {"none", "connecting", "open", "closing", "closed"}
  <2>1. from.log \in Seq(Frames(Peer(e)))
    BY ONLY <1>2 DEF Sockets
  <2>2. s.read \in Nat /\ s.sends \in 0 .. MaxSends[e]
        /\ s.readyState \in {"none", "connecting", "open", "closing", "closed"}
    BY ONLY <1>2 DEF Sockets
  <2> QED BY ONLY <2>1, <2>2, MessageTypes, e \in Ends
<1>4. Listeners(e) \subseteq {"sync", "async", "throws"}
  BY DEF Listeners
<1>5. ASSUME NEW t, OwnInv(e, t), Grows(s, t), Quiet(s, t), ws' = [ws EXCEPT ![e] = t],
             open' = open
      PROVE  EndpointInv'
  BY <1>1, <1>5, QuietStepKeeps
<1>6. ASSUME NEW t, OwnInv(e, t), Grows(s, t), ReadsInOrder(e, t, from),
             ws' = [ws EXCEPT ![e] = t], open' = open
      PROVE  EndpointInv'
  BY <1>1, <1>6, EndStepKeeps
<1>7. CASE send(e)
  <2> DEFINE t == SendResult([s EXCEPT !.sends = s.sends + 1], s.sends + 1)
  <2>1. s.sends < MaxSends[e] /\ ws' = [ws EXCEPT ![e] = t] /\ open' = open
    BY <1>7 DEF send
  <2>2. OwnInv(e, t) /\ Grows(s, t) /\ Quiet(s, t)
    BY ONLY e \in Ends, <1>1, <2>1, SendKeeps
  <2> HIDE DEF t, s
  <2> QED BY <1>5, <2>1, <2>2
<1>8. CASE close(e)
  <2> DEFINE t == [CloseSocket(s) EXCEPT !.readyState = IF @ = "none" THEN @ ELSE "closing"]
  <2>1. ws' = [ws EXCEPT ![e] = t] /\ open' = open
    BY <1>8 DEF close
  <2>2. OwnInv(e, t) /\ Grows(s, t) /\ Quiet(s, t)
    BY ONLY e \in Ends, <1>1, CloseKeeps
  <2> HIDE DEF t, s
  <2> QED BY <1>5, <2>1, <2>2
<1>9. CASE terminate(e)
  <2> DEFINE t == [EmitClose(failOutboundQueue(s)) EXCEPT !.destroyed = TRUE, !.writable = "reset"]
  <2>1. ~s.destroyed /\ ws' = [ws EXCEPT ![e] = t] /\ open' = open
    BY <1>9 DEF terminate
  <2>2. OwnInv(e, t) /\ Grows(s, t) /\ Quiet(s, t)
    BY ONLY e \in Ends, <1>1, <2>1, TerminateKeeps
  <2> HIDE DEF t, s
  <2> QED BY <1>5, <2>1, <2>2
<1>10. CASE NativeCloseInvalid(e)
  <2> DEFINE t == [s EXCEPT !.readyState = "closing"]
  <2>1. ws' = [ws EXCEPT ![e] = t] /\ open' = open
    BY <1>10 DEF NativeCloseInvalid
  <2>2. OwnInv(e, t) /\ Grows(s, t) /\ Quiet(s, t)
    BY ONLY e \in Ends, <1>1, ReadyStateKeeps
  <2> HIDE DEF t, s
  <2> QED BY <1>5, <2>1, <2>2
<1>11. CASE FlushResume(e)
  <2> DEFINE t == FlushNext([Settle(s, {Head(s.flushing)}, "resolved") EXCEPT
                                 !.flushing = Tail(@)])
             u == pumpOutboundQueue([Settle(s, Elements(s.flushing), "rejected") EXCEPT
                                        !.flushing = <<>>])
  <2>1. /\ s.flushing # <<>> /\ open' = open
        /\ \/ ws' = [ws EXCEPT ![e] = t]
           \/ Unwritable(s) /\ ws' = [ws EXCEPT ![e] = u]
    BY <1>11 DEF FlushResume
  <2>2. OwnInv(e, t) /\ Grows(s, t) /\ Quiet(s, t)
    BY ONLY e \in Ends, <1>1, <2>1, FlushWrittenKeeps
  <2>3. Unwritable(s) => OwnInv(e, u) /\ Grows(s, u) /\ Quiet(s, u)
    BY ONLY e \in Ends, <1>1, <2>1, FlushRefusedKeeps
  <2> HIDE DEF t, u, s
  <2> QED BY <1>5, <2>1, <2>2, <2>3
<1>12. CASE PumpResume(e)
  <2> DEFINE t == pumpOutboundQueue([Settle(s, {s.writing}, "resolved") EXCEPT !.writing = 0])
             u == failOutboundQueue([Settle(s, {s.writing}, "rejected") EXCEPT !.writing = 0])
  <2>1. /\ s.writing # 0 /\ open' = open
        /\ \/ ws' = [ws EXCEPT ![e] = t]
           \/ Unwritable(s) /\ ws' = [ws EXCEPT ![e] = u]
    BY <1>12 DEF PumpResume
  <2>2. OwnInv(e, t) /\ Grows(s, t) /\ Quiet(s, t)
    BY ONLY e \in Ends, <1>1, <2>1, PumpWrittenKeeps
  <2>3. Unwritable(s) => OwnInv(e, u) /\ Grows(s, u) /\ Quiet(s, u)
    BY ONLY e \in Ends, <1>1, <2>1, PumpRefusedKeeps
  <2> HIDE DEF t, u, s
  <2> QED BY <1>5, <2>1, <2>2, <2>3
<1>13. CASE processIncoming(e)
  <2>1. PICK n \in 1 .. Len(Unread(e)), listener \in Listeners(e) :
            ws' = [ws EXCEPT ![e] = Parsed(s, from.log, n, listener)]
    BY <1>13 DEF processIncoming
  <2>2. open' = open
    BY <1>13 DEF processIncoming
  <2> DEFINE t == Parsed(s, from.log, n, listener)
  <2>3. n \in Nat /\ s.read + n <= Len(from.log)
    <3>1. s.read <= Len(from.log)
      BY ONLY <1>1 DEF ReadsInOrder
    <3>2. from.log \in Seq(Frames(Peer(e)))
      BY ONLY <1>2 DEF Sockets
    <3>3. Len(Unread(e)) = Len(from.log) - s.read
      BY ONLY <1>3, <3>1, <3>2 DEF Unread
    <3> QED BY ONLY <1>3, <3>3, n \in 1 .. Len(Unread(e))
  <2>4. ws' = [ws EXCEPT ![e] = t]
    BY <2>1
  <2>5. OwnInv(e, t) /\ Grows(s, t) /\ ReadsInOrder(e, t, from)
    BY ONLY e \in Ends, <1>1, <1>4, listener \in Listeners(e), <2>3, ParsedKeeps
  <2> HIDE DEF t, s, from
  <2> QED BY <1>6, <2>2, <2>4, <2>5
<1>14. CASE ListenerDone(e) \/ ListenerFails(e)
  <2> DEFINE u == [s EXCEPT !.processing = FALSE]
  <2>1. /\ Closable(e, s) /\ SecondInOrder(e, s) /\ Len(s.inboundQueue) <= Cap
    BY ONLY e \in Ends, <1>1, OwnParts DEF OwnInv, Bounded
  <2>2. /\ u \in Sockets(e) /\ SameStage(s, u) /\ SameEnd(s, u) /\ SameQueues(s, u)
        /\ u.log = s.log /\ u.inboundQueue = s.inboundQueue /\ u.received = s.received
        /\ u.read = s.read
    BY ONLY <1>2 DEF Sockets, SameStage, SameEnd, SameQueues
  <2>3. Delivers(s, u)
    BY ONLY <2>2 DEF Delivers, Arrived, SameEnd
  <2>4. \/ \E listener \in {"sync", "async", "throws"} :
              ws' = [ws EXCEPT ![e] = processInboundQueue(u, listener)]
        \/ ws' = [ws EXCEPT ![e] = Resumed(CloseSocket(u))]
    BY <1>4, <1>14 DEF ListenerDone, ListenerFails, handleProtocolFault
  <2>5. open' = open
    BY <1>14 DEF ListenerDone, ListenerFails
  <2> HIDE DEF u
  <2>6. Closable(e, u) /\ SecondInOrder(e, u) /\ Grows(s, u)
    BY ONLY e \in Ends, <2>1, <2>2, InboundKeeps
  <2>7. ASSUME NEW t, OwnInv(e, t), Grows(u, t), Delivers(u, t), ws' = [ws EXCEPT ![e] = t]
        PROVE  EndpointInv'
    <3>1. t \in Sockets(e)
      BY ONLY <2>7 DEF OwnInv
    <3>2. Grows(s, t)
      BY ONLY e \in Ends, <1>2, <2>2, <2>6, <2>7, <3>1, GrowsOn
    <3>3. Delivers(s, t)
      BY ONLY <2>3, <2>7, DeliversOn
    <3>4. ReadsInOrder(e, t, from)
      BY ONLY <1>1, <3>3, DeliveredReads
    <3> HIDE DEF s, from
    <3> QED BY <1>6, <2>5, <2>7, <3>2, <3>4
  <2>8. CASE ws' = [ws EXCEPT ![e] = Resumed(CloseSocket(u))]
    <3> DEFINE c == CloseSocket(u)
    <3>1. OwnInv(e, c) /\ Grows(u, c) /\ Quiet(u, c)
      BY ONLY e \in Ends, <2>6, CloseSocketKeeps
    <3> HIDE DEF c
    <3>2. Closable(e, c) /\ SecondInOrder(e, c) /\ PauseHeld(c) /\ c \in Sockets(e)
      BY ONLY e \in Ends, <3>1, OwnParts DEF OwnInv
    <3>3. OwnInv(e, Resumed(c)) /\ Grows(c, Resumed(c)) /\ Delivers(c, Resumed(c))
      BY ONLY e \in Ends, <3>2, ResumedKeeps
    <3> DEFINE t == Resumed(c)
    <3> HIDE DEF t
    <3>4. OwnInv(e, t) /\ Grows(c, t) /\ Delivers(c, t)
      BY <3>3 DEF t
    <3>5. t \in Sockets(e)
      BY ONLY <3>4 DEF OwnInv
    <3>6. Grows(u, t)
      BY ONLY e \in Ends, <2>2, <3>1, <3>2, <3>4, <3>5, GrowsOn
    <3>7. Delivers(u, t)
      BY ONLY <3>1, <3>4, QuietDelivers, DeliversOn
    <3>8. ws' = [ws EXCEPT ![e] = t]
      BY <2>8 DEF t, c
    <3> QED BY ONLY <2>7, <3>4, <3>6, <3>7, <3>8
  <2>9. ASSUME NEW listener \in {"sync", "async", "throws"},
               ws' = [ws EXCEPT ![e] = processInboundQueue(u, listener)]
        PROVE  EndpointInv'
    <3> DEFINE t == processInboundQueue(u, listener)
    <3>1. OwnInv(e, t) /\ Grows(u, t) /\ Delivers(u, t)
      BY ONLY e \in Ends, <2>6, listener \in {"sync", "async", "throws"}, ProcessKeeps
    <3>2. ws' = [ws EXCEPT ![e] = t]
      BY <2>9
    <3> HIDE DEF t
    <3> QED BY ONLY <2>7, <3>1, <3>2
  <2> QED BY <2>4, <2>8, <2>9
<1>15. CASE CloseTimeout(e)
  <2> DEFINE t == IF s.destroyed THEN [s EXCEPT !.timer = FALSE]
                  ELSE EmitClose([failOutboundQueue(s) EXCEPT
                           !.timer = FALSE, !.destroyed = TRUE, !.writable = "reset"])
  <2>1. ws' = [ws EXCEPT ![e] = t] /\ open' = open
    BY <1>15 DEF CloseTimeout
  <2>2. OwnInv(e, t) /\ Grows(s, t) /\ Quiet(s, t)
    BY ONLY e \in Ends, <1>1, TimeoutKeeps
  <2> HIDE DEF t, s
  <2> QED BY <1>5, <2>1, <2>2
<1>16. CASE StreamEnd(e)
  <2>1. ws' = [ws EXCEPT ![e] = StreamGone(s)] /\ open' = open
    BY <1>16 DEF StreamEnd
  <2>2. OwnInv(e, StreamGone(s)) /\ Grows(s, StreamGone(s)) /\ Quiet(s, StreamGone(s))
    BY ONLY e \in Ends, <1>1, StreamGoneKeeps
  <2> HIDE DEF s
  <2> QED BY <1>5, <2>1, <2>2
<1>17. CASE StreamClose(e)
  <2> DEFINE t == [StreamGone(s) EXCEPT !.closed = TRUE]
  <2>1. ws' = [ws EXCEPT ![e] = t] /\ open' = open
    BY <1>17 DEF StreamClose
  <2>2. OwnInv(e, t) /\ Grows(s, t) /\ Quiet(s, t)
    BY ONLY e \in Ends, <1>1, StreamClosedKeeps
  <2> HIDE DEF t, s
  <2> QED BY <1>5, <2>1, <2>2
<1> QED BY <1>7, <1>8, <1>9, <1>10, <1>11, <1>12, <1>13, <1>14, <1>15, <1>16, <1>17
        DEF AppStep, SocketStep

\* The accept frame and the handshake behind it.
LEMMA HandshakeKeeps ==
    ASSUME EndpointInv, sendAccept \/ rejectOpen \/ AcceptWritten \/ webSocket
    PROVE  EndpointInv'
<1> DEFINE s == ws["guest"]
           b == ws["broker"]
<1>1. "broker" \in Ends /\ "guest" \in Ends /\ Peer("broker") = "guest" /\ Peer("guest") = "broker"
  BY DEF Ends, Peer
<1>2. /\ OwnInv("guest", s) /\ OwnInv("broker", b) /\ open \in BOOLEAN /\ DOMAIN ws = Ends
  BY <1>1 DEF EndpointInv
<1>3. ASSUME NEW t, OwnInv("guest", t), Grows(s, t), Quiet(s, t),
             ws' = [ws EXCEPT !["guest"] = t], open' = open
      PROVE  EndpointInv'
  BY <1>1, <1>2, <1>3, QuietStepKeeps
<1>4. CASE sendAccept
  <2> DEFINE a == IF s.destroyed THEN [DiscardSendQueue(s) EXCEPT !.accept = "done"]
                  ELSE WriteLine([s EXCEPT !.accepted = TRUE, !.accept = "writing"], "accept", 0)
             t == [a EXCEPT !.early = s.sends,
                            !.readyState = IF @ = "connecting" THEN "open" ELSE @]
  <2>1. s.accept = "handler" /\ ws' = [ws EXCEPT !["guest"] = t] /\ open' = open
    BY <1>4 DEF sendAccept
  <2>2. AcceptTried(s, a)
    BY DEF AcceptTried
  <2> HIDE DEF a
  <2>3. MarkedOpen(s, a, t)
    BY DEF MarkedOpen
  <2> HIDE DEF t
  <2>4. OwnInv("guest", t) /\ Grows(s, t) /\ Quiet(s, t)
    BY ONLY <1>1, <1>2, <2>1, <2>2, <2>3, AcceptKeeps
  <2> HIDE DEF s
  <2> QED BY <1>3, <2>1, <2>4
<1>5. CASE rejectOpen
  <2>1. PICK frame \in BOOLEAN :
            ws' = [ws EXCEPT !["guest"] =
                      [(IF frame THEN WriteLine(s, "error", 0) ELSE s) EXCEPT
                           !.accept = "done", !.writable = "reset"]]
    BY <1>5 DEF rejectOpen
  <2> DEFINE t == [(IF frame THEN WriteLine(s, "error", 0) ELSE s) EXCEPT
                       !.accept = "done", !.writable = "reset"]
  <2>2. ws' = [ws EXCEPT !["guest"] = t] /\ open' = open
    BY <1>5, <2>1 DEF rejectOpen
  <2>3. OwnInv("guest", t) /\ Grows(s, t) /\ Quiet(s, t)
    BY ONLY <1>1, <1>2, frame \in BOOLEAN, RejectKeeps
  <2> HIDE DEF t, s
  <2> QED BY <1>3, <2>2, <2>3
<1>6. CASE AcceptWritten
  <2> DEFINE t == FlushNext([s EXCEPT !.accept = "done", !.acceptWritten = TRUE,
                                      !.flushing = s.sendQueue, !.sendQueue = <<>>])
             u == [s EXCEPT !.accept = "done"]
  <2>1. /\ s.accept = "writing" /\ open' = open
        /\ \/ Frame("accept", 0) \in Elements(s.log) /\ ws' = [ws EXCEPT !["guest"] = t]
           \/ Unwritable(s) /\ ws' = [ws EXCEPT !["guest"] = u]
    BY <1>6 DEF AcceptWritten
  <2>2. Frame("accept", 0) \in Elements(s.log) =>
            OwnInv("guest", t) /\ Grows(s, t) /\ Quiet(s, t)
    BY ONLY <1>1, <1>2, <2>1, AcceptWrittenKeeps
  <2>3. Unwritable(s) => OwnInv("guest", u) /\ Grows(s, u) /\ Quiet(s, u)
    BY ONLY <1>1, <1>2, <2>1, AcceptFailedKeeps
  <2> HIDE DEF t, u, s
  <2> QED BY <1>3, <2>1, <2>2, <2>3
<1>7. CASE webSocket
  <2> DEFINE u == [b EXCEPT !.read = 1]
             w == [u EXCEPT !.writable = "reset"]
  <2>1. /\ b.read = 0 /\ s.log # <<>> /\ open' \in BOOLEAN
        /\ ws' = [ws EXCEPT !["broker"] = u] \/ ws' = [ws EXCEPT !["broker"] = w]
    <3>1. b.read = 0 /\ s.log # <<>> /\ open' \in BOOLEAN
      BY <1>2, <1>7 DEF webSocket
    <3>2. \/ ws' = [ws EXCEPT !["broker"].read = 1]
          \/ ws' = [ws EXCEPT !["broker"].read = 1, !["broker"].writable = "reset"]
      BY <1>7 DEF webSocket
    <3>3. [ws EXCEPT !["broker"].read = 1, !["broker"].writable = "reset"]
             = [ws EXCEPT !["broker"] = w]
      BY <1>1, <1>2
    <3> QED BY <3>1, <3>2, <3>3
  <2>2. OwnInv("broker", u) /\ Grows(b, u) /\ ReadsInOrder("broker", u, s)
    BY ONLY EndpointInv, <2>1, FirstLineRead
  <2> HIDE DEF u
  <2>3. OwnInv("broker", w) /\ Grows(u, w) /\ Quiet(u, w)
    BY ONLY <1>1, <2>2, ResetKeeps
  <2> HIDE DEF w
  <2>4. ReadsInOrder("broker", w, s)
    BY ONLY <2>2, <2>3, QuietDelivers, DeliveredReads
  <2>5. b \in Sockets("broker") /\ u \in Sockets("broker") /\ w \in Sockets("broker")
    BY ONLY <1>2, <2>2, <2>3 DEF OwnInv
  <2>6. Grows(b, w)
    BY ONLY <1>1, <2>2, <2>3, <2>5, GrowsOn
  <2>7. ASSUME NEW t, OwnInv("broker", t), Grows(b, t), ReadsInOrder("broker", t, s),
               ws' = [ws EXCEPT !["broker"] = t]
        PROVE  EndpointInv'
    BY <1>1, <2>1, <2>7, EndStepKeeps
  <2> QED BY <2>1, <2>2, <2>3, <2>4, <2>6, <2>7
<1> QED BY <1>4, <1>5, <1>6, <1>7

\* Every step keeps the invariant.
LEMMA EndpointStepKeeps ==
    ASSUME EndpointInv, [EndpointNext]_endpointVars
    PROVE  EndpointInv'
<1>1. CASE EndpointNext
  BY <1>1, EndKeeps, HandshakeKeeps DEF EndpointNext
<1>2. CASE UNCHANGED endpointVars
  BY <1>2 DEF endpointVars, EndpointInv
<1> QED BY <1>1, <1>2

(* The inductive invariant holds in every state the two sockets reach: for *)
(* any number of send() calls, any queue limit and either kind of socket.  *)
THEOREM EndpointInvariant == EndpointSpec => []EndpointInv
<1>1. EndpointInit => EndpointInv
  BY EndpointInitKeeps
<1>2. EndpointInv /\ [EndpointNext]_endpointVars => EndpointInv'
  BY EndpointStepKeeps
<1> QED BY <1>1, <1>2, PTL DEF EndpointSpec

(* Type correctness, the limits of the four queues included. *)
THEOREM EndpointTypeCorrect == EndpointSpec => []EndpointTypeOK
<1>1. EndpointInv => EndpointTypeOK
  <2> SUFFICES ASSUME EndpointInv PROVE EndpointTypeOK
    OBVIOUS
  <2>1. ASSUME NEW e \in Ends
        PROVE  /\ ws[e] \in Sockets(e) /\ ws[e].read <= Len(ws[Peer(e)].log)
               /\ Bounded(ws[e])
    BY DEF EndpointInv, OwnInv, ReadsInOrder
  <2>2. ASSUME NEW e \in Ends, NEW f \in {"sendQueue", "flushing", "outboundQueue", "inboundQueue"}
        PROVE  Len(ws[e][f]) <= Cap
    <3>1. CASE f = "sendQueue"
      BY <2>1, <3>1 DEF Bounded
    <3>2. CASE f = "flushing"
      BY <2>1, <3>2 DEF Bounded
    <3>3. CASE f = "outboundQueue"
      BY <2>1, <3>3 DEF Bounded
    <3>4. CASE f = "inboundQueue"
      BY <2>1, <3>4 DEF Bounded
    <3> QED BY <3>1, <3>2, <3>3, <3>4
  <2> QED BY <2>1, <2>2 DEF EndpointTypeOK, EndpointInv
<1> QED BY <1>1, EndpointInvariant, PTL

(* One 'close' event for each socket, from whichever of the close frame,   *)
(* the close timer, 'end', 'close' of the stream and terminate() comes     *)
(* first, and the timer runs until then once the close frame is sent.      *)
THEOREM OneCloseEvent == EndpointSpec => []CloseEventOnce
<1>1. EndpointInv => CloseEventOnce
  BY DEF EndpointInv, OwnInv, CloseOnce, CloseEventOnce
<1> QED BY <1>1, EndpointInvariant, PTL

(* What an end receives is in the order of the queue it was sent through,  *)
(* nothing twice and, until the end sends its close frame, nothing         *)
(* missing; no message of the Guest is in front of its accept frame.       *)
THEOREM DeliveryInOrder == EndpointSpec => []OrderedDelivery
<1>1. EndpointInv => AcceptBeforeData
  BY DEF EndpointInv, OwnInv, AcceptFirst, AcceptBeforeData, Ends
<1>2. EndpointInv => InOrderPerQueue
  <2> SUFFICES ASSUME EndpointInv, NEW e \in Ends, NEW i \in DOMAIN ws[e].received
               PROVE  LET from == ws[Peer(e)]
                          got == ws[e].received
                      IN  /\ \A j \in 1 .. (i - 1) :
                                SameQueue(from, got[j], got[i]) => got[j] < got[i]
                          /\ ~ws[e].closeSent =>
                                \A m \in 1 .. (got[i] - 1) :
                                    SameQueue(from, m, got[i]) =>
                                        \E j \in 1 .. (i - 1) : got[j] = m
    BY DEF InOrderPerQueue
  <2> DEFINE from == ws[Peer(e)]
             got == ws[e].received
             all == Arrived(ws[e])
  <2>1. got \in Seq(Messages(Peer(e))) /\ ws[e].inboundQueue \in Seq(Messages(Peer(e)))
    <3>1. ws[e] \in Sockets(e)
      BY DEF EndpointInv, OwnInv
    <3> QED BY ONLY <3>1 DEF Sockets
  <2>2. DOMAIN got \subseteq DOMAIN all /\ \A j \in DOMAIN got : all[j] = got[j]
    <3> DEFINE q == ws[e].inboundQueue
    <3>1. all = got \o q
      BY DEF Arrived
    <3>2. got \in Seq(Messages(Peer(e))) /\ q \in Seq(Messages(Peer(e)))
      BY <2>1
    <3> HIDE DEF q, got, all
    <3> QED BY ONLY <3>1, <3>2
  <2>3. i \in DOMAIN got /\ DOMAIN got = 1 .. Len(got) /\ Len(got) \in Nat
    BY <2>1
  <2>4. /\ \A j \in 1 .. (i - 1) : SameQueue(from, all[j], all[i]) => all[j] < all[i]
        /\ ~ws[e].closeSent =>
              \A m \in 1 .. (all[i] - 1) :
                  SameQueue(from, m, all[i]) => \E j \in 1 .. (i - 1) : all[j] = m
    <3>1. ReadsInOrder(e, ws[e], from)
      BY DEF EndpointInv
    <3>2. i \in DOMAIN all
      BY <2>2, <2>3
    <3> QED BY ONLY <3>1, <3>2 DEF ReadsInOrder
  <2> HIDE DEF from, got, all
  <2>5. \A j \in 1 .. (i - 1) : j \in DOMAIN got
    BY ONLY <2>3
  <2>6. all[i] = got[i] /\ \A j \in 1 .. (i - 1) : all[j] = got[j]
    BY ONLY <2>2, <2>3, <2>5
  <2>7. /\ \A j \in 1 .. (i - 1) : SameQueue(from, got[j], got[i]) => got[j] < got[i]
        /\ ~ws[e].closeSent =>
              \A m \in 1 .. (got[i] - 1) :
                  SameQueue(from, m, got[i]) => \E j \in 1 .. (i - 1) : got[j] = m
    BY ONLY <2>4, <2>6
  <2> QED BY <2>7 DEF from, got
<1>3. EndpointInv => OrderedDelivery
  BY <1>1, <1>2 DEF OrderedDelivery
<1> QED BY <1>3, EndpointInvariant, PTL

(* A paused stream has a listener that will resume it, or a socket that is *)
(* on its way down.                                                        *)
THEOREM PauseIsHeld == EndpointSpec => []NoStuckPause
<1>1. EndpointInv => NoStuckPause
  BY DEF EndpointInv, OwnInv, PauseHeld, NoStuckPause
<1> QED BY <1>1, EndpointInvariant, PTL

(* A pending send() of a live socket is in a queue with a writer behind it. *)
THEOREM SendsAreHeld == EndpointSpec => []NoForgottenSend
<1>1. EndpointInv => NoForgottenSend
  BY DEF EndpointInv, OwnInv, SendsHeld, NoForgottenSend
<1> QED BY <1>1, EndpointInvariant, PTL
================================================================================
