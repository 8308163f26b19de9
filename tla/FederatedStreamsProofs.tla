------------------------- MODULE FederatedStreamsProofs -------------------------
(***************************************************************************)
(* Proofs about the two sides of a federation link.                         *)
(*                                                                          *)
(* FederatedStreams, for any number of streams and requests, any pool sizes *)
(* and any queue limit: the invariant StreamInv, and that the two Hosts     *)
(* implement StreamPairing.                                                 *)
(*                                                                          *)
(* FederationRoutes, for any set of Hosts and links, any hop limit and any  *)
(* number of faults: no route has a loop; and the invariant LinkInv, which  *)
(* keeps what a Host imports within the links it has.                       *)
(***************************************************************************)
EXTENDS FederatedStreams, FederationRoutes, FiniteSetTheorems, ArrayProofs, TLAPS

UpStates == {"none", "open", "closed"}

DownEnds == [Streams -> {"none", "opening", "answered", "open", "closed"}]

\* The types of the downstream Host's variables.
DownTypes ==
    /\ link \in {"down", "connecting", "up"}
    /\ pool \in SUBSET Streams /\ active \in SUBSET Streams
    /\ single \in Streams \cup {None} /\ opening \in Streams \cup {None}
    /\ downEnd \in DownEnds

\* The streams of the entry are streams.
LEMMA KnownStreams ==
    ASSUME TypeOK
    PROVE  Elements(requestStreams) \subseteq Streams /\ Elements(waiters) \subseteq Waiters
BY DEF TypeOK, Elements

\* openUpstreamRequestStream takes a stream nobody knows of.
LEMMA OpenEffect ==
    ASSUME TypeOK, NEW ends \in DownEnds,
           Open(ends) \/ (opening' \in Streams \cup {None} /\ downEnd' = ends)
    PROVE  /\ opening' \in Streams \cup {None}
           /\ downEnd' \in DownEnds
           /\ \A s \in Streams : downEnd'[s] = ends[s] \/ s \in Unused
<1>1. CASE Open(ends)
  <2>1. NextStream \in Unused
    BY <1>1 DEF Open, NextStream
  <2>2. NextStream \in Streams
    BY <2>1 DEF Unused
  <2> QED BY <1>1, <2>1, <2>2 DEF Open, DownEnds
<1>2. CASE opening' \in Streams \cup {None} /\ downEnd' = ends
  BY <1>2
<1> QED BY <1>1, <1>2

\* What the downstream Host does keeps the invariant, and the upstream Host sees
\* nothing of it yet.
LEMMA DownstreamStep ==
    ASSUME StreamInv, DownTypes', UNCHANGED <<policy, tableVars, requestVars, upEnd>>,
           \A s \in Streams : downEnd'[s] = "opening" => downEnd[s] = "opening" \/ s \in Unused
    PROVE  StreamInv' /\ UNCHANGED Pool!pairing
<1> USE DEF StreamInv
<1>1. TypeOK'
  BY DEF TypeOK, DownTypes, DownEnds, tableVars, requestVars
<1>2. OpeningIsNew' /\ OneHolder'
  BY DEF OpeningIsNew, OneHolder, Unused, requestVars
<1>3. EntryKnowsAttached' /\ EntryShape'
  BY DEF EntryKnowsAttached, EntryShape, tableVars, Attached
<1>4. HeldIsCounted' /\ LeftIsCounted'
  BY DEF HeldIsCounted, LeftIsCounted, Attached, tableVars, requestVars
<1>5. QueueSound' /\ StreamWaitersServed'
  BY DEF QueueSound, StreamWaitersServed, SingleFree, tableVars, requestVars
<1>6. NoStreamLost'
  BY DEF NoStreamLost, Holds, tableVars, requestVars
<1>7. UNCHANGED Pool!pairing
  BY DEF Pool!pairing, PairedStream, Holds, requestVars
<1> QED BY <1>1, <1>2, <1>3, <1>4, <1>5, <1>6, <1>7

\* Nothing the downstream Host does by itself disturbs the upstream one.
LEMMA DownstreamInv ==
    ASSUME StreamInv, NEW s \in Streams,
           StreamOpened(s) \/ StreamReadable(s) \/ StreamCloses(s) \/ StreamCloseEvent(s)
    PROVE  StreamInv' /\ UNCHANGED Pool!pairing
<1>0. TypeOK /\ UNCHANGED <<policy, tableVars, requestVars, upEnd>>
  BY DEF StreamInv, StreamOpened, StreamReadable, StreamCloses, StreamCloseEvent
<1>1. link' \in {"down", "connecting", "up"} /\ single' \in Streams \cup {None}
  BY <1>0 DEF TypeOK, StreamOpened, StreamReadable, StreamCloses, StreamCloseEvent, linkVars
<1>2. pool' \in SUBSET Streams /\ active' \in SUBSET Streams
  BY <1>0 DEF TypeOK, StreamOpened, StreamReadable, StreamCloses, StreamCloseEvent, Replenish,
              linkVars
<1>3. PICK ends \in DownEnds :
        /\ Open(ends) \/ (opening' \in Streams \cup {None} /\ downEnd' = ends)
        /\ \A t \in Streams : ends[t] = "opening" => downEnd[t] = "opening"
  <2>1. /\ downEnd \in DownEnds /\ opening \in Streams \cup {None}
        /\ \A e \in {"none", "open", "closed"} :
             /\ [downEnd EXCEPT ![s] = e] \in DownEnds
             /\ \A t \in Streams : [downEnd EXCEPT ![s] = e][t] = "opening" => downEnd[t] = "opening"
    BY <1>0 DEF TypeOK, DownEnds
  <2>2. CASE StreamOpened(s)
    BY <2>1, <2>2 DEF StreamOpened, Maintain
  <2>3. CASE StreamReadable(s)
    BY <2>1, <2>3 DEF StreamReadable, Maintain
  <2>4. CASE StreamCloses(s)
    BY <2>1, <2>4 DEF StreamCloses, linkVars
  <2>5. CASE StreamCloseEvent(s)
    BY <2>1, <2>5 DEF StreamCloseEvent, Replenish, Maintain
  <2> QED BY <2>2, <2>3, <2>4, <2>5
<1>4. /\ opening' \in Streams \cup {None} /\ downEnd' \in DownEnds
      /\ \A t \in Streams : downEnd'[t] = ends[t] \/ t \in Unused
  BY <1>0, <1>3, OpenEffect
<1> QED BY <1>0, <1>1, <1>2, <1>3, <1>4, DownstreamStep DEF DownTypes

LEMMA LinkLostInv ==
    ASSUME StreamInv, LinkLost
    PROVE  StreamInv' /\ UNCHANGED Pool!pairing
BY DownstreamStep DEF LinkLost, DownTypes, DownEnds, StreamInv, TypeOK

-----------------------------------------------------------------------------
(* The entry of the upstream Host *)

LEMMA NoEntryTypes ==
    ASSUME NoEntry
    PROVE  /\ requestPool' \in BOOLEAN /\ requestBusy' \in BOOLEAN
           /\ requestStreams' \in Seq(Streams)
           /\ busyStreams' \in SUBSET Streams
           /\ requestStream' \in Streams \cup {None}
<1>1. requestPool' \in BOOLEAN /\ requestBusy' \in BOOLEAN
  BY DEF NoEntry
<1>2. requestStreams' \in Seq(Streams)
  BY DEF NoEntry
<1>3. busyStreams' \in SUBSET Streams
  BY DEF NoEntry
<1>4. requestStream' \in Streams \cup {None}
  BY DEF NoEntry
<1> QED BY <1>1, <1>2, <1>3, <1>4

\* A deletion of the entry, or a fresh one, leaves nothing that could be lost: the
\* requests that have a stream keep it.
LEMMA NoEntryStep ==
    ASSUME StreamInv, TypeOK', NoEntry, UNCHANGED <<policy, assigned, left>>,
           \/ waiters' = <<>> /\ \A r \in Requests : request'[r] # "waiting"
           \/ UNCHANGED <<waiters, request>>,
           \A s \in Streams :
               /\ upEnd'[s] = "none" <=> upEnd[s] = "none"
               /\ downEnd'[s] = "opening" => downEnd[s] = "opening" \/ s \in Unused
    PROVE  StreamInv'
<1>0. /\ requestStreams' = <<>> /\ Elements(requestStreams') = {} /\ busyStreams' = {}
      /\ requestStream' = None /\ requestBusy' = FALSE /\ requestPool' = FALSE
  BY EmptyProperties DEF NoEntry
<1>1. EntryKnowsAttached'
  BY <1>0, EmptyProperties DEF EntryKnowsAttached
<1>2. EntryShape'
  BY <1>0 DEF EntryShape
<1>3. HeldIsCounted' /\ LeftIsCounted'
  BY <1>0, FederatedStreamsAssumption DEF HeldIsCounted, LeftIsCounted, Attached, StreamInv, TypeOK
<1>4. QueueSound' /\ StreamWaitersServed'
  BY <1>0, EmptyProperties DEF QueueSound, StreamWaitersServed, SingleFree, StreamInv
<1>5. NoStreamLost'
  BY <1>0, FederatedStreamsAssumption DEF NoStreamLost
<1>6. OpeningIsNew' /\ OneHolder'
  BY DEF OpeningIsNew, OneHolder, Unused, StreamInv
<1> QED BY <1>1, <1>2, <1>3, <1>4, <1>5, <1>6 DEF StreamInv

LEMMA ConnectUpstreamInv ==
    ASSUME StreamInv, ConnectUpstream
    PROVE  StreamInv' /\ UNCHANGED Pool!pairing
<1>1. /\ opening' \in Streams \cup {None} /\ downEnd' \in DownEnds
      /\ \A s \in Streams : downEnd'[s] = downEnd[s] \/ s \in Unused
  BY OpenEffect DEF ConnectUpstream, StreamInv, TypeOK, DownEnds
<1>2. TypeOK'
  BY <1>1, NoEntryTypes DEF ConnectUpstream, StreamInv, TypeOK, requestVars, DownEnds
<1>3. StreamInv'
  BY <1>1, <1>2, NoEntryStep DEF ConnectUpstream, requestVars
<1>4. UNCHANGED Pool!pairing
  BY DEF ConnectUpstream, requestVars, Pool!pairing, PairedStream, Holds
<1> QED BY <1>3, <1>4

\* removeInboundFederationHost: whoever waited fails, whoever has a stream keeps it.
LEMMA RemoveInboundHostInv ==
    ASSUME StreamInv, RemoveInboundHost, upEnd' \in [Streams -> UpStates],
           \A s \in Streams : upEnd'[s] = upEnd[s] \/ (upEnd[s] = "open" /\ upEnd'[s] = "closed")
    PROVE  StreamInv' /\ (UNCHANGED Pool!pairing \/ \E gone \in SUBSET Streams : Pool!Close(gone))
<1>1. TypeOK'
  <2>1. waiters' \in Seq(Waiters)
    BY DEF RemoveInboundHost
  <2>2. /\ request' \in [Requests -> {"idle", "waiting", "granted", "running"}]
        /\ assigned' \in [Requests -> Streams \cup {None}]
        /\ \A r \in Requests : assigned'[r] \in Streams <=> request'[r] \in {"granted", "running"}
    BY DEF RemoveInboundHost, StreamInv, TypeOK
  <2> QED BY <2>1, <2>2, NoEntryTypes DEF RemoveInboundHost, StreamInv, TypeOK, linkVars, UpStates
<1>2. StreamInv'
  <2>1. waiters' = <<>> /\ \A r \in Requests : request'[r] # "waiting"
    BY DEF RemoveInboundHost
  <2> QED BY <1>1, <2>1, NoEntryStep DEF RemoveInboundHost
<1>3. \A r \in Requests, s \in Streams : Holds(r, s)' <=> Holds(r, s)
  BY DEF RemoveInboundHost, Holds, StreamInv, TypeOK
<1> DEFINE gone == {s \in Streams : upEnd'[s] # "open"}
<1>4. assigned' = assigned
  BY DEF RemoveInboundHost
<1>5. PairedStream' = [s \in Streams |-> IF s \in gone THEN "closed" ELSE PairedStream[s]]
  BY <1>3 DEF PairedStream, RemoveInboundHost
<1>6. Pool!Close(gone)
  BY <1>4, <1>5 DEF Pool!Close
<1> QED BY <1>2, <1>6

LEMMA EntryRemovedInv ==
    ASSUME StreamInv, RouteStreamCloses \/ SessionCloses
    PROVE  StreamInv' /\ (UNCHANGED Pool!pairing \/ \E gone \in SUBSET Streams : Pool!Close(gone))
BY RemoveInboundHostInv DEF RouteStreamCloses, SessionCloses, StreamInv, TypeOK, UpStates

-----------------------------------------------------------------------------
(* Streams of the upstream Host close *)

\* Streams that close under whoever has them.
LEMMA CloseStep ==
    ASSUME StreamInv, UNCHANGED <<policy, tableVars, requestVars, linkVars, downEnd>>,
           upEnd' \in [Streams -> UpStates],
           \A s \in Streams : upEnd'[s] = upEnd[s] \/ (upEnd[s] = "open" /\ upEnd'[s] = "closed")
    PROVE  StreamInv' /\ \E gone \in SUBSET Streams : Pool!Close(gone)
<1> USE DEF StreamInv
<1>1. TypeOK'
  BY DEF TypeOK, tableVars, requestVars, linkVars, UpStates
<1>2. Elements(requestStreams) \subseteq Streams
  BY KnownStreams
<1>3. \A s \in Streams : Attached(s)' <=> Attached(s)
  BY DEF Attached
<1>4. EntryKnowsAttached'
  BY <1>2, <1>3 DEF EntryKnowsAttached, tableVars, TypeOK, Attached
<1>5. EntryShape'
  BY DEF EntryShape, tableVars
<1>6. HeldIsCounted' /\ LeftIsCounted'
  BY <1>2, <1>3 DEF HeldIsCounted, LeftIsCounted, tableVars, requestVars, TypeOK
<1>7. QueueSound' /\ StreamWaitersServed'
  BY <1>2 DEF QueueSound, StreamWaitersServed, SingleFree, TypeOK, tableVars, requestVars
<1>8. NoStreamLost' /\ OpeningIsNew' /\ OneHolder'
  BY DEF NoStreamLost, OpeningIsNew, OneHolder, Holds, tableVars, requestVars
<1> DEFINE gone == {s \in Streams : upEnd'[s] # "open"}
<1>9. PairedStream' = [s \in Streams |-> IF s \in gone THEN "closed" ELSE PairedStream[s]]
  BY DEF PairedStream, Holds, requestVars
<1>10. Pool!Close(gone)
  BY <1>9 DEF Pool!Close, requestVars
<1> QED BY <1>1, <1>4, <1>5, <1>6, <1>7, <1>8, <1>10

LEMMA UpEndClosesInv ==
    ASSUME StreamInv, NEW s \in Streams, UpEndCloses(s)
    PROVE  StreamInv' /\ \E gone \in SUBSET Streams : Pool!Close(gone)
BY CloseStep DEF UpEndCloses, StreamInv, TypeOK, UpStates

LEMMA CancelRunningInv ==
    ASSUME StreamInv, NEW r \in Requests, CancelRunning(r)
    PROVE  StreamInv' /\ \E gone \in SUBSET Streams : Pool!Close(gone)
<1>1. assigned[r] \in Streams
  BY DEF CancelRunning, StreamInv, TypeOK
<1> QED BY <1>1, CloseStep DEF CancelRunning, ReturnStream, StreamInv, TypeOK, UpStates

LEMMA UploadEndsInv ==
    ASSUME StreamInv, NEW s \in Streams, UploadEnds(s)
    PROVE  StreamInv' /\ \E gone \in SUBSET Streams : Pool!Close(gone)
BY CloseStep DEF UploadEnds, ReturnStream, StreamInv, TypeOK, UpStates

-----------------------------------------------------------------------------
(* Requests are given streams *)

\* To the pool, a grant takes the stream.
LEMMA GrantPairing ==
    ASSUME TypeOK, NEW r \in Requests, NEW s \in Streams, Grant(r, s), upEnd'[s] = "open",
           assigned[r] = None, \A t \in Streams \ {s} : upEnd'[t] = upEnd[t], UNCHANGED left
    PROVE  /\ PairedStream' = [PairedStream EXCEPT ![s] = "taken"]
           /\ assigned' = [assigned EXCEPT ![r] = s]
<1>1. /\ request'[r] = "granted" /\ assigned'[r] = s
      /\ \A q \in Requests \ {r} : request'[q] = request[q] /\ assigned'[q] = assigned[q]
  BY DEF Grant, TypeOK
<1>2. Holds(r, s)'
  BY <1>1 DEF Holds
<1>3. \A t \in Streams \ {s} : (\E q \in Requests : Holds(q, t)') <=> \E q \in Requests : Holds(q, t)
  BY <1>1, FederatedStreamsAssumption DEF Holds
<1>4. PairedStream' = [PairedStream EXCEPT ![s] = "taken"]
  BY <1>2, <1>3 DEF PairedStream
<1> QED BY <1>4 DEF Grant

\* An open stream of the entry that is not marked is nobody's.
LEMMA FreeIsFresh ==
    ASSUME StreamInv, NEW s \in Streams, upEnd[s] = "open",
           \/ s \in Elements(requestStreams) /\ s \notin busyStreams
           \/ ~requestPool /\ requestStream = s /\ ~requestBusy
    PROVE  PairedStream[s] = "fresh" /\ \A q \in Requests : assigned[q] # s
<1>1. \A q \in Requests : assigned[q] # s
  BY FederatedStreamsAssumption DEF StreamInv, HeldIsCounted
<1>2. left[s] = "no"
  BY DEF StreamInv, LeftIsCounted
<1> QED BY <1>1, <1>2 DEF PairedStream, Holds

\* The types and the queue after a request that is in no queue got a stream.
LEMMA GrantTypes ==
    ASSUME StreamInv, NEW r \in Requests, NEW s \in Streams, Grant(r, s)
    PROVE  /\ request' \in [Requests -> {"idle", "waiting", "granted", "running"}]
           /\ assigned' \in [Requests -> Streams \cup {None}]
           /\ \A q \in Requests : assigned'[q] \in Streams <=> request'[q] \in {"granted", "running"}
           /\ request'[r] = "granted" /\ assigned'[r] = s
           /\ \A q \in Requests \ {r} : request'[q] = request[q] /\ assigned'[q] = assigned[q]
BY DEF Grant, StreamInv, TypeOK

LEMMA AcquirePooledInv ==
    ASSUME StreamInv, NEW r \in Requests, AcquirePooled(r)
    PROVE  StreamInv' /\ \E s \in Streams : Pool!Take(r, s)
<1> USE DEF StreamInv
<1>0. PICK s \in Streams : /\ IsFirst(s, requestStreams, busyStreams)
                           /\ Grant(r, s)
                           /\ busyStreams' = busyStreams \cup {s}
  BY DEF AcquirePooled
<1>1. /\ s \in Elements(requestStreams) /\ s \notin busyStreams /\ upEnd[s] = "open"
      /\ upEnd' = upEnd /\ requestPool
      /\ UNCHANGED <<policy, linked, requestPool, requestStreams, requestStream, requestBusy,
                     waiters, left, linkVars, downEnd>>
  BY <1>0 DEF AcquirePooled, IsFirst, Usable
<1>2. assigned[r] = None /\ request[r] = "idle" /\ live' \in [Requests -> BOOLEAN]
  BY DEF AcquirePooled, TypeOK
<1>3. /\ request' \in [Requests -> {"idle", "waiting", "granted", "running"}]
      /\ assigned' \in [Requests -> Streams \cup {None}]
      /\ \A q \in Requests : assigned'[q] \in Streams <=> request'[q] \in {"granted", "running"}
      /\ request'[r] = "granted" /\ assigned'[r] = s
      /\ \A q \in Requests \ {r} : request'[q] = request[q] /\ assigned'[q] = assigned[q]
  BY <1>0, GrantTypes
<1>4. TypeOK'
  BY <1>0, <1>1, <1>2, <1>3 DEF TypeOK, linkVars
<1>5. EntryKnowsAttached'
  BY <1>0, <1>1 DEF EntryKnowsAttached, Attached
<1>6. EntryShape'
  BY <1>0, <1>1 DEF EntryShape
<1>7. HeldIsCounted' /\ LeftIsCounted' /\ OpeningIsNew'
  BY <1>0, <1>1, <1>3 DEF HeldIsCounted, LeftIsCounted, OpeningIsNew, Attached
<1>8. QueueSound' /\ StreamWaitersServed'
  <2>1. \A w \in Elements(waiters) : w.request \in Requests \ {r}
    BY <1>2, KnownStreams DEF QueueSound, Waiters
  <2>2. QueueSound'
    BY <2>1, <1>0, <1>1, <1>3 DEF QueueSound
  <2> QED BY <2>2, <1>0, <1>1, <1>3 DEF StreamWaitersServed
<1>9. NoStreamLost'
  BY <1>0, <1>1, <1>2, <1>3, FederatedStreamsAssumption DEF NoStreamLost, Holds
<1>10. Pool!Take(r, s)
  BY <1>0, <1>1, <1>2, GrantPairing, FreeIsFresh DEF Pool!Take
<1>11. OneHolder'
  BY <1>1, <1>3, FreeIsFresh DEF OneHolder
<1> QED BY <1>4, <1>5, <1>6, <1>7, <1>8, <1>9, <1>10, <1>11

LEMMA AcquireSingleInv ==
    ASSUME StreamInv, NEW r \in Requests, AcquireSingle(r)
    PROVE  StreamInv' /\ \E s \in Streams : Pool!Take(r, s)
<1> USE DEF StreamInv
<1> DEFINE s == requestStream
<1>1. /\ s \in Streams /\ upEnd[s] = "open" /\ ~requestBusy /\ requestBusy' /\ ~requestPool
      /\ requestBusy' \in BOOLEAN
      /\ Grant(r, s)
      /\ UNCHANGED <<policy, linked, requestPool, requestStreams, busyStreams, requestStream,
                     waiters, left, upEnd, linkVars, downEnd>>
  BY DEF AcquireSingle, SingleFree, TypeOK
<1>2. assigned[r] = None /\ request[r] = "idle" /\ live' \in [Requests -> BOOLEAN]
  BY DEF AcquireSingle, TypeOK
<1>3. /\ request' \in [Requests -> {"idle", "waiting", "granted", "running"}]
      /\ assigned' \in [Requests -> Streams \cup {None}]
      /\ \A q \in Requests : assigned'[q] \in Streams <=> request'[q] \in {"granted", "running"}
      /\ request'[r] = "granted" /\ assigned'[r] = s
      /\ \A q \in Requests \ {r} : request'[q] = request[q] /\ assigned'[q] = assigned[q]
  BY <1>1, GrantTypes
<1>4. TypeOK'
  BY <1>1, <1>2, <1>3 DEF TypeOK, linkVars
<1>5. EntryKnowsAttached'
  BY <1>1 DEF EntryKnowsAttached, Attached
<1>6. EntryShape'
  BY <1>1 DEF EntryShape
<1>7. HeldIsCounted' /\ LeftIsCounted' /\ OpeningIsNew'
  BY <1>1, <1>3, EmptyProperties
     DEF HeldIsCounted, LeftIsCounted, OpeningIsNew, Attached, EntryShape
<1>8. QueueSound' /\ StreamWaitersServed'
  <2>1. \A w \in Elements(waiters) : w.request \in Requests \ {r}
    BY <1>2, KnownStreams DEF QueueSound, Waiters
  <2>2. QueueSound'
    BY <2>1, <1>1, <1>3 DEF QueueSound
  <2> QED BY <2>2, <1>1, <1>3 DEF StreamWaitersServed, SingleFree
<1>9. NoStreamLost'
  BY <1>1, <1>2, <1>3, FederatedStreamsAssumption DEF NoStreamLost, Holds
<1>10. Pool!Take(r, s)
  BY <1>1, <1>2, GrantPairing, FreeIsFresh DEF Pool!Take
<1>11. OneHolder'
  BY <1>1, <1>3, FreeIsFresh DEF OneHolder
<1> QED BY <1>1, <1>4, <1>5, <1>6, <1>7, <1>8, <1>9, <1>10, <1>11

-----------------------------------------------------------------------------
(* Requests without a stream, and requests that are over *)

\* Steps of requests that leave the entry, the streams and the assignments alone.
LEMMA RequestStep ==
    ASSUME StreamInv, TypeOK', QueueSound', StreamWaitersServed',
           UNCHANGED <<policy, tableVars, assigned, left, upEnd, linkVars, downEnd>>,
           \A r \in Requests : request'[r] \in {"granted", "running"}
                               <=> request[r] \in {"granted", "running"}
    PROVE  StreamInv' /\ UNCHANGED Pool!pairing
<1> USE DEF StreamInv
<1>1. EntryKnowsAttached' /\ EntryShape' /\ HeldIsCounted' /\ LeftIsCounted'
  BY DEF EntryKnowsAttached, EntryShape, HeldIsCounted, LeftIsCounted, Attached, tableVars
<1>2. NoStreamLost' /\ OpeningIsNew' /\ OneHolder'
  BY DEF NoStreamLost, OpeningIsNew, OneHolder, Holds, tableVars
<1>3. UNCHANGED Pool!pairing
  BY DEF Pool!pairing, PairedStream, Holds
<1> QED BY <1>1, <1>2, <1>3

LEMMA QueueInv ==
    ASSUME StreamInv, NEW r \in Requests, Queue(r)
    PROVE  StreamInv' /\ UNCHANGED Pool!pairing
<1> USE DEF StreamInv
<1> DEFINE w == [request |-> r, pooled |-> requestPool]
<1>0. /\ request[r] = "idle" /\ request' = [request EXCEPT ![r] = "waiting"]
      /\ UNCHANGED <<policy, tableVars, assigned, left, upEnd, linkVars, downEnd>>
      /\ waiters' = Append(waiters, w)
      /\ live' \in [Requests -> BOOLEAN]
  BY DEF Queue, TypeOK
<1>1. w \in Waiters /\ w.request = r
  BY DEF TypeOK, Waiters
<1>2. /\ waiters \in Seq(Waiters) /\ waiters' \in Seq(Waiters)
      /\ Elements(waiters') = Elements(waiters) \cup {w}
  BY <1>0, <1>1, AppendProperties DEF TypeOK
<1>3. TypeOK'
  BY <1>0, <1>2 DEF TypeOK, tableVars, linkVars
<1>4. QueueSound'
  <2>1. \A v \in Elements(waiters) : v.request \in Requests /\ request[v.request] = "waiting"
    BY KnownStreams DEF QueueSound, Waiters
  <2>2. \A v \in Elements(waiters') : request'[v.request] = "waiting"
    BY <1>0, <1>1, <1>2, <2>1 DEF TypeOK
  <2>3. ASSUME NEW i \in DOMAIN waiters', NEW j \in DOMAIN waiters',
               waiters'[i].request = waiters'[j].request
        PROVE  i = j
    <3>1. /\ Len(waiters) \in Nat
          /\ DOMAIN waiters = 1 .. Len(waiters)
          /\ DOMAIN waiters' = 1 .. (Len(waiters) + 1)
          /\ \A k \in 1 .. Len(waiters) : waiters'[k] = waiters[k]
          /\ waiters'[Len(waiters) + 1] = w
      BY <1>0, <1>1, <1>2
    <3>2. \A k \in 1 .. Len(waiters) : waiters'[k].request # r
      BY <1>0, <2>1, <3>1 DEF Elements
    <3> QED BY <1>1, <2>3, <3>1, <3>2 DEF QueueSound
  <2> QED BY <2>2, <2>3 DEF QueueSound
<1>5. StreamWaitersServed'
  <2>1. IF requestPool
        THEN \A s \in Elements(requestStreams) : s \in busyStreams \/ upEnd[s] # "open"
        ELSE ~SingleFree
    BY DEF Queue, Usable
  <2>2. \A q \in Requests : request'[q] = "waiting" => \E v \in Elements(waiters') : v.request = q
    BY <1>0, <1>1, <1>2 DEF StreamWaitersServed, TypeOK
  <2> QED BY <1>0, <2>1, <2>2 DEF StreamWaitersServed, SingleFree, tableVars
<1> QED BY <1>0, <1>3, <1>4, <1>5, RequestStep DEF TypeOK

\* A waiter leaves the line: the others keep their places.
LEMMA LeaveQueue ==
    ASSUME StreamInv, NEW r \in Requests, request[r] = "waiting", Leave(r),
           UNCHANGED <<tableVars, upEnd>>
    PROVE  waiters' \in Seq(Waiters) /\ QueueSound' /\ StreamWaitersServed'
<1> USE DEF StreamInv
<1>0. PICK w \in Elements(waiters) : w.request = r /\ waiters' = Without(waiters, w)
  BY DEF Leave
<1>1. waiters \in Seq(Waiters) /\ Distinct(waiters)
  BY DEF TypeOK, QueueSound, Distinct
<1>2. /\ waiters' \in Seq(Waiters)
      /\ Elements(waiters') = Elements(waiters) \ {w}
      /\ Distinct(waiters')
  BY <1>0, <1>1, WithoutProperties
<1>3. \A v \in Elements(waiters) : v.request \in Requests /\ (v # w => v.request # r)
  BY <1>0, <1>1, KnownStreams DEF QueueSound, Elements, Waiters
<1>4. \A v \in Elements(waiters') : request'[v.request] = "waiting"
  BY <1>2, <1>3 DEF Leave, QueueSound, TypeOK
<1>5. \A u, v \in Elements(waiters) : u.request = v.request => u = v
  BY DEF QueueSound, Elements
<1>6. \A i, j \in DOMAIN waiters' : waiters'[i].request = waiters'[j].request => i = j
  <2>1. \A i \in DOMAIN waiters' : waiters'[i] \in Elements(waiters)
    BY <1>2 DEF Elements
  <2> QED BY <1>2, <1>5, <2>1 DEF Distinct
<1>7. waiters' # <<>> => waiters # <<>>
  BY <1>0, EmptyProperties
<1>8. \A q \in Requests : request'[q] = "waiting" => \E v \in Elements(waiters') : v.request = q
  BY <1>0, <1>2 DEF Leave, StreamWaitersServed, TypeOK
<1> QED BY <1>2, <1>4, <1>6, <1>7, <1>8 DEF QueueSound, StreamWaitersServed, SingleFree, tableVars

LEMMA TimeoutInv ==
    ASSUME StreamInv, NEW r \in Requests, Timeout(r)
    PROVE  StreamInv' /\ UNCHANGED Pool!pairing
<1>1. waiters' \in Seq(Waiters) /\ QueueSound' /\ StreamWaitersServed'
  BY LeaveQueue DEF Timeout
<1>2. request' = [request EXCEPT ![r] = "idle"] /\ request[r] = "waiting"
  BY DEF Timeout, Leave
<1>3. TypeOK'
  BY <1>1, <1>2 DEF Timeout, StreamInv, TypeOK, tableVars, linkVars
<1> QED BY <1>1, <1>2, <1>3, RequestStep DEF Timeout, StreamInv, TypeOK

LEMMA CancelInv ==
    ASSUME StreamInv, NEW r \in Requests, Cancel(r)
    PROVE  StreamInv' /\ UNCHANGED Pool!pairing
<1>0. /\ UNCHANGED <<policy, tableVars, assigned, left, upEnd, linkVars, downEnd>>
      /\ live' \in [Requests -> BOOLEAN]
  BY DEF Cancel, StreamInv, TypeOK
<1>1. CASE Leave(r)
  <2>1. request[r] = "waiting" /\ request' = [request EXCEPT ![r] = "idle"]
    BY <1>1 DEF Leave, StreamInv, QueueSound
  <2>2. waiters' \in Seq(Waiters) /\ QueueSound' /\ StreamWaitersServed'
    BY <1>0, <1>1, <2>1, LeaveQueue
  <2>3. TypeOK'
    BY <1>0, <2>1, <2>2 DEF StreamInv, TypeOK, tableVars, linkVars
  <2> QED BY <1>0, <2>1, <2>2, <2>3, RequestStep DEF StreamInv, TypeOK
<1>2. CASE UNCHANGED <<waiters, request>>
  <2>1. QueueSound' /\ StreamWaitersServed' /\ TypeOK'
    BY <1>0, <1>2 DEF StreamInv, TypeOK, QueueSound, StreamWaitersServed, SingleFree, tableVars, linkVars
  <2> QED BY <1>0, <1>2, <2>1, RequestStep
<1> QED BY <1>1, <1>2 DEF Cancel

LEMMA ContinueLiveInv ==
    ASSUME StreamInv, NEW r \in Requests, ContinueLive(r)
    PROVE  StreamInv' /\ UNCHANGED Pool!pairing
<1>1. TypeOK'
  BY DEF ContinueLive, StreamInv, TypeOK, tableVars, linkVars
<1>2. QueueSound' /\ StreamWaitersServed'
  <2>1. \A w \in Elements(waiters) : w.request \in Requests \ {r}
    BY KnownStreams DEF ContinueLive, QueueSound, Waiters, StreamInv
  <2>2. QueueSound'
    BY <2>1 DEF ContinueLive, QueueSound, StreamInv, TypeOK, tableVars
  <2> QED BY <2>2 DEF ContinueLive, StreamWaitersServed, SingleFree, StreamInv, TypeOK, tableVars
<1> QED BY <1>1, <1>2, RequestStep DEF ContinueLive, StreamInv, TypeOK

\* A request lets go of its stream, which is closed by then or is left behind.
LEMMA ReleaseStep ==
    ASSUME StreamInv, NEW r \in Requests, request[r] \in {"granted", "running"},
           request' = [request EXCEPT ![r] = "idle"],
           assigned' = [assigned EXCEPT ![r] = None],
           live' \in [Requests -> BOOLEAN],
           left' \in [Streams -> {"no", "piped", "unpiped"}],
           upEnd' \in [Streams -> UpStates],
           \A t \in Streams \ {assigned[r]} : upEnd'[t] = upEnd[t] /\ left'[t] = left[t],
           \/ upEnd'[assigned[r]] # "open" /\ left'[assigned[r]] = left[assigned[r]]
           \/ upEnd[assigned[r]] = "open" /\ left'[assigned[r]] # "no",
           upEnd'[assigned[r]] = "none" <=> upEnd[assigned[r]] = "none",
           upEnd'[assigned[r]] = "open" => upEnd[assigned[r]] = "open",
           UNCHANGED <<policy, tableVars, waiters, linkVars, downEnd>>
    PROVE  StreamInv' /\ Pool!Release(r)
<1> USE DEF StreamInv
<1>1. PICK s \in Streams : s = assigned[r] /\ s # None
  BY FederatedStreamsAssumption DEF TypeOK
<1>2. \A t \in Streams : /\ upEnd'[t] = "open" => upEnd[t] = "open"
                         /\ Attached(t)' <=> Attached(t)
  BY <1>1 DEF Attached
<1>3. /\ request'[r] = "idle" /\ assigned'[r] = None
      /\ \A q \in Requests \ {r} : request'[q] = request[q] /\ assigned'[q] = assigned[q]
  BY DEF TypeOK
<1>4. TypeOK'
  <2>1. /\ request' \in [Requests -> {"idle", "waiting", "granted", "running"}]
        /\ assigned' \in [Requests -> Streams \cup {None}]
    BY DEF TypeOK
  <2>2. \A q \in Requests : assigned'[q] \in Streams <=> request'[q] \in {"granted", "running"}
    BY <1>3, FederatedStreamsAssumption DEF TypeOK
  <2> QED BY <2>1, <2>2 DEF TypeOK, tableVars, linkVars, UpStates
<1>5. Elements(requestStreams) \subseteq Streams
  BY KnownStreams
<1>6. EntryKnowsAttached'
  BY <1>2, <1>5 DEF EntryKnowsAttached, tableVars, TypeOK, Attached
<1>7. EntryShape'
  BY DEF EntryShape, tableVars
<1>8. HeldIsCounted' /\ OneHolder' /\ OpeningIsNew'
  <2>1. HeldIsCounted'
    BY <1>2, <1>3, <1>5 DEF HeldIsCounted, tableVars, TypeOK
  <2>2. OneHolder'
    BY <1>3 DEF OneHolder
  <2> QED BY <1>1, <1>2, <1>3, <2>1, <2>2, FederatedStreamsAssumption DEF OpeningIsNew, Attached
<1>9. LeftIsCounted'
  <2>1. ASSUME NEW t \in Streams, t # s, left'[t] # "no"
        PROVE  /\ Attached(t)'
               /\ upEnd'[t] = "open" =>
                    /\ t \in Elements(requestStreams') => t \in busyStreams'
                    /\ ~requestPool' /\ requestStream' = t => requestBusy'
    BY <1>1, <1>2, <2>1 DEF LeftIsCounted, tableVars
  <2>2. ASSUME left'[s] # "no"
        PROVE  /\ Attached(s)'
               /\ upEnd'[s] = "open" =>
                    /\ s \in Elements(requestStreams') => s \in busyStreams'
                    /\ ~requestPool' /\ requestStream' = s => requestBusy'
    BY <1>1, <1>2, <2>2 DEF LeftIsCounted, HeldIsCounted, Attached, tableVars
  <2> QED BY <1>1, <2>1, <2>2 DEF LeftIsCounted
<1>10. QueueSound' /\ StreamWaitersServed'
  <2>1. \A w \in Elements(waiters) : w.request \in Requests \ {r}
    BY KnownStreams DEF QueueSound, Waiters
  <2>2. QueueSound'
    BY <1>3, <2>1 DEF QueueSound
  <2> QED BY <1>2, <1>3, <1>5, <2>2 DEF StreamWaitersServed, SingleFree, TypeOK, tableVars
<1>11. \A t \in Streams \ {s} : (\E q \in Requests : Holds(q, t)') <=> \E q \in Requests : Holds(q, t)
  BY <1>1, <1>3, FederatedStreamsAssumption DEF Holds
<1>12. NoStreamLost'
  BY <1>1, <1>2, <1>11 DEF NoStreamLost, tableVars
<1>13. \E after \in {"closed", "spent"} : PairedStream' = [PairedStream EXCEPT ![s] = after]
  <2>1. \A q \in Requests : ~Holds(q, s)'
    BY <1>1, <1>3 DEF Holds, OneHolder
  <2>2. \A t \in Streams \ {s} : PairedStream'[t] = PairedStream[t]
    BY <1>1, <1>11 DEF PairedStream
  <2>3. PairedStream'[s] = IF upEnd'[s] = "open" THEN "spent" ELSE "closed"
    BY <1>1, <2>1 DEF PairedStream
  <2>4. /\ DOMAIN PairedStream = Streams /\ DOMAIN PairedStream' = Streams
        /\ PairedStream = [t \in Streams |-> PairedStream[t]]
        /\ PairedStream' = [t \in Streams |-> PairedStream'[t]]
    BY DEF PairedStream
  <2> HIDE DEF StreamInv
  <2>5. CASE upEnd'[s] = "open"
    <3>1. PairedStream' = [PairedStream EXCEPT ![s] = "spent"]
      BY <2>2, <2>3, <2>4, <2>5
    <3> QED BY <3>1
  <2>6. CASE upEnd'[s] # "open"
    <3>1. PairedStream' = [PairedStream EXCEPT ![s] = "closed"]
      BY <2>2, <2>3, <2>4, <2>6
    <3> QED BY <3>1
  <2> QED BY <2>5, <2>6
<1> QED BY <1>1, <1>4, <1>6, <1>7, <1>8, <1>9, <1>10, <1>12, <1>13 DEF Pool!Release

LEMMA RequestOverInv ==
    ASSUME StreamInv, NEW r \in Requests,
           ContinueDead(r) \/ RequestEnds(r) \/ ResponseEndsEarly(r)
    PROVE  StreamInv' /\ Pool!Release(r)
<1> DEFINE s == assigned[r]
<1>0. /\ s \in Streams /\ request[r] \in {"granted", "running"}
      /\ upEnd \in [Streams -> UpStates] /\ left \in [Streams -> {"no", "piped", "unpiped"}]
      /\ live \in [Requests -> BOOLEAN]
  BY DEF ContinueDead, RequestEnds, ResponseEndsEarly, StreamInv, TypeOK, UpStates
<1>1. CASE ContinueDead(r)
  <2>1. /\ upEnd' \in [Streams -> UpStates] /\ upEnd'[s] # "open"
        /\ upEnd'[s] = "none" <=> upEnd[s] = "none"
        /\ \A t \in Streams \ {s} : upEnd'[t] = upEnd[t]
    BY <1>0, <1>1 DEF ContinueDead, ReturnStream, UpStates
  <2> QED BY <1>0, <1>1, <2>1, ReleaseStep DEF ContinueDead
<1>2. CASE RequestEnds(r)
  BY <1>0, <1>2, ReleaseStep DEF RequestEnds
<1>3. CASE ResponseEndsEarly(r)
  <2>1. /\ left' \in [Streams -> {"no", "piped", "unpiped"}] /\ left'[s] # "no"
        /\ \A t \in Streams \ {s} : left'[t] = left[t]
    BY <1>0, <1>3 DEF ResponseEndsEarly
  <2> QED BY <1>0, <1>3, <2>1, ReleaseStep DEF ResponseEndsEarly
<1> QED BY <1>1, <1>2, <1>3

-----------------------------------------------------------------------------
(* Streams come and go at the upstream Host *)

\* What is left of the line when its first waiter is served or turned away.
LEMMA ServeFirst ==
    ASSUME StreamInv, waiters # <<>>, waiters' = Tail(waiters),
           \A q \in Requests \ {Head(waiters).request} : request'[q] = request[q]
    PROVE  /\ Head(waiters) \in Waiters /\ request[Head(waiters).request] = "waiting"
           /\ Head(waiters).request \in Requests
           /\ waiters' \in Seq(Waiters)
           /\ \A w \in Elements(waiters') : request'[w.request] = "waiting"
           /\ \A i, j \in DOMAIN waiters' : waiters'[i].request = waiters'[j].request => i = j
           /\ \A q \in Requests \ {Head(waiters).request} :
                request[q] = "waiting" => \E w \in Elements(waiters') : w.request = q
<1> USE DEF StreamInv
<1>1. /\ waiters \in Seq(Waiters) /\ Distinct(waiters)
      /\ \A u, v \in Elements(waiters) : u.request = v.request => u = v
  BY DEF TypeOK, QueueSound, Distinct, Elements
<1>2. /\ Head(waiters) \in Waiters /\ Head(waiters) \in Elements(waiters)
      /\ waiters' \in Seq(Waiters)
      /\ Elements(waiters) = Elements(waiters') \cup {Head(waiters)}
      /\ Distinct(waiters') /\ Head(waiters) \notin Elements(waiters')
  BY <1>1, TailProperties
<1>3. Head(waiters).request \in Requests /\ request[Head(waiters).request] = "waiting"
  BY <1>2 DEF QueueSound, Waiters
<1>4. \A w \in Elements(waiters') : request'[w.request] = "waiting"
  <2>1. \A w \in Elements(waiters') : w.request \in Requests \ {Head(waiters).request}
    BY <1>1, <1>2, KnownStreams DEF Waiters
  <2> QED BY <1>2, <2>1 DEF QueueSound
<1>5. \A i, j \in DOMAIN waiters' : waiters'[i].request = waiters'[j].request => i = j
  <2>1. \A i \in DOMAIN waiters' : waiters'[i] \in Elements(waiters)
    BY <1>2 DEF Elements
  <2> QED BY <1>1, <1>2, <2>1 DEF Distinct
<1>6. \A q \in Requests \ {Head(waiters).request} :
        request[q] = "waiting" => \E w \in Elements(waiters') : w.request = q
  BY <1>2 DEF StreamWaitersServed
<1> QED BY <1>2, <1>3, <1>4, <1>5, <1>6

\* A stream that is attached while somebody waits goes to the first in line; the
\* only stream that can be used is the new one.
LEMMA AttachEffect ==
    ASSUME StreamInv, NEW s \in Streams, AttachStream(s)
    PROVE  \/ /\ waiters = <<>>
              /\ busyStreams' = busyStreams /\ requestBusy' = FALSE
              /\ UNCHANGED <<waiters, request, assigned>>
           \/ /\ waiters # <<>> /\ waiters' = Tail(waiters)
              /\ Grant(Head(waiters).request, s)
              /\ busyStreams' = busyStreams \cup (IF policy THEN {s} ELSE {})
              /\ requestBusy' \in BOOLEAN /\ (~policy => requestBusy')
<1> USE DEF StreamInv
<1>0. /\ upEnd[s] = "none" /\ upEnd'[s] = "open" /\ s # None
      /\ \A t \in Streams \ {s} : upEnd'[t] = upEnd[t]
      /\ Elements(requestStreams) \subseteq Streams /\ s \notin Elements(requestStreams)
      /\ s \notin busyStreams
  BY KnownStreams, FederatedStreamsAssumption
     DEF AttachStream, TypeOK, EntryKnowsAttached, OpeningIsNew, Attached
<1>1. CASE waiters = <<>>
  BY <1>1 DEF AttachStream, ResolveNext
<1>2. CASE waiters # <<>> /\ policy
  <2>1. Elements(requestStreams') = Elements(requestStreams) \cup {s}
    BY <1>2, AppendProperties DEF AttachStream, TypeOK
  <2>2. \A t \in Elements(requestStreams) : t \in busyStreams \/ upEnd[t] # "open"
    BY <1>2, EmptyProperties DEF StreamWaitersServed, EntryShape
  <2>3. Usable(requestStreams', busyStreams) = {s}
    BY <1>0, <2>1, <2>2 DEF Usable
  <2>4. /\ waiters' = Tail(waiters)
        /\ \E t \in Streams : /\ IsFirst(t, requestStreams', busyStreams)
                              /\ busyStreams' = busyStreams \cup {t}
                              /\ ResolveWaiter(Head(waiters), t, s)
    BY <1>2, <2>3 DEF AttachStream, ResolveNext
  <2>5. busyStreams' = busyStreams \cup {s} /\ ResolveWaiter(Head(waiters), s, s)
    BY <2>3, <2>4 DEF IsFirst
  <2> QED BY <1>2, <2>4, <2>5 DEF ResolveWaiter
<1>3. CASE waiters # <<>> /\ ~policy
  BY <1>0, <1>3 DEF AttachStream, ResolveNext
<1> QED BY <1>1, <1>2, <1>3

LEMMA AttachStreamInv ==
    ASSUME StreamInv, NEW s \in Streams, AttachStream(s)
    PROVE  /\ StreamInv'
           /\ Pool!Open(s) \/ \E r \in Requests : Pool!OpenTaken(r, s)
<1> USE DEF StreamInv
<1>0. /\ upEnd[s] = "none" /\ upEnd'[s] = "open" /\ s # None
      /\ \A t \in Streams \ {s} : upEnd'[t] = upEnd[t]
      /\ upEnd' \in [Streams -> UpStates]
      /\ Elements(requestStreams) \subseteq Streams /\ s \notin Elements(requestStreams)
      /\ requestPool' = policy /\ requestStream' = s
      /\ downEnd' = [downEnd EXCEPT ![s] = "answered"] /\ downEnd' \in DownEnds
      /\ UNCHANGED <<policy, linked, live, left, linkVars>>
      /\ \A r \in Requests : assigned[r] # s
  BY KnownStreams, FederatedStreamsAssumption
     DEF AttachStream, TypeOK, EntryKnowsAttached, Attached, UpStates, DownEnds, OpeningIsNew
<1>1. /\ requestStreams' \in Seq(Streams) /\ Distinct(requestStreams')
      /\ Elements(requestStreams') = Elements(requestStreams) \cup (IF policy THEN {s} ELSE {})
      /\ ~policy => requestStreams' = <<>>
  BY <1>0, AppendProperties DEF AttachStream, TypeOK, EntryKnowsAttached, EntryShape
<1>2. PairedStream[s] = "closed" /\ left[s] = "no"
  BY <1>0 DEF PairedStream, LeftIsCounted, Attached
<1>3. CASE /\ waiters = <<>>
           /\ busyStreams' = busyStreams /\ requestBusy' = FALSE
           /\ UNCHANGED <<waiters, request, assigned>>
  <2>1. TypeOK'
    BY <1>0, <1>1, <1>3 DEF TypeOK, UpStates, DownEnds, linkVars
  <2>2. EntryKnowsAttached' /\ EntryShape'
    BY <1>0, <1>1, <1>3 DEF EntryKnowsAttached, EntryShape, Attached, TypeOK
  <2>3. HeldIsCounted' /\ LeftIsCounted' /\ OneHolder' /\ OpeningIsNew'
    <3>1. HeldIsCounted'
      BY <1>0, <1>1, <1>3, FederatedStreamsAssumption DEF HeldIsCounted, TypeOK
    <3>2. LeftIsCounted'
      BY <1>0, <1>1, <1>2, <1>3 DEF LeftIsCounted, Attached
    <3>3. OneHolder' /\ OpeningIsNew'
      BY <1>0, <1>3 DEF OneHolder, OpeningIsNew, TypeOK
    <3> QED BY <3>1, <3>2, <3>3
  <2>4. QueueSound' /\ StreamWaitersServed'
    BY <1>3 DEF QueueSound, StreamWaitersServed
  <2>5. NoStreamLost'
    BY <1>0, <1>3 DEF NoStreamLost, Holds, EntryKnowsAttached, Attached
  <2>6. PairedStream' = [PairedStream EXCEPT ![s] = "fresh"]
    BY <1>0, <1>2, <1>3 DEF PairedStream, Holds
  <2>7. Pool!Open(s)
    BY <1>0, <1>2, <1>3, <2>6 DEF Pool!Open
  <2> QED BY <2>1, <2>2, <2>3, <2>4, <2>5, <2>7
<1>4. CASE /\ waiters # <<>> /\ waiters' = Tail(waiters)
           /\ Grant(Head(waiters).request, s)
           /\ busyStreams' = busyStreams \cup (IF policy THEN {s} ELSE {})
           /\ requestBusy' \in BOOLEAN /\ (~policy => requestBusy')
  <2>0. Head(waiters) \in Waiters
    <3>1. waiters \in Seq(Waiters)
      BY DEF TypeOK
    <3> QED BY <1>4, <3>1, TailProperties
  <2>1. PICK r \in Requests : r = Head(waiters).request
    BY <2>0 DEF Waiters
  <2>2. /\ request' \in [Requests -> {"idle", "waiting", "granted", "running"}]
        /\ assigned' \in [Requests -> Streams \cup {None}]
        /\ \A q \in Requests : assigned'[q] \in Streams <=> request'[q] \in {"granted", "running"}
        /\ request'[r] = "granted" /\ assigned'[r] = s
        /\ \A q \in Requests \ {r} : request'[q] = request[q] /\ assigned'[q] = assigned[q]
    BY <1>4, <2>1, GrantTypes
  <2>3. /\ waiters' \in Seq(Waiters) /\ request[r] = "waiting"
        /\ \A w \in Elements(waiters') : request'[w.request] = "waiting"
        /\ \A i, j \in DOMAIN waiters' : waiters'[i].request = waiters'[j].request => i = j
        /\ \A q \in Requests \ {r} :
             request[q] = "waiting" => \E w \in Elements(waiters') : w.request = q
    BY <1>4, <2>1, <2>2, ServeFirst
  <2>4. TypeOK'
    BY <1>0, <1>1, <1>4, <2>2, <2>3 DEF TypeOK, UpStates, DownEnds, linkVars
  <2>5. EntryKnowsAttached' /\ EntryShape'
    BY <1>0, <1>1, <1>4 DEF EntryKnowsAttached, EntryShape, Attached, TypeOK
  <2>6. HeldIsCounted' /\ LeftIsCounted' /\ OneHolder' /\ OpeningIsNew'
    <3>1. HeldIsCounted'
      BY <1>0, <1>1, <1>4, <2>1, <2>2, FederatedStreamsAssumption DEF HeldIsCounted, TypeOK
    <3>2. LeftIsCounted'
      BY <1>0, <1>1, <1>2, <1>4 DEF LeftIsCounted, Attached
    <3>3. OneHolder'
      BY <1>0, <2>2 DEF OneHolder
    <3>4. OpeningIsNew'
      BY <1>0, <2>2 DEF OpeningIsNew, TypeOK
    <3> QED BY <3>1, <3>2, <3>3, <3>4
  <2>7. QueueSound' /\ StreamWaitersServed'
    <3>1. policy => \A t \in Elements(requestStreams) : t \in busyStreams \/ upEnd[t] # "open"
      BY <1>4, EmptyProperties DEF StreamWaitersServed, EntryShape
    <3>2. QueueSound'
      BY <2>3 DEF QueueSound
    <3>3. \A q \in Requests : request'[q] = "waiting" => \E w \in Elements(waiters') : w.request = q
      BY <2>2, <2>3
    <3> QED BY <1>0, <1>1, <1>4, <3>1, <3>2, <3>3 DEF StreamWaitersServed, SingleFree
  <2>8. assigned[r] = None
    BY <2>1, <2>3 DEF TypeOK
  <2>9. NoStreamLost'
    <3>1. \A t \in Streams : (\E q \in Requests : Holds(q, t)) => \E q \in Requests : Holds(q, t)'
      BY <2>1, <2>2, <2>8, FederatedStreamsAssumption DEF Holds
    <3>2. Holds(r, s)'
      BY <2>2 DEF Holds
    <3> QED BY <1>0, <1>4, <2>1, <3>1, <3>2 DEF NoStreamLost
  <2>10. Pool!OpenTaken(r, s)
    BY <1>0, <1>2, <1>4, <2>1, <2>8, GrantPairing DEF Pool!OpenTaken
  <2> QED BY <2>1, <2>4, <2>5, <2>6, <2>7, <2>9, <2>10
<1> QED BY <1>3, <1>4, AttachEffect

\* The 'close' event of an upstream end frees no stream: the waiters stay in line,
\* and in an entry that has no stream yet the first is turned away.
LEMMA CloseEventEffect ==
    ASSUME StreamInv, NEW s \in Streams, UpEndCloseEvent(s)
    PROVE  /\ busyStreams' = busyStreams \ {s}
           /\ requestBusy' \in BOOLEAN
           /\ requestBusy' => requestBusy /\ requestStream' = requestStream
           /\ ~policy /\ requestBusy /\ requestStream # s => requestBusy'
           /\ assigned' = assigned
           /\ \/ UNCHANGED <<waiters, request>>
              \/ /\ waiters # <<>> /\ waiters' = Tail(waiters)
                 /\ request' = [request EXCEPT ![Head(waiters).request] = "idle"]
<1> USE DEF StreamInv
<1>0. /\ requestStreams \in Seq(Streams) /\ Distinct(requestStreams)
      /\ requestStream' = IF requestStream = s THEN None ELSE requestStream
      /\ requestStreams' = Without(requestStreams, s)
      /\ upEnd' = [upEnd EXCEPT ![s] = "none"]
  BY DEF UpEndCloseEvent, TypeOK, EntryKnowsAttached
<1>1. CASE ~(policy /\ linked)
  BY <1>0, <1>1 DEF UpEndCloseEvent, TypeOK
<1>2. CASE policy /\ linked /\ requestPool
  <2>1. Elements(requestStreams') = Elements(requestStreams) \ {s}
    BY <1>0, WithoutProperties
  <2>2. Elements(requestStreams) \subseteq Streams
    BY KnownStreams
  <2>3. waiters # <<>> => Usable(requestStreams', busyStreams \ {s}) = {}
    BY <1>0, <1>2, <2>1, <2>2 DEF Usable, StreamWaitersServed, TypeOK
  <2> QED BY <1>2, <2>3 DEF UpEndCloseEvent, ResolveNext
<1>3. CASE policy /\ linked /\ ~requestPool
  <2>1. requestStream' = None
    BY <1>0, <1>3 DEF EntryShape
  <2> QED BY <1>3, <2>1 DEF UpEndCloseEvent, ResolveNext, Reject
<1> QED BY <1>1, <1>2, <1>3

LEMMA UpEndCloseEventInv ==
    ASSUME StreamInv, NEW s \in Streams, UpEndCloseEvent(s)
    PROVE  StreamInv' /\ UNCHANGED Pool!pairing
<1> USE DEF StreamInv
<1>0. /\ upEnd[s] = "closed" /\ upEnd' = [upEnd EXCEPT ![s] = "none"]
      /\ upEnd'[s] = "none" /\ upEnd' \in [Streams -> UpStates]
      /\ \A t \in Streams \ {s} : upEnd'[t] = upEnd[t]
      /\ requestStream' = IF requestStream = s THEN None ELSE requestStream
      /\ requestStreams' = Without(requestStreams, s)
      /\ left' = [left EXCEPT ![s] = "no"]
      /\ UNCHANGED <<policy, linked, requestPool, live, linkVars, downEnd>>
  BY DEF UpEndCloseEvent, TypeOK, UpStates
<1>1. /\ requestStreams' \in Seq(Streams) /\ Distinct(requestStreams')
      /\ Elements(requestStreams) \subseteq Streams
      /\ Elements(requestStreams') = Elements(requestStreams) \ {s}
      /\ requestStreams = <<>> => requestStreams' = <<>>
  <2>1. requestStreams \in Seq(Streams) /\ Distinct(requestStreams)
    BY DEF TypeOK, EntryKnowsAttached
  <2>2. requestStreams = <<>> => Without(requestStreams, s) = <<>>
    BY EmptyProperties DEF Without
  <2> QED BY <1>0, <2>1, <2>2, WithoutProperties, KnownStreams
<1>2. /\ busyStreams' = busyStreams \ {s}
      /\ requestBusy' \in BOOLEAN
      /\ requestBusy' => requestBusy /\ requestStream' = requestStream
      /\ ~policy /\ requestBusy /\ requestStream # s => requestBusy'
      /\ assigned' = assigned
  BY CloseEventEffect
<1>3. /\ waiters' \in Seq(Waiters)
      /\ \A w \in Elements(waiters') : request'[w.request] = "waiting"
      /\ \A i, j \in DOMAIN waiters' : waiters'[i].request = waiters'[j].request => i = j
      /\ request' \in [Requests -> {"idle", "waiting", "granted", "running"}]
      /\ \A r \in Requests : request'[r] \in {"granted", "running"}
                             <=> request[r] \in {"granted", "running"}
      /\ waiters' # <<>> => waiters # <<>>
      /\ \A q \in Requests : request'[q] = "waiting" => \E w \in Elements(waiters') : w.request = q
  <2>1. CASE UNCHANGED <<waiters, request>>
    BY <2>1 DEF TypeOK, QueueSound, StreamWaitersServed
  <2>2. CASE /\ waiters # <<>> /\ waiters' = Tail(waiters)
             /\ request' = [request EXCEPT ![Head(waiters).request] = "idle"]
    <3>1. /\ Head(waiters).request \in Requests /\ request[Head(waiters).request] = "waiting"
          /\ waiters' \in Seq(Waiters)
          /\ \A w \in Elements(waiters') : request'[w.request] = "waiting"
          /\ \A i, j \in DOMAIN waiters' : waiters'[i].request = waiters'[j].request => i = j
          /\ \A q \in Requests \ {Head(waiters).request} :
               request[q] = "waiting" => \E w \in Elements(waiters') : w.request = q
      BY <2>2, ServeFirst DEF TypeOK
    <3> QED BY <2>2, <3>1 DEF TypeOK
  <2> QED BY <2>1, <2>2, CloseEventEffect
<1>4. TypeOK'
  <2>1. \A r \in Requests : assigned'[r] \in Streams <=> request'[r] \in {"granted", "running"}
    BY <1>2, <1>3 DEF TypeOK
  <2> QED BY <1>0, <1>1, <1>2, <1>3, <2>1 DEF TypeOK, UpStates, linkVars
<1>5. EntryKnowsAttached'
  BY <1>0, <1>1, <1>2 DEF EntryKnowsAttached, Attached, TypeOK
<1>6. EntryShape'
  BY <1>0, <1>1, <1>2 DEF EntryShape
<1>7. HeldIsCounted' /\ LeftIsCounted' /\ OneHolder' /\ OpeningIsNew'
  <2>1. HeldIsCounted'
    BY <1>0, <1>1, <1>2, FederatedStreamsAssumption DEF HeldIsCounted, EntryShape, TypeOK
  <2>2. left'[s] = "no" /\ \A t \in Streams \ {s} : left'[t] = left[t]
    BY <1>0 DEF TypeOK
  <2>3. LeftIsCounted'
    BY <1>0, <1>1, <1>2, <2>2, FederatedStreamsAssumption DEF LeftIsCounted, EntryShape, Attached
  <2>4. OneHolder' /\ OpeningIsNew'
    BY <1>0, <1>2 DEF OneHolder, OpeningIsNew
  <2> QED BY <2>1, <2>3, <2>4
<1>8. QueueSound' /\ StreamWaitersServed'
  <2>1. QueueSound'
    BY <1>3 DEF QueueSound
  <2>2. requestPool => policy
    BY DEF EntryShape
  <2>3. CASE requestPool
    BY <1>0, <1>1, <1>2, <1>3, <2>1, <2>3 DEF StreamWaitersServed
  <2>4. CASE ~requestPool
    <3>1. waiters # <<>> => ~SingleFree'
      BY <1>0, <1>2, <2>4, FederatedStreamsAssumption DEF StreamWaitersServed, SingleFree, EntryShape, TypeOK
    <3> QED BY <1>0, <1>3, <2>1, <2>4, <3>1 DEF StreamWaitersServed
  <2> QED BY <2>3, <2>4
<1>9. \A r \in Requests, t \in Streams : Holds(r, t)' <=> Holds(r, t)
  BY <1>2, <1>3 DEF Holds
<1>10. NoStreamLost'
  BY <1>0, <1>2, <1>9 DEF NoStreamLost, TypeOK
<1>11. UNCHANGED Pool!pairing
  BY <1>0, <1>2, <1>9 DEF Pool!pairing, PairedStream, TypeOK
<1> QED BY <1>4, <1>5, <1>6, <1>7, <1>8, <1>10, <1>11

-----------------------------------------------------------------------------
(* The theorems *)

LEMMA StreamInit == Init => StreamInv /\ Pool!Init
<1> SUFFICES ASSUME Init PROVE StreamInv /\ Pool!Init
  OBVIOUS
<1>1. TypeOK
  <2>1. requestStreams \in Seq(Streams) /\ waiters \in Seq(Waiters)
    BY DEF Init
  <2>2. \A r \in Requests : assigned[r] \in Streams <=> request[r] \in {"granted", "running"}
    BY FederatedStreamsAssumption DEF Init
  <2> QED BY <2>1, <2>2 DEF Init, TypeOK
<1>2. EntryKnowsAttached /\ EntryShape /\ QueueSound /\ HeldIsCounted
  BY EmptyProperties DEF Init, EntryKnowsAttached, EntryShape, QueueSound, HeldIsCounted
<1>3. NoStreamLost /\ LeftIsCounted /\ OneHolder /\ OpeningIsNew /\ StreamWaitersServed
  BY DEF Init, NoStreamLost, LeftIsCounted, OneHolder, OpeningIsNew, StreamWaitersServed
<1>4. Pool!Init
  BY DEF Init, Pool!Init, PairedStream
<1> QED BY <1>1, <1>2, <1>3, <1>4 DEF StreamInv

\* Every step of the two Hosts keeps the invariant and is a step of the pool, or
\* none at all for it.
LEMMA StreamStep == StreamInv /\ [Next]_vars => StreamInv' /\ [Pool!Next]_(Pool!pairing)
<1> SUFFICES ASSUME StreamInv, [Next]_vars
             PROVE  StreamInv' /\ [Pool!Next]_(Pool!pairing)
  OBVIOUS
<1>1. ASSUME NEW s \in Streams,
             StreamOpened(s) \/ StreamReadable(s) \/ StreamCloses(s) \/ StreamCloseEvent(s)
      PROVE  StreamInv' /\ [Pool!Next]_(Pool!pairing)
  BY <1>1, DownstreamInv
<1>2. ASSUME NEW s \in Streams, AttachStream(s)
      PROVE  StreamInv' /\ [Pool!Next]_(Pool!pairing)
  BY <1>2, AttachStreamInv DEF Pool!Next
<1>3. ASSUME NEW s \in Streams, UpEndCloses(s) \/ UploadEnds(s)
      PROVE  StreamInv' /\ [Pool!Next]_(Pool!pairing)
  BY <1>3, UpEndClosesInv, UploadEndsInv DEF Pool!Next
<1>4. ASSUME NEW s \in Streams, UpEndCloseEvent(s)
      PROVE  StreamInv' /\ [Pool!Next]_(Pool!pairing)
  BY <1>4, UpEndCloseEventInv
<1>5. ASSUME NEW r \in Requests, AcquirePooled(r) \/ AcquireSingle(r)
      PROVE  StreamInv' /\ [Pool!Next]_(Pool!pairing)
  BY <1>5, AcquirePooledInv, AcquireSingleInv DEF Pool!Next
<1>6. ASSUME NEW r \in Requests, Queue(r) \/ Timeout(r) \/ Cancel(r) \/ ContinueLive(r)
      PROVE  StreamInv' /\ [Pool!Next]_(Pool!pairing)
  BY <1>6, QueueInv, TimeoutInv, CancelInv, ContinueLiveInv
<1>7. ASSUME NEW r \in Requests, ContinueDead(r) \/ RequestEnds(r) \/ ResponseEndsEarly(r)
      PROVE  StreamInv' /\ [Pool!Next]_(Pool!pairing)
  BY <1>7, RequestOverInv DEF Pool!Next
<1>8. ASSUME NEW r \in Requests, CancelRunning(r)
      PROVE  StreamInv' /\ [Pool!Next]_(Pool!pairing)
  BY <1>8, CancelRunningInv DEF Pool!Next
<1>9. CASE LinkSteps
  BY <1>9, ConnectUpstreamInv, LinkLostInv, EntryRemovedInv DEF LinkSteps, Pool!Next
<1>10. CASE UNCHANGED vars
  <2>1. DownTypes'
    BY <1>10 DEF vars, linkVars, DownTypes, DownEnds, StreamInv, TypeOK
  <2> QED BY <1>10, <2>1, DownstreamStep DEF vars
<1> QED BY <1>1, <1>2, <1>3, <1>4, <1>5, <1>6, <1>7, <1>8, <1>9, <1>10
        DEF Next, StreamSteps, RequestSteps

\* The invariant of the two Hosts: what the entry of a federated Host knows of is
\* attached, who holds a stream of it has it marked, and who waits waits in line.
THEOREM StreamsAccounted == Spec => []StreamInv
<1>1. Init => StreamInv
  BY StreamInit
<1>2. StreamInv /\ [Next]_vars => StreamInv'
  BY StreamStep
<1> QED BY <1>1, <1>2, PTL DEF Spec

\* A stream the upstream Host counts as in use (requestBusyStreams, requestBusy) is
\* somebody's or closed, or its response was complete before its request: in no other
\* way one is lost while the other end keeps it open.
THEOREM NoStreamIsLost == Spec => []NoStreamLost
<1>1. StreamInv => NoStreamLost
  BY DEF StreamInv
<1> QED BY <1>1, StreamsAccounted, PTL

\* Whoever queues in acquireFederatedRequestStream stays in line, and not beside a
\* stream that is free: the line is looked at whenever a stream comes or closes.
THEOREM NobodyWaitsInVain == Spec => []StreamWaitersServed
<1>1. StreamInv => StreamWaitersServed
  BY DEF StreamInv
<1> QED BY <1>1, StreamsAccounted, PTL

\* acquireFederatedRequestStream and all that opens, closes and hands over streams
\* implement a pool of single-use streams: whoever is given a stream is the first
\* to have it and the last.
THEOREM StreamsAreSingleUse == Spec => SingleUse
<1>1. Init => Pool!Init
  BY StreamInit
<1>2. StreamInv /\ [Next]_vars => [Pool!Next]_(Pool!pairing)
  BY StreamStep
<1> QED BY <1>1, <1>2, StreamsAccounted, PTL DEF Spec, SingleUse, Pool!Spec

----------------------------------------------------------------------------
(* The routes themselves: no loop, and no more hops than the limit *)

\* What a Host may hold: its own routes, and what others may export to it.
HoldsRoutes(loc, imp, h) ==
    /\ loc[h] \subseteq Routes /\ \A r \in loc[h] : Home[r] = h
    /\ \A k \in Owners : \A x \in imp[h][k] : x \in ExportsOf(k[1]) /\ h \notin Elements(x.via)

\* The frames on their way.
WireTypes(w) == DOMAIN w = Pipes /\ \A p \in Pipes : w[p] \in Seq(FramesOf(Sender(p)))

SeenTypes(s) == DOMAIN s = Hosts /\ \A h \in Hosts : IsFiniteSet(s[h]) /\ Cardinality(s[h]) <= MaxSeen

\* The pieces of FederationTypeOK.
LEMMA TypeParts ==
    FederationTypeOK <=>
        /\ local \in [Hosts -> SUBSET Routes]
        /\ DOMAIN imported = Hosts /\ \A h \in Hosts : DOMAIN imported[h] = Owners
        /\ \A h \in Hosts : HoldsRoutes(local, imported, h)
        /\ SeenTypes(seen)
        /\ changes \in 0 .. MaxChanges
        /\ counter \in [Hosts -> 0 .. changes]
        /\ view \in [Hosts -> SUBSET Routes]
        /\ WireTypes(wire)
  BY DEF FederationTypeOK, HoldsRoutes, SeenTypes, WireTypes

\* The same pieces behind a step.
LEMMA TypePartsNext ==
    ASSUME local' \in [Hosts -> SUBSET Routes],
           DOMAIN imported' = Hosts /\ \A h \in Hosts : DOMAIN imported'[h] = Owners,
           \A h \in Hosts : HoldsRoutes(local', imported', h),
           SeenTypes(seen'),
           changes' \in 0 .. MaxChanges /\ counter' \in [Hosts -> 0 .. changes'],
           view' \in [Hosts -> SUBSET Routes],
           WireTypes(wire')
    PROVE  FederationTypeOK'
<1>1. /\ \A h \in Hosts : \A r \in local'[h] : Home[r] = h
      /\ \A h \in Hosts, k \in Owners : \A x \in imported'[h][k] :
           x \in ExportsOf(k[1]) /\ h \notin Elements(x.via)
  BY DEF HoldsRoutes
<1>2. /\ DOMAIN seen' = Hosts
      /\ \A h \in Hosts : IsFiniteSet(seen'[h]) /\ Cardinality(seen'[h]) <= MaxSeen
  BY DEF SeenTypes
<1>3. DOMAIN wire' = Pipes /\ \A p \in Pipes : wire'[p] \in Seq(FramesOf(Sender(p)))
  BY DEF WireTypes
<1> QED BY <1>1, <1>2, <1>3 DEF FederationTypeOK

\* The fields of a route.
LEMMA RouteFields ==
    ASSUME NEW x \in FederatedRoutes
    PROVE  /\ x.route \in Routes /\ x.via \in Seq(Hosts) /\ x.via # <<>>
           /\ Len(x.via) \in Nat \ {0} /\ DOMAIN x.via = 1 .. Len(x.via)
           /\ x.via[1] \in Hosts /\ NextHop(x) \in Hosts /\ NextHop(x) \in Nat
<1>1. x.route \in Routes /\ x.via \in Seq(Hosts) /\ x.via # <<>>
  BY DEF FederatedRoutes
<1>2. Len(x.via) \in Nat \ {0} /\ DOMAIN x.via = 1 .. Len(x.via)
  BY <1>1
<1>3. x.via[1] \in Hosts /\ x.via[Len(x.via)] \in Hosts
  BY <1>1, <1>2
<1> QED BY <1>1, <1>2, <1>3, FederationConstants DEF NextHop

\* An owner is the ID of a Host, or an alias of one.
LEMMA OwnerProperties ==
    /\ \A k \in Owners : k[1] \in Hosts
    /\ \A g \in Hosts : Id(g) \in Owners /\ Id(g)[1] = g
    /\ \A l \in Links : UpstreamId(l) \in Owners /\ UpstreamId(l)[1] = l[2]
<1>1. \A l \in Links : l[2] \in Hosts /\ (l \in Aliased) \in BOOLEAN
  BY FederationConstants
<1> QED BY <1>1 DEF Owners, Id, UpstreamId

\* selectCandidates finds a best candidate whenever there is one.
LEMMA SelectedIsACandidate ==
    ASSUME NEW imp, NEW h, NEW r, Imports(imp, h) \subseteq FederatedRoutes,
           \E x \in Imports(imp, h) : x.route = r
    PROVE  Selected(imp, h, r) \in Imports(imp, h) /\ Selected(imp, h, r).route = r
<1> DEFINE S == {i \in Imports(imp, h) : i.route = r}
           L == {Len(x.via) : x \in S}
<1>1. \A x \in S : Len(x.via) \in Nat /\ NextHop(x) \in Nat
  BY RouteFields
<1>2. L \subseteq Nat /\ L # {}
  BY <1>1
<1>3. PICK n \in L : \A m \in L : n <= m
  BY <1>2, LeastNumber
<1> DEFINE N == {NextHop(x) : x \in {y \in S : Len(y.via) = n}}
<1>4. N \subseteq Nat /\ N # {}
  BY <1>1, <1>3
<1>5. PICK k \in N : \A m \in N : k <= m
  BY <1>4, LeastNumber
<1>6. PICK x \in S : Len(x.via) = n /\ NextHop(x) = k
  BY <1>5
<1>7. ASSUME NEW y \in S
      PROVE  ~Better(y, x)
  <2>1. n <= Len(y.via) /\ (Len(y.via) = n => k <= NextHop(y))
    BY <1>3, <1>5
  <2>2. n \in Nat /\ k \in Nat /\ Len(y.via) \in Nat /\ NextHop(y) \in Nat
    BY <1>1, <1>2, <1>3, <1>4, <1>5
  <2> QED BY <1>6, <2>1, <2>2 DEF Better
<1>8. \E x0 \in S : \A y \in Imports(imp, h) : y.route = r => ~Better(y, x0)
  BY <1>6, <1>7
<1>9. Selected(imp, h, r) = CHOOSE x0 \in S : \A y \in Imports(imp, h) : y.route = r => ~Better(y, x0)
  BY DEF Selected
<1>10. Selected(imp, h, r) \in S
  BY <1>8, <1>9
<1> QED BY <1>10

\* What a Host may hold it imports, and has on its list of Broker routes.
LEMMA HeldImports ==
    ASSUME NEW loc, NEW imp, NEW h \in Hosts, HoldsRoutes(loc, imp, h)
    PROVE  /\ Imports(imp, h) \subseteq FederatedRoutes
           /\ \A x \in Imports(imp, h) : \E g \in Hosts : x \in ExportsOf(g) /\ h \notin Elements(x.via)
           /\ getBrokerRoutes(loc, imp, h) \subseteq Routes
<1>1. \A x \in Imports(imp, h) : \E g \in Hosts : x \in ExportsOf(g) /\ h \notin Elements(x.via)
  BY OwnerProperties DEF HoldsRoutes, Imports
<1>2. \A g : ExportsOf(g) \subseteq FederatedRoutes
  BY DEF ExportsOf
<1>3. Imports(imp, h) \subseteq FederatedRoutes
  BY <1>1, <1>2
<1>4. \A x \in Imports(imp, h) : x.route \in Routes
  BY <1>3, RouteFields
<1>5. getBrokerRoutes(loc, imp, h) \subseteq Routes
  BY <1>4 DEF getBrokerRoutes, HoldsRoutes
<1> QED BY <1>1, <1>3, <1>5

\* getFederatedRoutesForExport writes routes without a loop, whatever the Host holds.
LEMMA ExportsAreSound ==
    ASSUME NEW loc, NEW imp, NEW h \in Hosts, NEW g, HoldsRoutes(loc, imp, h)
    PROVE  getFederatedRoutesForExport(loc, imp, h, g) \subseteq ExportsOf(h)
<1> SUFFICES ASSUME NEW r \in getBrokerRoutes(loc, imp, h), Len(Exported(loc, imp, h, r).via) <= MaxHop
             PROVE  Exported(loc, imp, h, r) \in ExportsOf(h)
  BY DEF getFederatedRoutesForExport
<1> DEFINE x == Exported(loc, imp, h, r)
<1>1. r \in Routes
  BY HeldImports
<1>2. CASE r \in loc[h]
  <2>1. x = [route |-> r, via |-> <<h>>]
    BY <1>2 DEF Exported
  <2>2. Home[r] = h
    BY <1>2 DEF HoldsRoutes
  <2>3. x.via = <<h>> /\ x.route = r /\ <<h>> \in Seq(Hosts) /\ <<h>> # <<>> /\ Len(<<h>>) = 1
    BY <2>1
  <2>4. x \in FederatedRoutes
    BY <1>1, <2>1 DEF FederatedRoutes
  <2>5. Distinct(x.via)
    BY <2>3 DEF Distinct
  <2>6. x.via[1] = Home[x.route] /\ NextHop(x) = h
    BY <2>2, <2>3 DEF NextHop
  <2> HIDE DEF x
  <2>7. Len(x.via) <= MaxHop
    BY DEF x
  <2>8. x \in ExportsOf(h)
    BY <2>4, <2>5, <2>6, <2>7 DEF ExportsOf
  <2> QED BY <2>8 DEF x
<1>3. CASE r \notin loc[h]
  <2> DEFINE y == Selected(imp, h, r)
  <2>1. \E i \in Imports(imp, h) : i.route = r
    BY <1>3 DEF getBrokerRoutes
  <2>2. y \in Imports(imp, h) /\ y.route = r
    BY <2>1, HeldImports, SelectedIsACandidate
  <2>3. PICK k \in Hosts : y \in ExportsOf(k) /\ h \notin Elements(y.via)
    BY <2>2, HeldImports
  <2>4. x = [route |-> r, via |-> Append(y.via, h)]
    BY <1>3 DEF Exported
  <2> HIDE DEF y
  <2>5. y \in FederatedRoutes /\ y.via[1] = Home[y.route] /\ Distinct(y.via)
    BY <2>3 DEF ExportsOf
  <2>6. y.via \in Seq(Hosts) /\ Len(y.via) \in Nat \ {0}
    BY <2>5, RouteFields
  <2>7. x.route = r /\ x.via = Append(y.via, h)
    BY <2>4
  <2>8. /\ x.via \in Seq(Hosts) /\ x.via # <<>> /\ Distinct(x.via)
        /\ Len(x.via) = Len(y.via) + 1 /\ x.via[Len(y.via) + 1] = h
    BY <2>3, <2>5, <2>6, <2>7, AppendProperties, AppendIndexes
  <2>9. x.via[1] = y.via[1]
    BY <2>6, <2>7
  <2>10. x \in FederatedRoutes
    BY <1>1, <2>4, <2>7, <2>8 DEF FederatedRoutes
  <2>11. x.via[1] = Home[x.route] /\ NextHop(x) = h
    BY <2>2, <2>5, <2>7, <2>8, <2>9 DEF NextHop
  <2> HIDE DEF x
  <2>12. Len(x.via) <= MaxHop
    BY DEF x
  <2>13. x \in ExportsOf(h)
    BY <2>8, <2>10, <2>11, <2>12 DEF ExportsOf
  <2> QED BY <2>13 DEF x
<1> QED BY <1>2, <1>3

\* A frame is written.
LEMMA AppendFrame ==
    ASSUME NEW g, NEW s \in Seq(FramesOf(g)), NEW f \in FramesOf(g)
    PROVE  Append(s, f) \in Seq(FramesOf(g))
  BY AppendProperties

\* A table is a frame of its sender.
LEMMA TableType ==
    ASSUME NEW loc, NEW imp, NEW h \in Hosts, NEW g, HoldsRoutes(loc, imp, h)
    PROVE  Table(loc, imp, h, g) \in FramesOf(h)
  BY ExportsAreSound DEF Table, FramesOf

\* advertiseFederatedRoutes of Host h.
LEMMA AdvertiseTypes ==
    ASSUME NEW w, WireTypes(w), NEW h \in Hosts, NEW pipes, \A p \in pipes : Sender(p) = h,
           NEW loc, NEW imp, HoldsRoutes(loc, imp, h)
    PROVE  WireTypes(advertiseFederatedRoutes(w, h, pipes, loc, imp))
<1> DEFINE v == advertiseFederatedRoutes(w, h, pipes, loc, imp)
<1>1. DOMAIN v = Pipes
  BY DEF advertiseFederatedRoutes
<1>2. ASSUME NEW p \in Pipes
      PROVE  v[p] \in Seq(FramesOf(Sender(p)))
  <2>1. w[p] \in Seq(FramesOf(Sender(p)))
    BY DEF WireTypes
  <2>2. v[p] = IF p \in pipes THEN Append(w[p], Table(loc, imp, h, Reader(p))) ELSE w[p]
    BY DEF advertiseFederatedRoutes
  <2>3. Table(loc, imp, h, Reader(p)) \in FramesOf(h)
    BY TableType
  <2> HIDE DEF v
  <2> QED BY <2>1, <2>2, <2>3, AppendFrame
<1> HIDE DEF v
<1>3. WireTypes(v)
  BY <1>1, <1>2 DEF WireTypes
<1> QED BY <1>3 DEF v

\* forwardFederatedLifecycleEventsExcluding.
LEMMA ForwardTypes ==
    ASSUME NEW w, WireTypes(w), NEW h, NEW pipes, NEW from, NEW event \in LifecycleEvents
    PROVE  WireTypes(forwardLifecycleEvents(w, h, pipes, from, event))
<1> DEFINE v == forwardLifecycleEvents(w, h, pipes, from, event)
<1>1. DOMAIN v = Pipes
  BY DEF forwardLifecycleEvents
<1>2. ASSUME NEW p \in Pipes
      PROVE  v[p] \in Seq(FramesOf(Sender(p)))
  <2>1. w[p] \in Seq(FramesOf(Sender(p)))
    BY DEF WireTypes
  <2>2. v[p] = Append(w[p], event) \/ v[p] = w[p]
    BY DEF forwardLifecycleEvents
  <2>3. event \in FramesOf(Sender(p))
    BY DEF FramesOf
  <2> HIDE DEF v
  <2> QED BY <2>1, <2>2, <2>3, AppendFrame
<1> HIDE DEF v
<1>3. WireTypes(v)
  BY <1>1, <1>2 DEF WireTypes
<1> QED BY <1>3 DEF v

\* The set of the IDs seen never grows past its limit.
LEMMA RememberBound ==
    ASSUME NEW s, IsFiniteSet(s), Cardinality(s) <= MaxSeen, NEW eid
    PROVE  IsFiniteSet(Remember(s, eid)) /\ Cardinality(Remember(s, eid)) <= MaxSeen
<1>1. MaxSeen \in Nat \ {0} /\ Cardinality(s) \in Nat
  BY FederationConstants, FS_CardinalityType
<1>2. CASE Cardinality(s) >= MaxSeen
  <2>1. Remember(s, eid) = {eid}
    BY <1>2 DEF Remember
  <2>2. IsFiniteSet({eid}) /\ Cardinality({eid}) = 1
    BY FS_Singleton
  <2> QED BY <1>1, <2>1, <2>2
<1>3. CASE ~(Cardinality(s) >= MaxSeen)
  <2>1. Remember(s, eid) = s \cup {eid}
    BY <1>3 DEF Remember
  <2>2. IsFiniteSet(s \cup {eid}) /\ Cardinality(s \cup {eid}) <= Cardinality(s) + 1
    BY <1>1, FS_AddElement
  <2>3. Cardinality(s \cup {eid}) \in Nat
    BY <2>2, FS_CardinalityType
  <2> QED BY <1>1, <1>3, <2>1, <2>2, <2>3
<1> QED BY <1>2, <1>3

\* The seen IDs of every Host, behind one more at Host h.
LEMMA RememberTypes ==
    ASSUME NEW s, SeenTypes(s), NEW h \in Hosts, NEW eid
    PROVE  SeenTypes([s EXCEPT ![h] = Remember(@, eid)])
  BY RememberBound DEF SeenTypes

\* A pipe is emptied.
LEMMA ClearTypes ==
    ASSUME NEW w, WireTypes(w), NEW q
    PROVE  WireTypes([w EXCEPT ![q] = <<>>])
  BY DEF WireTypes

\* A frame is read.
LEMMA ReadTypes ==
    ASSUME NEW w, WireTypes(w), NEW q \in Pipes, w[q] # <<>>
    PROVE  /\ WireTypes([w EXCEPT ![q] = Tail(@)])
           /\ Head(w[q]) \in FramesOf(Sender(q))
<1>1. w[q] \in Seq(FramesOf(Sender(q)))
  BY DEF WireTypes
<1>2. Tail(w[q]) \in Seq(FramesOf(Sender(q))) /\ Head(w[q]) \in FramesOf(Sender(q))
  BY <1>1, TailProperties
<1>3. WireTypes([w EXCEPT ![q] = Tail(@)])
  BY <1>2 DEF WireTypes
<1> QED BY <1>2, <1>3

\* Who writes to a pipe and who reads it are Hosts.
LEMMA PipeEnds ==
    ASSUME NEW p \in Pipes
    PROVE  Sender(p) \in Hosts /\ Reader(p) \in Hosts
<1>1. p[1] \in Links
  BY DEF Pipes
<1>2. p[1][1] \in Hosts /\ p[1][2] \in Hosts
  BY <1>1, FederationConstants
<1> QED BY <1>2 DEF Sender, Reader

\* So the owner a pipe is read for belongs to its sender.
LEMMA PipeOwner ==
    ASSUME NEW p \in Pipes
    PROVE  Owner(p) \in Owners /\ Owner(p)[1] = Sender(p)
<1>1. p[1] \in Links /\ Sender(p) \in Hosts
  BY PipeEnds DEF Pipes
<1> QED BY <1>1, OwnerProperties DEF Owner, Sender

\* A Host that loses imports from one other still holds what it may.
LEMMA WithdrawTypes ==
    ASSUME FederationTypeOK, NEW h \in Hosts, NEW k \in Owners
    PROVE  /\ DOMAIN removeImportedRoutes(h, k) = Hosts
           /\ \A x \in Hosts : DOMAIN removeImportedRoutes(h, k)[x] = Owners
           /\ \A x \in Hosts : HoldsRoutes(local, removeImportedRoutes(h, k), x)
<1> DEFINE imp == [imported EXCEPT ![h][k] = {}]
<1>1. /\ DOMAIN imported = Hosts /\ \A x \in Hosts : DOMAIN imported[x] = Owners
      /\ \A x \in Hosts : HoldsRoutes(local, imported, x)
  BY TypeParts
<1>2. DOMAIN imp = Hosts /\ \A x \in Hosts : DOMAIN imp[x] = Owners
  BY <1>1
<1>3. \A x \in Hosts, y \in Owners : imp[x][y] \subseteq imported[x][y]
  BY <1>1
<1> HIDE DEF imp
<1>4. \A x \in Hosts : HoldsRoutes(local, imp, x)
  BY <1>1, <1>3 DEF HoldsRoutes
<1> QED BY <1>2, <1>4 DEF removeImportedRoutes, imp

\* A step of a link, by what it writes and withdraws.
LEMMA TypeLinkStep ==
    ASSUME FederationTypeOK, UNCHANGED <<local, seen, counter, changes>>,
           \/ UNCHANGED <<imported, view>>
           \/ \E h \in Hosts, k \in Owners : \E w, pipes : removeImportedFederatedRoutes(w, h, k, pipes),
           WireTypes(wire')
    PROVE  FederationTypeOK'
<1>1. /\ local \in [Hosts -> SUBSET Routes]
      /\ DOMAIN imported = Hosts /\ \A h \in Hosts : DOMAIN imported[h] = Owners
      /\ \A h \in Hosts : HoldsRoutes(local, imported, h)
      /\ SeenTypes(seen)
      /\ changes \in 0 .. MaxChanges
      /\ counter \in [Hosts -> 0 .. changes]
      /\ view \in [Hosts -> SUBSET Routes]
  BY TypeParts
<1>2. CASE UNCHANGED <<imported, view>>
  BY <1>1, <1>2, TypePartsNext
<1>3. ASSUME NEW h \in Hosts, NEW k \in Owners, NEW w, NEW pipes,
             removeImportedFederatedRoutes(w, h, k, pipes)
      PROVE  FederationTypeOK'
  <2>1. /\ imported' = removeImportedRoutes(h, k)
        /\ view' = [view EXCEPT ![h] = getBrokerRoutes(local, removeImportedRoutes(h, k), h)]
    BY <1>3 DEF removeImportedFederatedRoutes
  <2>2. /\ DOMAIN imported' = Hosts /\ \A x \in Hosts : DOMAIN imported'[x] = Owners
        /\ \A x \in Hosts : HoldsRoutes(local, imported', x)
    BY <2>1, WithdrawTypes
  <2>3. getBrokerRoutes(local, removeImportedRoutes(h, k), h) \subseteq Routes
    BY <2>1, <2>2, HeldImports
  <2>4. view' \in [Hosts -> SUBSET Routes]
    BY <1>1, <2>1, <2>3
  <2> QED BY <1>1, <2>2, <2>4, TypePartsNext
<1> QED BY <1>2, <1>3

\* A change of the local routes: the event gets a number no higher than the changes so far.
LEMMA ChangeTypes ==
    ASSUME FederationTypeOK, NEW r \in Routes, NEW type \in {"added", "removed"},
           NEW loc \in [Hosts -> SUBSET Routes], \A h \in Hosts : \A x \in loc[h] : Home[x] = h,
           Change(r, type, loc)
    PROVE  FederationTypeOK'
<1> DEFINE h == Home[r]
           event == [type |-> type, route |-> r, eid |-> <<h, counter[h] + 1>>]
<1>1. /\ DOMAIN imported = Hosts /\ \A x \in Hosts : DOMAIN imported[x] = Owners
      /\ \A x \in Hosts : HoldsRoutes(local, imported, x)
      /\ SeenTypes(seen)
      /\ changes \in 0 .. MaxChanges
      /\ counter \in [Hosts -> 0 .. changes]
      /\ view \in [Hosts -> SUBSET Routes]
      /\ WireTypes(wire)
  BY TypeParts
<1>2. /\ changes < MaxChanges /\ changes' = changes + 1 /\ local' = loc
      /\ counter' = [counter EXCEPT ![h] = @ + 1]
      /\ seen' = [seen EXCEPT ![h] = Remember(@, event.eid)]
      /\ view' = [view EXCEPT ![h] = getBrokerRoutes(loc, imported, h)]
      /\ wire' = advertiseFederatedRoutes(
                   forwardLifecycleEvents(wire, h, Pipes0(h), Id(h), event),
                   h, Pipes0(h), loc, imported)
      /\ imported' = imported
  BY DEF Change
<1>3. h \in Hosts /\ MaxChanges \in Nat
  BY FederationConstants
<1>4. \A x \in Hosts : HoldsRoutes(loc, imported, x)
  BY <1>1 DEF HoldsRoutes
<1>5. counter[h] \in 0 .. changes /\ counter[h] + 1 \in 1 .. MaxChanges
  <2>1. counter[h] \in 0 .. changes
    BY <1>1, <1>3
  <2>2. changes \in Nat
    BY <1>1
  <2> QED BY <1>2, <1>3, <2>1, <2>2
<1>6. changes' \in 0 .. MaxChanges /\ counter' \in [Hosts -> 0 .. changes']
  <2>1. changes \in Nat /\ changes' \in 0 .. MaxChanges
    BY <1>1, <1>2, <1>3
  <2>2. \A x \in Hosts : counter'[x] \in 0 .. changes'
    <3> SUFFICES ASSUME NEW x \in Hosts
                 PROVE  counter'[x] \in 0 .. changes'
      OBVIOUS
    <3>1. counter[x] \in 0 .. changes /\ counter'[x] \in {counter[x], counter[x] + 1}
      BY <1>1, <1>2
    <3> QED BY <1>2, <2>1, <3>1
  <2>3. DOMAIN counter' = Hosts /\ counter' = [x \in Hosts |-> counter'[x]]
    BY <1>1, <1>2
  <2> QED BY <2>1, <2>2, <2>3
<1>7. event \in LifecycleEvents
  <2>1. <<h, counter[h] + 1>> \in Hosts \X (1 .. MaxChanges)
    BY <1>3, <1>5
  <2> QED BY <2>1 DEF LifecycleEvents
<1>8. \A p \in Pipes0(h) : Sender(p) = h
  BY DEF Pipes0, Writable
<1> HIDE DEF h, event
<1>9. WireTypes(wire')
  <2> DEFINE w == forwardLifecycleEvents(wire, h, Pipes0(h), Id(h), event)
  <2>1. WireTypes(w)
    BY <1>1, <1>7, ForwardTypes
  <2>2. HoldsRoutes(loc, imported, h) /\ wire' = advertiseFederatedRoutes(w, h, Pipes0(h), loc, imported)
    BY <1>2, <1>3, <1>4
  <2> HIDE DEF w
  <2> QED BY <1>3, <1>8, <2>1, <2>2, AdvertiseTypes
<1>10. SeenTypes(seen')
  BY <1>1, <1>2, <1>3, RememberTypes
<1>11. view' \in [Hosts -> SUBSET Routes]
  <2>1. getBrokerRoutes(loc, imported, h) \subseteq Routes
    BY <1>3, <1>4, HeldImports
  <2> QED BY <1>1, <1>2, <2>1
<1> QED BY <1>1, <1>2, <1>4, <1>6, <1>9, <1>10, <1>11, TypePartsNext

\* A frame that is read: a loop is refused, whatever the frame holds.
LEMMA ReceiveTypes ==
    ASSUME FederationTypeOK, NEW p \in Pipes, Receive(p)
    PROVE  FederationTypeOK'
<1> DEFINE h == Reader(p)
           g == Sender(p)
           k == Owner(p)
           frame == Head(wire[p])
           w == [wire EXCEPT ![p] = Tail(@)]
<1>1. /\ local \in [Hosts -> SUBSET Routes]
      /\ DOMAIN imported = Hosts /\ \A x \in Hosts : DOMAIN imported[x] = Owners
      /\ \A x \in Hosts : HoldsRoutes(local, imported, x)
      /\ SeenTypes(seen)
      /\ changes \in 0 .. MaxChanges
      /\ counter \in [Hosts -> 0 .. changes]
      /\ view \in [Hosts -> SUBSET Routes]
      /\ WireTypes(wire)
  BY TypeParts
<1>2. /\ wire[p] # <<>> /\ UNCHANGED <<local, counter, changes>>
      /\ IF frame.type = "routes" THEN setImportedFederatedRoutes(w, h, k, frame)
         ELSE handleLifecycle(w, h, k, frame)
  BY DEF Receive, bounds
<1>3. WireTypes(w) /\ frame \in FramesOf(g)
  BY <1>1, <1>2, ReadTypes
<1>4. h \in Hosts /\ g \in Hosts /\ k \in Owners /\ k[1] = g
  BY PipeEnds, PipeOwner
<1>5. \A q \in Pipes0(h) : Sender(q) = h
  BY DEF Pipes0, Writable
<1> HIDE DEF h, g, k, frame, w
<1>6. CASE frame.type = "routes"
  <2> DEFINE imp == setImportedRoutes(h, k, frame.routes)
  <2>1. frame.routes \subseteq ExportsOf(g)
    BY <1>3, <1>6 DEF FramesOf, LifecycleEvents
  <2>2. imp = [imported EXCEPT ![h][k] = Accepted(h, frame.routes)]
    BY DEF setImportedRoutes
  <2>3. \A x \in Accepted(h, frame.routes) : x \in ExportsOf(g) /\ h \notin Elements(x.via)
    BY <2>1 DEF Accepted
  <2>4. DOMAIN imp = Hosts /\ \A x \in Hosts : DOMAIN imp[x] = Owners
    BY <1>1, <1>4, <2>2
  <2>5. \A x \in Hosts, y \in Owners : imp[x][y] = IF x = h /\ y = k THEN Accepted(h, frame.routes) ELSE imported[x][y]
    BY <1>1, <1>4, <2>2
  <2>6. /\ imported' = imp /\ seen' = seen
        /\ \/ wire' = w /\ view' = view
           \/ /\ wire' = advertiseFederatedRoutes(w, h, Pipes0(h), local, imp)
              /\ view' = [view EXCEPT ![h] = getBrokerRoutes(local, imp, h)]
    BY <1>2, <1>6 DEF setImportedFederatedRoutes
  <2> HIDE DEF imp
  <2>7. \A x \in Hosts : HoldsRoutes(local, imp, x)
    BY <1>1, <1>4, <2>3, <2>5 DEF HoldsRoutes
  <2>8. WireTypes(advertiseFederatedRoutes(w, h, Pipes0(h), local, imp))
    BY <1>3, <1>4, <1>5, <2>7, AdvertiseTypes
  <2>9. getBrokerRoutes(local, imp, h) \subseteq Routes
    BY <1>4, <2>7, HeldImports
  <2>10. WireTypes(wire') /\ view' \in [Hosts -> SUBSET Routes]
    BY <1>1, <1>3, <2>6, <2>8, <2>9
  <2> QED BY <1>1, <1>2, <2>4, <2>6, <2>7, <2>10, TypePartsNext
<1>7. CASE frame.type # "routes"
  <2>1. frame \in LifecycleEvents
    BY <1>3, <1>7 DEF FramesOf
  <2>2. handleLifecycle(w, h, k, frame)
    BY <1>2, <1>7
  <2>3. CASE frame.eid \in seen[h]
    <3>1. wire' = w /\ UNCHANGED <<seen, view, imported>>
      BY <2>2, <2>3 DEF handleLifecycle
    <3> QED BY <1>1, <1>2, <1>3, <3>1, TypePartsNext
  <2>4. CASE frame.eid \notin seen[h]
    <3>1. /\ seen' = [seen EXCEPT ![h] = Remember(@, frame.eid)]
          /\ view' = [view EXCEPT ![h] = AfterEvent(@, frame)]
          /\ wire' = forwardLifecycleEvents(w, h, Pipes0(h), k, frame)
          /\ imported' = imported \/ imported' = removeImportedRoute(h, k, frame.route)
      BY <2>2, <2>4 DEF handleLifecycle
    <3>2. SeenTypes(seen')
      BY <1>1, <1>4, <3>1, RememberTypes
    <3>3. WireTypes(wire')
      BY <1>3, <2>1, <3>1, ForwardTypes
    <3>4. view' \in [Hosts -> SUBSET Routes]
      <4>1. frame.route \in Routes
        BY <2>1 DEF LifecycleEvents
      <4>2. AfterEvent(view[h], frame) \subseteq Routes
        BY <1>1, <1>4, <4>1 DEF AfterEvent
      <4> QED BY <1>1, <3>1, <4>2
    <3>5. /\ DOMAIN imported' = Hosts /\ \A x \in Hosts : DOMAIN imported'[x] = Owners
          /\ \A x \in Hosts, y \in Owners : imported'[x][y] \subseteq imported[x][y]
      <4>1. CASE imported' = imported
        BY <1>1, <4>1
      <4>2. CASE imported' = removeImportedRoute(h, k, frame.route)
        <5>1. imported' = [imported EXCEPT ![h][k] = {x \in @ : x.route # frame.route}]
          BY <4>2 DEF removeImportedRoute
        <5> QED BY <1>1, <1>4, <5>1
      <4> QED BY <3>1, <4>1, <4>2
    <3>6. \A x \in Hosts : HoldsRoutes(local, imported', x)
      BY <1>1, <3>5 DEF HoldsRoutes
    <3> QED BY <1>1, <1>2, <3>2, <3>3, <3>4, <3>5, <3>6, TypePartsNext
  <2> QED BY <2>3, <2>4
<1> QED BY <1>6, <1>7

\* What a step on link l writes: nothing, a first table, or tables to every other Host;
\* and the pipes it gives up.
LEMMA LinkActionTypes ==
    ASSUME FederationTypeOK, NEW l \in Links,
           \/ connectUpstream(l) \/ handleHostFederationStream(l)
           \/ handleHostFederationRouteStream(l) \/ Connected(l) \/ ConnectFails(l)
           \/ SessionDies(l) \/ closeUpstreamLink(l) \/ handleUpstreamSessionClose(l)
           \/ removeInboundFederationHost(l)
    PROVE  FederationTypeOK'
<1>1. WireTypes(wire) /\ \A x \in Hosts : HoldsRoutes(local, imported, x)
  BY TypeParts
<1>2. l[1] \in Hosts /\ l[2] \in Hosts /\ UpstreamId(l) \in Owners /\ Id(l[1]) \in Owners
  BY FederationConstants, OwnerProperties
<1>3. \A h, up, inb, rou, liv : \A p \in Writable(h, up, inb, rou, liv) : Sender(p) = h
  BY DEF Writable
<1>4. \A h : \A p \in Pipes0(h) : Sender(p) = h
  BY <1>3 DEF Pipes0
<1>5. ASSUME NEW q, NEW h \in Hosts, NEW k \in Owners, NEW pipes, \A p \in pipes : Sender(p) = h,
             removeImportedFederatedRoutes([wire EXCEPT ![q] = <<>>], h, k, pipes)
      PROVE  WireTypes(wire')
  <2> DEFINE w == [wire EXCEPT ![q] = <<>>]
             imp == removeImportedRoutes(h, k)
  <2>1. WireTypes(w)
    BY <1>1, ClearTypes
  <2>2. HoldsRoutes(local, imp, h)
    BY <1>5, WithdrawTypes
  <2>3. wire' = advertiseFederatedRoutes(w, h, pipes, local, imp)
    BY <1>5 DEF removeImportedFederatedRoutes
  <2> HIDE DEF w, imp
  <2> QED BY <1>5, <2>1, <2>2, <2>3, AdvertiseTypes
<1>6. CASE connectUpstream(l) \/ handleHostFederationStream(l) \/ SessionDies(l)
  <2>1. UNCHANGED <<local, imported, seen, counter, view, changes, wire>>
    BY <1>6 DEF connectUpstream, handleHostFederationStream, SessionDies, bounds
  <2> QED BY <1>1, <2>1, TypeLinkStep
<1>7. CASE handleHostFederationRouteStream(l)
  <2> DEFINE q == <<l, pending[l], "down">>
             f == Table(local, imported, l[2], l[1])
  <2>1. /\ wire' = [wire EXCEPT ![q] = Append(@, f)]
        /\ UNCHANGED <<local, imported, seen, counter, view, changes>>
    BY <1>7 DEF handleHostFederationRouteStream, bounds
  <2>2. f \in FramesOf(l[2]) /\ Sender(q) = l[2]
    BY <1>1, <1>2, TableType DEF Sender
  <2> HIDE DEF q, f
  <2>3. q \in Pipes => Append(wire[q], f) \in Seq(FramesOf(Sender(q)))
    BY <1>1, <2>2, AppendFrame DEF WireTypes
  <2>4. WireTypes(wire')
    BY <1>1, <2>1, <2>3 DEF WireTypes
  <2> QED BY <2>1, <2>4, TypeLinkStep
<1>8. CASE Connected(l)
  <2> DEFINE W == Writable(l[1], [upstream EXCEPT ![l] = pending[l]], inbound, routed, alive)
  <2>1. /\ wire' = advertiseFederatedRoutes(wire, l[1], W, local, imported)
        /\ UNCHANGED <<local, imported, seen, counter, view, changes>>
    BY <1>8 DEF Connected, bounds
  <2>2. \A p \in W : Sender(p) = l[1]
    BY <1>3
  <2> HIDE DEF W
  <2>3. WireTypes(wire')
    BY <1>1, <1>2, <2>1, <2>2, AdvertiseTypes
  <2> QED BY <2>1, <2>3, TypeLinkStep
<1>9. CASE ConnectFails(l)
  <2>1. /\ \E q : wire' = [wire EXCEPT ![q] = <<>>]
        /\ UNCHANGED <<local, imported, seen, counter, view, changes>>
    BY <1>9 DEF ConnectFails, bounds
  <2>2. WireTypes(wire')
    BY <1>1, <2>1, ClearTypes
  <2> QED BY <2>1, <2>2, TypeLinkStep
<1>10. CASE closeUpstreamLink(l)
  <2> DEFINE q == <<l, upstream[l], "down">>
  <2>1. /\ removeImportedFederatedRoutes([wire EXCEPT ![q] = <<>>], l[1], UpstreamId(l), Pipes0(l[1]))
        /\ UNCHANGED <<local, seen, counter, changes>>
    BY <1>10 DEF closeUpstreamLink, bounds
  <2> HIDE DEF q
  <2>2. WireTypes(wire')
    BY <1>2, <1>4, <1>5, <2>1
  <2> QED BY <1>2, <2>1, <2>2, TypeLinkStep
<1>11. CASE handleUpstreamSessionClose(l)
  <2> DEFINE q == <<l, upstream[l], "down">>
             W == Writable(l[1], [upstream EXCEPT ![l] = 0], inbound, routed, alive)
  <2>1. /\ removeImportedFederatedRoutes([wire EXCEPT ![q] = <<>>], l[1], UpstreamId(l), W)
        /\ UNCHANGED <<local, seen, counter, changes>>
    BY <1>11 DEF handleUpstreamSessionClose, bounds
  <2>2. \A p \in W : Sender(p) = l[1]
    BY <1>3
  <2> HIDE DEF q, W
  <2>3. WireTypes(wire')
    BY <1>2, <1>5, <2>1, <2>2
  <2> QED BY <1>2, <2>1, <2>3, TypeLinkStep
<1>12. CASE removeInboundFederationHost(l)
  <2> DEFINE W == Writable(l[2], upstream, [inbound EXCEPT ![l] = 0], routed \ {l}, alive)
  <2>1. /\ \/ \E q : wire' = [wire EXCEPT ![q] = <<>>] /\ UNCHANGED <<imported, view>>
           \/ \E q : removeImportedFederatedRoutes([wire EXCEPT ![q] = <<>>], l[2], Id(l[1]), W)
        /\ UNCHANGED <<local, seen, counter, changes>>
    BY <1>12 DEF removeInboundFederationHost, bounds
  <2>2. \A p \in W : Sender(p) = l[2]
    BY <1>3
  <2> HIDE DEF W
  <2>3. CASE \E q : wire' = [wire EXCEPT ![q] = <<>>] /\ UNCHANGED <<imported, view>>
    <3>1. WireTypes(wire')
      BY <1>1, <2>3, ClearTypes
    <3> QED BY <2>1, <2>3, <3>1, TypeLinkStep
  <2>4. ASSUME NEW q, removeImportedFederatedRoutes([wire EXCEPT ![q] = <<>>], l[2], Id(l[1]), W)
        PROVE  FederationTypeOK'
    <3>1. WireTypes(wire')
      BY <1>2, <1>5, <2>2, <2>4
    <3> QED BY <1>2, <2>1, <2>4, <3>1, TypeLinkStep
  <2> QED BY <2>1, <2>3, <2>4
<1> QED BY <1>6, <1>7, <1>8, <1>9, <1>10, <1>11, <1>12

\* A Host that starts again holds nothing.
LEMMA RestartTypes ==
    ASSUME FederationTypeOK, NEW h \in Hosts, Restart(h)
    PROVE  FederationTypeOK'
<1>1. /\ local \in [Hosts -> SUBSET Routes]
      /\ DOMAIN imported = Hosts /\ \A x \in Hosts : DOMAIN imported[x] = Owners
      /\ \A x \in Hosts : HoldsRoutes(local, imported, x)
      /\ SeenTypes(seen)
      /\ changes \in 0 .. MaxChanges
      /\ counter \in [Hosts -> 0 .. changes]
      /\ view \in [Hosts -> SUBSET Routes]
      /\ WireTypes(wire)
  BY TypeParts
<1>2. /\ local' = [local EXCEPT ![h] = {}]
      /\ imported' = [imported EXCEPT ![h] = [k \in Owners |-> {}]]
      /\ seen' = [seen EXCEPT ![h] = {}]
      /\ counter' = [counter EXCEPT ![h] = 0]
      /\ view' = [view EXCEPT ![h] = {}]
      /\ wire' = [p \in Pipes |-> IF Reader(p) = h THEN <<>> ELSE wire[p]]
      /\ changes' = changes
  BY DEF Restart
<1>3. local' \in [Hosts -> SUBSET Routes] /\ view' \in [Hosts -> SUBSET Routes]
  BY <1>1, <1>2
<1>4. DOMAIN imported' = Hosts /\ \A x \in Hosts : DOMAIN imported'[x] = Owners
  BY <1>1, <1>2
<1>5. \A x \in Hosts : HoldsRoutes(local', imported', x)
  <2>1. \A x \in Hosts : local'[x] \subseteq local[x]
    BY <1>1, <1>2
  <2>2. \A x \in Hosts, y \in Owners : imported'[x][y] \subseteq imported[x][y]
    BY <1>1, <1>2
  <2> QED BY <1>1, <2>1, <2>2 DEF HoldsRoutes
<1>6. SeenTypes(seen')
  <2>1. MaxSeen \in Nat /\ IsFiniteSet({}) /\ Cardinality({}) = 0
    BY FederationConstants, FS_EmptySet
  <2>2. Cardinality({}) <= MaxSeen
    BY <2>1
  <2> QED BY <1>1, <1>2, <2>1, <2>2 DEF SeenTypes
<1>7. changes' \in 0 .. MaxChanges /\ counter' \in [Hosts -> 0 .. changes']
  <2>1. 0 \in 0 .. changes
    BY <1>1
  <2> QED BY <1>1, <1>2, <2>1
<1>8. WireTypes(wire')
  <2>1. \A p \in Pipes : wire'[p] = <<>> \/ wire'[p] = wire[p]
    BY <1>2
  <2> QED BY <1>1, <1>2, <2>1 DEF WireTypes
<1> QED BY <1>3, <1>4, <1>5, <1>6, <1>7, <1>8, TypePartsNext

\* At first there are no routes.
LEMMA TypesInit == FederationInit => FederationTypeOK
<1> SUFFICES ASSUME FederationInit
             PROVE  FederationTypeOK
  OBVIOUS
<1>1. /\ MaxSeen \in Nat /\ MaxChanges \in Nat /\ IsFiniteSet({}) /\ Cardinality({}) = 0
  BY FederationConstants, FS_EmptySet
<1>2. Cardinality({}) <= MaxSeen /\ 0 \in 0 .. MaxChanges
  BY <1>1
<1>3. SeenTypes(seen)
  BY <1>1, <1>2 DEF FederationInit, SeenTypes
<1>4. WireTypes(wire)
  BY DEF FederationInit, WireTypes
<1>5. \A h \in Hosts : HoldsRoutes(local, imported, h)
  BY DEF FederationInit, HoldsRoutes
<1>6. /\ local \in [Hosts -> SUBSET Routes] /\ view \in [Hosts -> SUBSET Routes]
      /\ DOMAIN imported = Hosts /\ \A h \in Hosts : DOMAIN imported[h] = Owners
      /\ changes \in 0 .. MaxChanges /\ counter \in [Hosts -> 0 .. changes]
  BY <1>2 DEF FederationInit
<1> QED BY <1>3, <1>4, <1>5, <1>6, TypeParts

\* FederationTypeOK, for every set of Hosts and links, hop limit and size of the set of
\* seen IDs: no table and no import ever holds a route that visits a Host twice or goes
\* past the hop limit, a Host never imports a route that came through itself, and the
\* set of seen IDs is bounded.
THEOREM RoutesHaveNoLoop == FederationSpec => []FederationTypeOK
<1>1. FederationTypeOK /\ [FederationNext]_federationVars => FederationTypeOK'
  <2> SUFFICES ASSUME FederationTypeOK, [FederationNext]_federationVars
               PROVE  FederationTypeOK'
    OBVIOUS
  <2>1. /\ local \in [Hosts -> SUBSET Routes]
        /\ \A h \in Hosts : \A x \in local[h] : Home[x] = h
    BY DEF FederationTypeOK
  <2>2. ASSUME NEW r \in Routes, RouteAdded(r)
        PROVE  FederationTypeOK'
    <3> DEFINE loc == [local EXCEPT ![Home[r]] = @ \cup {r}]
    <3>1. Change(r, "added", loc)
      BY <2>2 DEF RouteAdded
    <3>2. loc \in [Hosts -> SUBSET Routes] /\ \A h \in Hosts : \A x \in loc[h] : Home[x] = h
      BY <2>1
    <3> HIDE DEF loc
    <3> QED BY <3>1, <3>2, ChangeTypes
  <2>3. ASSUME NEW r \in Routes, RouteRevoked(r)
        PROVE  FederationTypeOK'
    <3> DEFINE loc == [local EXCEPT ![Home[r]] = @ \ {r}]
    <3>1. Change(r, "removed", loc)
      BY <2>3 DEF RouteRevoked
    <3>2. loc \in [Hosts -> SUBSET Routes] /\ \A h \in Hosts : \A x \in loc[h] : Home[x] = h
      BY <2>1
    <3> HIDE DEF loc
    <3> QED BY <3>1, <3>2, ChangeTypes
  <2>4. ASSUME NEW p \in Pipes, Receive(p)
        PROVE  FederationTypeOK'
    BY <2>4, ReceiveTypes
  <2>5. ASSUME NEW l \in Links,
               \/ connectUpstream(l) \/ handleHostFederationStream(l)
               \/ handleHostFederationRouteStream(l) \/ Connected(l) \/ ConnectFails(l)
               \/ SessionDies(l) \/ closeUpstreamLink(l) \/ handleUpstreamSessionClose(l)
               \/ removeInboundFederationHost(l)
        PROVE  FederationTypeOK'
    BY <2>5, LinkActionTypes
  <2>6. ASSUME NEW h \in Hosts, Restart(h)
        PROVE  FederationTypeOK'
    BY <2>6, RestartTypes
  <2>7. ASSUME UNCHANGED federationVars
        PROVE  FederationTypeOK'
    BY <2>7 DEF FederationTypeOK, federationVars, bounds
  <2> QED BY <2>2, <2>3, <2>4, <2>5, <2>6, <2>7 DEF FederationNext
<1> QED BY <1>1, TypesInit, PTL DEF FederationSpec

----------------------------------------------------------------------------
(* The links between Hosts and what is imported over them *)

\* What a Host has of a link it dials, and of one that is dialled to it.
UpHolds(l) == upstream[l] # 0 \/ pending[l] # 0 \/ l \in failed
InHolds(l) == inbound[l] # 0 \/ l \in overtaken

\* Host h has a link to owner k.
Linked(h, k) ==
    \E l \in Links : \/ l[1] = h /\ UpstreamId(l) = k /\ UpHolds(l)
                     \/ l[2] = h /\ Id(l[1]) = k /\ InHolds(l)

\* The part of LinkInv that is about one link at a time.
LinksInStep == \A l \in Links : SessionInStep(l) /\ CloseInStep(l) /\ WireInStep(l)

\* A link joins two different Hosts.
LEMMA LinkProperties ==
    ASSUME NEW l \in Links
    PROVE  /\ l[1] \in Hosts /\ l[2] \in Hosts /\ l = <<l[1], l[2]>> /\ l[1] # l[2]
  BY FederationConstants

\* The pipes of a link.
LEMMA PipeProperties ==
    /\ \A l \in Links, s \in Sessions : <<l, s, "up">> \in Pipes /\ <<l, s, "down">> \in Pipes
    /\ \A p \in Pipes : /\ p[1] \in Links /\ p[2] \in Sessions /\ p[3] \in {"up", "down"}
                        /\ p = <<p[1], p[2], p[3]>>
    /\ 0 \notin Sessions
  BY DEF Pipes, Sessions

\* The parts of the invariant, in the state before and in the one behind a step.
LEMMA LinkInvParts ==
    /\ LinkInv <=> LinkTypes /\ ImportsHaveLink /\ LinksInStep
    /\ ImportsHaveLink <=> \A h \in Hosts, k \in Owners : imported[h][k] # {} => Linked(h, k)
  BY DEF LinkInv, LinksInStep, ImportsHaveLink, Linked, UpHolds, InHolds

\* The same behind a step.
LEMMA LinkInvNext ==
    LinkTypes' /\ (\A h \in Hosts, k \in Owners : imported'[h][k] # {} => Linked(h, k)') /\ LinksInStep'
        => LinkInv'
  BY DEF LinkInv, LinksInStep, ImportsHaveLink, Linked, UpHolds, InHolds

\* advertiseFederatedRoutes and forwardFederatedLifecycleEventsExcluding write to the
\* pipes they are given.
LEMMA AdvertiseOnly ==
    ASSUME NEW w, NEW h, NEW pipes, NEW loc, NEW imp
    PROVE  /\ DOMAIN advertiseFederatedRoutes(w, h, pipes, loc, imp) = Pipes
           /\ \A p \in Pipes : p \notin pipes => advertiseFederatedRoutes(w, h, pipes, loc, imp)[p] = w[p]
  BY DEF advertiseFederatedRoutes

\* The same for the lifecycle events.
LEMMA ForwardOnly ==
    ASSUME NEW w, NEW h, NEW pipes, NEW from, NEW event
    PROVE  /\ DOMAIN forwardLifecycleEvents(w, h, pipes, from, event) = Pipes
           /\ \A p \in Pipes : p \notin pipes => forwardLifecycleEvents(w, h, pipes, from, event)[p] = w[p]
  BY DEF forwardLifecycleEvents

\* What Host h writes to is read on a session its reader has, or dials.
LEMMA WritableInStep ==
    ASSUME LinksInStep, NEW h, NEW p \in Pipes0(h)
    PROVE  /\ p \in Pipes
           /\ p[3] = "up" => inbound[p[1]] = p[2] \/ p[1] \in overtaken
           /\ p[3] = "down" => p[2] \in {pending[p[1]], upstream[p[1]]}
<1>1. /\ p \in Pipes /\ <<p[1], p[2]>> \in alive
      /\ IF p[3] = "up" THEN upstream[p[1]] = p[2] ELSE inbound[p[1]] = p[2] /\ p[1] \in routed
  BY DEF Pipes0, Writable
<1>2. p[1] \in Links /\ p[2] \in Sessions
  BY <1>1, PipeProperties
<1>3. SessionInStep(p[1])
  BY <1>2 DEF LinksInStep
<1> QED BY <1>1, <1>2, <1>3 DEF SessionInStep

\* A step that leaves the links alone and writes as Host h.
LEMMA LinksAlone ==
    ASSUME LinksInStep, UNCHANGED links, NEW h,
           \A p \in Pipes : wire'[p] # <<>> => wire[p] # <<>> \/ p \in Pipes0(h)
    PROVE  LinksInStep'
<1>1. /\ upstream' = upstream /\ pending' = pending /\ inbound' = inbound /\ routed' = routed
      /\ alive' = alive /\ handlers' = handlers /\ closes' = closes /\ dialled' = dialled
      /\ overtaken' = overtaken
  BY DEF links
<1> SUFFICES ASSUME NEW l \in Links
             PROVE  SessionInStep(l)' /\ CloseInStep(l)' /\ WireInStep(l)'
  BY DEF LinksInStep
<1>2. SessionInStep(l) /\ CloseInStep(l) /\ WireInStep(l)
  BY DEF LinksInStep
<1>3. SessionInStep(l)' /\ CloseInStep(l)'
  BY <1>1, <1>2 DEF SessionInStep, CloseInStep
<1>4. WireInStep(l)'
  <2> SUFFICES ASSUME NEW s \in Sessions
               PROVE  /\ wire'[<<l, s, "up">>] # <<>> => inbound[l] = s \/ l \in overtaken
                      /\ wire'[<<l, s, "down">>] # <<>> => s \in {pending[l], upstream[l]}
    BY <1>1 DEF WireInStep
  <2>1. <<l, s, "up">> \in Pipes /\ <<l, s, "down">> \in Pipes
    BY PipeProperties
  <2>2. <<l, s, "up">> \in Pipes0(h) => inbound[l] = s \/ l \in overtaken
    BY WritableInStep
  <2>3. <<l, s, "down">> \in Pipes0(h) => s \in {pending[l], upstream[l]}
    BY WritableInStep
  <2> QED BY <1>2, <2>1, <2>2, <2>3 DEF WireInStep
<1> QED BY <1>3, <1>4

\* A change of the local routes.
LEMMA ChangeLinks ==
    ASSUME LinkInv, NEW r, NEW type, NEW loc, Change(r, type, loc)
    PROVE  LinkInv'
<1> DEFINE h == Home[r]
<1>1. PICK w : wire' = advertiseFederatedRoutes(w, h, Pipes0(h), loc, imported)
               /\ (\A p \in Pipes : p \notin Pipes0(h) => w[p] = wire[p])
  BY ForwardOnly DEF Change
<1>2. UNCHANGED links /\ imported' = imported
  BY DEF Change
<1>3. DOMAIN wire' = Pipes /\ \A p \in Pipes : wire'[p] # <<>> => wire[p] # <<>> \/ p \in Pipes0(h)
  BY <1>1, AdvertiseOnly
<1>4. LinkTypes /\ LinksInStep /\ \A x \in Hosts, g \in Owners : imported[x][g] # {} => Linked(x, g)
  BY LinkInvParts
<1>5. LinksInStep'
  BY <1>2, <1>3, <1>4, LinksAlone
<1>6. LinkTypes'
  BY <1>2, <1>3, <1>4 DEF LinkTypes, links
<1>7. \A x \in Hosts, g \in Owners : imported'[x][g] # {} => Linked(x, g)'
  BY <1>2, <1>4 DEF Linked, UpHolds, InHolds, links
<1> QED BY <1>5, <1>6, <1>7, LinkInvNext

\* A frame that is read: its reader has the link, or dials it.
LEMMA ReceiveLinks ==
    ASSUME LinkInv, NEW p \in Pipes, Receive(p)
    PROVE  LinkInv'
<1> DEFINE h == Reader(p)
           g == Owner(p)
           w == [wire EXCEPT ![p] = Tail(@)]
<1>1. LinkTypes /\ LinksInStep /\ \A x \in Hosts, y \in Owners : imported[x][y] # {} => Linked(x, y)
  BY LinkInvParts
<1>2. wire[p] # <<>> /\ UNCHANGED links
  BY DEF Receive
<1>3. p[1] \in Links /\ p[2] \in Sessions /\ p[3] \in {"up", "down"} /\ p = <<p[1], p[2], p[3]>>
  BY PipeProperties
<1>4. h \in Hosts /\ g \in Owners /\ Linked(h, g)
  <2>1. WireInStep(p[1])
    BY <1>1, <1>3 DEF LinksInStep
  <2>2. CASE p[3] = "up"
    <3>1. h = p[1][2] /\ g = Id(p[1][1]) /\ h \in Hosts /\ g \in Owners
      BY <1>3, <2>2, LinkProperties, PipeOwner DEF Reader, Sender, Owner
    <3>2. (inbound[p[1]] = p[2] \/ p[1] \in overtaken) /\ p[2] # 0
      BY <1>2, <1>3, <2>1, <2>2, PipeProperties DEF WireInStep
    <3> QED BY <1>3, <3>1, <3>2 DEF Linked, InHolds
  <2>3. CASE p[3] = "down"
    <3>1. h = p[1][1] /\ g = UpstreamId(p[1]) /\ h \in Hosts /\ g \in Owners
      BY <1>3, <2>3, LinkProperties, PipeOwner DEF Reader, Owner
    <3>2. p[2] \in {pending[p[1]], upstream[p[1]]} /\ p[2] # 0
      BY <1>2, <1>3, <2>1, <2>3, PipeProperties DEF WireInStep
    <3> QED BY <1>3, <3>1, <3>2 DEF Linked, UpHolds
  <2> QED BY <1>3, <2>2, <2>3
<1>5. \A q \in Pipes : w[q] # <<>> => wire[q] # <<>>
  BY <1>1, <1>2 DEF LinkTypes
<1> HIDE DEF h, g
<1>6. /\ DOMAIN wire' = Pipes
      /\ \A q \in Pipes : wire'[q] # <<>> => w[q] # <<>> \/ q \in Pipes0(h)
  <2>1. DOMAIN w = Pipes
    BY <1>1 DEF LinkTypes
  <2>2. \/ wire' = w
        \/ \E imp : wire' = advertiseFederatedRoutes(w, h, Pipes0(h), local, imp)
        \/ \E event : wire' = forwardLifecycleEvents(w, h, Pipes0(h), g, event)
    BY DEF Receive, setImportedFederatedRoutes, handleLifecycle, h, g
  <2> HIDE DEF w
  <2> QED BY <2>1, <2>2, AdvertiseOnly, ForwardOnly
<1>7. /\ DOMAIN imported' = Hosts /\ \A x \in Hosts : DOMAIN imported'[x] = Owners
      /\ \A x \in Hosts, y \in Owners : imported'[x][y] # {} => imported[x][y] # {} \/ (x = h /\ y = g)
  <2>1. \/ imported' = imported
        \/ \E S : imported' = [imported EXCEPT ![h][g] = S]
    BY DEF Receive, setImportedFederatedRoutes, handleLifecycle, setImportedRoutes,
           removeImportedRoute, h, g
  <2> QED BY <1>1, <1>4, <2>1 DEF LinkTypes
<1> HIDE DEF w
<1>8. LinksInStep'
  BY <1>1, <1>2, <1>5, <1>6, LinksAlone
<1>9. LinkTypes'
  BY <1>1, <1>2, <1>6, <1>7 DEF LinkTypes, links
<1>10. \A x \in Hosts, y \in Owners : Linked(x, y) => Linked(x, y)'
  BY <1>2 DEF Linked, UpHolds, InHolds, links
<1>11. \A x \in Hosts, y \in Owners : imported'[x][y] # {} => Linked(x, y)'
  BY <1>1, <1>4, <1>7, <1>10
<1> QED BY <1>8, <1>9, <1>11, LinkInvNext

\* A step of link l leaves the other links alone.
OthersAlone(l) ==
    \A k \in Links \ {l} :
        /\ upstream'[k] = upstream[k] /\ pending'[k] = pending[k] /\ inbound'[k] = inbound[k]
        /\ dialled'[k] = dialled[k]
        /\ k \in failed' <=> k \in failed
        /\ k \in routed' <=> k \in routed
        /\ k \in overtaken' <=> k \in overtaken
        /\ \A s \in {0} \cup Sessions :
             /\ <<k, s>> \in alive' <=> <<k, s>> \in alive
             /\ \A e \in {"session", "stream"} :
                  /\ <<k, s, e>> \in handlers' <=> <<k, s, e>> \in handlers
                  /\ <<k, s, e>> \in closes' <=> <<k, s, e>> \in closes

\* A step of link l, by what it does to that link, to the pipes W and to the imports over it.
LEMMA LinkStep ==
    ASSUME LinkInv, LinkTypes', NEW l \in Links, OthersAlone(l), NEW h, NEW W,
           \A p \in Pipes : wire'[p] # <<>> => wire[p] # <<>> \/ p \in W,
           \A p \in W : p[1] # l => p \in Pipes0(h),
           SessionInStep(l)', CloseInStep(l)', WireInStep(l)',
           \A x \in Hosts, y \in Owners : imported'[x][y] # {} => imported[x][y] # {},
           UpHolds(l) => UpHolds(l)' \/ imported'[l[1]][UpstreamId(l)] = {},
           InHolds(l) => InHolds(l)' \/ imported'[l[2]][Id(l[1])] = {}
    PROVE  LinkInv'
<1>1. LinkTypes /\ LinksInStep /\ \A x \in Hosts, y \in Owners : imported[x][y] # {} => Linked(x, y)
  BY LinkInvParts
<1>2. ASSUME NEW k \in Links, k # l
      PROVE  SessionInStep(k)' /\ CloseInStep(k)' /\ WireInStep(k)'
  <2>1. SessionInStep(k) /\ CloseInStep(k) /\ WireInStep(k)
    BY <1>1 DEF LinksInStep
  <2>2. upstream[k] \in {0} \cup Sessions /\ inbound[k] \in {0} \cup Sessions
    BY <1>1 DEF LinkTypes
  <2>3. k \in Links \ {l}
    BY <1>2
  <2>4. /\ upstream'[k] = upstream[k] /\ pending'[k] = pending[k] /\ inbound'[k] = inbound[k]
        /\ dialled'[k] = dialled[k]
        /\ k \in routed' <=> k \in routed
        /\ k \in overtaken' <=> k \in overtaken
        /\ \A s \in {0} \cup Sessions :
             /\ <<k, s>> \in alive' <=> <<k, s>> \in alive
             /\ \A e \in {"session", "stream"} :
                  /\ <<k, s, e>> \in handlers' <=> <<k, s, e>> \in handlers
                  /\ <<k, s, e>> \in closes' <=> <<k, s, e>> \in closes
    BY <2>3 DEF OthersAlone
  <2>5. SessionInStep(k)'
    BY <2>1, <2>2, <2>4 DEF SessionInStep
  <2>6. CloseInStep(k)'
    BY <2>1, <2>2, <2>4 DEF CloseInStep
  <2>7. WireInStep(k)'
    <3> SUFFICES ASSUME NEW s \in Sessions
                 PROVE  /\ wire'[<<k, s, "up">>] # <<>> => inbound[k] = s \/ k \in overtaken
                        /\ wire'[<<k, s, "down">>] # <<>> => s \in {pending[k], upstream[k]}
      BY <2>4 DEF WireInStep
    <3>1. <<k, s, "up">> \in Pipes /\ <<k, s, "down">> \in Pipes
      BY PipeProperties
    <3>2. <<k, s, "up">> \in W => inbound[k] = s \/ k \in overtaken
      <4>1. <<k, s, "up">> \in W => <<k, s, "up">> \in Pipes0(h)
        BY <1>2
      <4> QED BY <1>1, <4>1, WritableInStep
    <3>3. <<k, s, "down">> \in W => s \in {pending[k], upstream[k]}
      <4>1. <<k, s, "down">> \in W => <<k, s, "down">> \in Pipes0(h)
        BY <1>2
      <4> QED BY <1>1, <4>1, WritableInStep
    <3> QED BY <2>1, <3>1, <3>2, <3>3 DEF WireInStep
  <2> QED BY <2>5, <2>6, <2>7
<1>3. LinksInStep'
  <2>1. \A k \in Links : SessionInStep(k)' /\ CloseInStep(k)' /\ WireInStep(k)'
    BY <1>2
  <2> QED BY <2>1 DEF LinksInStep
<1>4. ASSUME NEW x \in Hosts, NEW y \in Owners, imported'[x][y] # {}
      PROVE  Linked(x, y)'
  <2>1. PICK k \in Links : \/ k[1] = x /\ UpstreamId(k) = y /\ UpHolds(k)
                           \/ k[2] = x /\ Id(k[1]) = y /\ InHolds(k)
    BY <1>1, <1>4 DEF Linked
  <2>2. (UpHolds(k) /\ k # l => UpHolds(k)') /\ (InHolds(k) /\ k # l => InHolds(k)')
    BY DEF OthersAlone, UpHolds, InHolds
  <2>3. \/ k[1] = x /\ UpstreamId(k) = y /\ UpHolds(k)'
        \/ k[2] = x /\ Id(k[1]) = y /\ InHolds(k)'
    BY <1>4, <2>1, <2>2
  <2> QED BY <2>3 DEF Linked
<1> QED BY <1>3, <1>4, LinkInvNext

\* connectUpstream up to its first await: a session nobody has seen.
LEMMA ConnectLinks ==
    ASSUME LinkInv, NEW l \in Links, connectUpstream(l)
    PROVE  LinkInv'
<1> DEFINE n == dialled[l] + 1
<1>1. LinkTypes /\ LinksInStep
  BY LinkInvParts
<1>2. SessionInStep(l) /\ CloseInStep(l) /\ WireInStep(l)
  BY <1>1 DEF LinksInStep
<1>3. dialled[l] \in Nat /\ n \in Sessions /\ n # 0 /\ inbound[l] \in {0} \cup Sessions
  <2>1. dialled[l] \in Nat /\ dialled[l] < MaxSessions /\ MaxSessions \in Nat
    BY <1>1, FederationConstants DEF LinkTypes, connectUpstream
  <2>2. inbound[l] \in {0} \cup Sessions
    BY <1>1 DEF LinkTypes
  <2> QED BY <2>1, <2>2 DEF Sessions
<1>4. /\ dialled' = [dialled EXCEPT ![l] = n] /\ pending' = [pending EXCEPT ![l] = n]
      /\ alive' = alive \cup {<<l, n>>} /\ failed' = failed \ {l}
      /\ UNCHANGED <<imported, upstream, inbound, routed, handlers, closes, overtaken, wire>>
      /\ upstream[l] = 0 /\ pending[l] = 0
  <2>1. dialled' = [dialled EXCEPT ![l] = n]
    BY DEF connectUpstream
  <2>2. dialled'[l] = n
    BY <1>1, <2>1 DEF LinkTypes
  <2> HIDE DEF n
  <2> QED BY <2>1, <2>2 DEF connectUpstream
<1> HIDE DEF n
<1>5. /\ pending'[l] = n /\ dialled'[l] = n
      /\ \A k \in Links \ {l} : pending'[k] = pending[k] /\ dialled'[k] = dialled[k]
  BY <1>1, <1>4 DEF LinkTypes
<1>6. OthersAlone(l)
  BY <1>4, <1>5 DEF OthersAlone
<1>7. LinkTypes'
  <2>1. dialled' \in [Links -> Nat]
    BY <1>1, <1>3, <1>4 DEF LinkTypes, n
  <2>2. pending' \in [Links -> {0} \cup Sessions] /\ alive' \subseteq Links \X Sessions
    BY <1>1, <1>3, <1>4 DEF LinkTypes
  <2> QED BY <1>1, <1>4, <2>1, <2>2 DEF LinkTypes
<1>8. SessionInStep(l)'
  <2>1. \A s \in Sessions : <<l, s>> \notin alive
    BY <1>2, <1>4, PipeProperties DEF SessionInStep
  <2>2. <<l, upstream'[l]>> \notin alive'
    BY <1>4, <1>7, PipeProperties DEF LinkTypes
  <2>3. n <= n /\ inbound[l] <= n /\ 0 <= n
    <3>1. inbound[l] <= dialled[l] /\ inbound[l] \in Nat
      BY <1>2, <1>3 DEF SessionInStep, Sessions
    <3> QED BY <1>3, <3>1 DEF n
  <2> QED BY <1>4, <1>5, <2>1, <2>2, <2>3 DEF SessionInStep
<1>9. CloseInStep(l)'
  <2>1. \A s \in Sessions : s <= dialled[l] => s # n /\ s <= n
    BY <1>3 DEF Sessions, n
  <2> QED BY <1>2, <1>4, <1>5, <2>1 DEF CloseInStep
<1>10. WireInStep(l)'
  BY <1>2, <1>4, PipeProperties DEF WireInStep
<1>11. /\ UpHolds(l) => UpHolds(l)' \/ imported'[l[1]][UpstreamId(l)] = {}
       /\ InHolds(l) => InHolds(l)' \/ imported'[l[2]][Id(l[1])] = {}
  BY <1>3, <1>4, <1>5 DEF UpHolds, InHolds
<1>12. \A p \in Pipes : wire'[p] # <<>> => wire[p] # <<>> \/ p \in {}
  BY <1>4
<1>13. \A x \in Hosts, y \in Owners : imported'[x][y] # {} => imported[x][y] # {}
  BY <1>4
<1>14. \A p \in {} : p[1] # l => p \in Pipes0(l[1])
  OBVIOUS
<1> QED BY <1>6, <1>7, <1>8, <1>9, <1>10, <1>11, <1>12, <1>13, <1>14, LinkStep

\* What an action on link l may use.
LEMMA LinkFacts ==
    ASSUME LinkInv, NEW l \in Links
    PROVE  /\ LinkTypes /\ LinksInStep
           /\ SessionInStep(l) /\ CloseInStep(l) /\ WireInStep(l)
           /\ upstream[l] \in {0} \cup Sessions /\ pending[l] \in {0} \cup Sessions
           /\ inbound[l] \in {0} \cup Sessions /\ dialled[l] \in Nat
           /\ l[1] \in Hosts /\ l[2] \in Hosts /\ l = <<l[1], l[2]>> /\ l[1] # l[2]
           /\ UpstreamId(l) \in Owners /\ Id(l[1]) \in Owners
           /\ 0 \notin Sessions /\ <<l, 0>> \notin alive
<1>1. LinkTypes /\ LinksInStep
  BY LinkInvParts
<1>2. l[1] \in Hosts /\ l[2] \in Hosts /\ l = <<l[1], l[2]>> /\ l[1] # l[2]
  BY LinkProperties
<1>3. SessionInStep(l) /\ CloseInStep(l) /\ WireInStep(l)
  BY <1>1 DEF LinksInStep
<1>4. /\ upstream[l] \in {0} \cup Sessions /\ pending[l] \in {0} \cup Sessions
      /\ inbound[l] \in {0} \cup Sessions /\ dialled[l] \in Nat
  BY <1>1 DEF LinkTypes
<1>5. <<l, 0>> \notin alive
  BY <1>1, PipeProperties DEF LinkTypes
<1> QED BY <1>1, <1>2, <1>3, <1>4, <1>5, PipeProperties, OwnerProperties

\* handleHostFederationStream: the upstream has the session that is dialled.
LEMMA AdmitLinks ==
    ASSUME LinkInv, NEW l \in Links, handleHostFederationStream(l)
    PROVE  LinkInv'
<1>1. /\ pending[l] # 0 /\ <<l, pending[l]>> \in alive /\ inbound[l] = 0
      /\ inbound' = [inbound EXCEPT ![l] = pending[l]]
      /\ handlers' = handlers \cup {<<l, pending[l], "session">>}
      /\ UNCHANGED <<imported, upstream, pending, failed, routed, alive, dialled, closes,
                     overtaken, wire>>
  BY DEF handleHostFederationStream, HandshakeSent
<1>2. LinkTypes'
  <2>1. LinkTypes /\ pending[l] \in Sessions
    BY <1>1, LinkFacts
  <2>2. handlers' \subseteq Links \X Sessions \X {"session", "stream"}
    BY <1>1, <2>1 DEF LinkTypes
  <2> QED BY <1>1, <2>1, <2>2 DEF LinkTypes
<1>3. inbound'[l] = pending[l] /\ \A k \in Links \ {l} : inbound'[k] = inbound[k]
  BY <1>1, LinkFacts DEF LinkTypes
<1>4. OthersAlone(l)
  BY <1>1, <1>3 DEF OthersAlone
<1>5. SessionInStep(l)'
  <2>1. SessionInStep(l) /\ <<l, 0>> \notin alive
    BY LinkFacts
  <2> QED BY <1>1, <1>3, <2>1 DEF SessionInStep
<1>6. CloseInStep(l)'
  <2>1. CloseInStep(l) /\ 0 \notin Sessions
    BY LinkFacts
  <2> QED BY <1>1, <1>3, <2>1 DEF CloseInStep
<1>7. WireInStep(l)'
  BY <1>1, <1>3, LinkFacts DEF WireInStep
<1>8. /\ UpHolds(l) => UpHolds(l)' \/ imported'[l[1]][UpstreamId(l)] = {}
      /\ InHolds(l) => InHolds(l)' \/ imported'[l[2]][Id(l[1])] = {}
  BY <1>1, <1>3 DEF UpHolds, InHolds
<1>9. /\ \A p \in Pipes : wire'[p] # <<>> => wire[p] # <<>> \/ p \in {}
      /\ \A x \in Hosts, y \in Owners : imported'[x][y] # {} => imported[x][y] # {}
      /\ \A p \in {} : p[1] # l => p \in Pipes0(l[1])
  BY <1>1
<1> QED BY <1>2, <1>4, <1>5, <1>6, <1>7, <1>8, <1>9, LinkStep

\* handleHostFederationRouteStream: the first table goes to the Host that dials.
LEMMA AttachLinks ==
    ASSUME LinkInv, NEW l \in Links, handleHostFederationRouteStream(l)
    PROVE  LinkInv'
<1> DEFINE q == <<l, pending[l], "down">>
<1>1. /\ pending[l] # 0 /\ <<l, pending[l]>> \in alive /\ inbound[l] = pending[l]
      /\ routed' = routed \cup {l} /\ handlers' = handlers \cup {<<l, pending[l], "stream">>}
      /\ \E f : wire' = [wire EXCEPT ![q] = f]
      /\ UNCHANGED <<imported, upstream, pending, failed, inbound, alive, dialled, closes,
                     overtaken>>
  BY DEF handleHostFederationRouteStream, HandshakeSent
<1>2. LinkTypes'
  <2>1. LinkTypes /\ pending[l] \in Sessions
    BY <1>1, LinkFacts
  <2>2. handlers' \subseteq Links \X Sessions \X {"session", "stream"}
    BY <1>1, <2>1 DEF LinkTypes
  <2> QED BY <1>1, <2>1, <2>2 DEF LinkTypes
<1>3. OthersAlone(l)
  BY <1>1 DEF OthersAlone
<1>4. SessionInStep(l)'
  BY <1>1, LinkFacts DEF SessionInStep
<1>5. CloseInStep(l)'
  BY <1>1, LinkFacts DEF CloseInStep
<1>6. \A p \in Pipes : p # q => wire'[p] = wire[p]
  BY <1>1, LinkFacts DEF LinkTypes
<1>7. WireInStep(l)'
  <2> SUFFICES ASSUME NEW s \in Sessions
               PROVE  /\ wire'[<<l, s, "up">>] # <<>> => inbound[l] = s \/ l \in overtaken
                      /\ wire'[<<l, s, "down">>] # <<>> => s \in {pending[l], upstream[l]}
    BY <1>1 DEF WireInStep
  <2>1. wire'[<<l, s, "up">>] = wire[<<l, s, "up">>]
    BY <1>6, PipeProperties
  <2>2. s # pending[l] => wire'[<<l, s, "down">>] = wire[<<l, s, "down">>]
    BY <1>6, PipeProperties
  <2> QED BY <2>1, <2>2, LinkFacts DEF WireInStep
<1>8. /\ UpHolds(l) => UpHolds(l)' \/ imported'[l[1]][UpstreamId(l)] = {}
      /\ InHolds(l) => InHolds(l)' \/ imported'[l[2]][Id(l[1])] = {}
  BY <1>1 DEF UpHolds, InHolds
<1>9. /\ \A p \in Pipes : wire'[p] # <<>> => wire[p] # <<>> \/ p \in {q}
      /\ \A x \in Hosts, y \in Owners : imported'[x][y] # {} => imported[x][y] # {}
      /\ \A p \in {q} : p[1] # l => p \in Pipes0(l[1])
  BY <1>1, <1>6
<1> DEFINE W == {q}
<1>10. /\ \A p \in Pipes : wire'[p] # <<>> => wire[p] # <<>> \/ p \in W
       /\ \A p \in W : p[1] # l => p \in Pipes0(l[1])
  BY <1>9
<1> HIDE DEF q, W
<1> QED BY <1>2, <1>3, <1>4, <1>5, <1>7, <1>8, <1>9, <1>10, LinkStep

\* Connected: the dialled session is the one both ends have.
LEMMA ConnectedLinks ==
    ASSUME LinkInv, NEW l \in Links, Connected(l)
    PROVE  LinkInv'
<1> DEFINE s0 == pending[l]
           up == [upstream EXCEPT ![l] = s0]
           W == Writable(l[1], up, inbound, routed, alive)
<1>1. /\ s0 # 0 /\ <<l, s0>> \in alive /\ <<l, s0, "stream">> \in handlers
      /\ upstream' = up /\ pending' = [pending EXCEPT ![l] = 0]
      /\ wire' = advertiseFederatedRoutes(wire, l[1], W, local, imported)
      /\ UNCHANGED <<imported, failed, inbound, routed, alive, dialled, handlers, closes, overtaken>>
  BY DEF Connected, HandshakeSent
<1>2. /\ upstream'[l] = s0 /\ pending'[l] = 0
      /\ \A k \in Links \ {l} : upstream'[k] = upstream[k] /\ pending'[k] = pending[k]
  BY <1>1, LinkFacts DEF LinkTypes
<1>3. /\ DOMAIN wire' = Pipes
      /\ \A p \in Pipes : wire'[p] # <<>> => wire[p] # <<>> \/ p \in W
  BY <1>1, AdvertiseOnly
<1>4. /\ \A p \in W : p[1] # l => p \in Pipes0(l[1])
      /\ \A p \in W : p[1] = l => p[2] = s0 /\ p[3] = "up"
  <2> SUFFICES ASSUME NEW p \in W
               PROVE  (p[1] # l => p \in Pipes0(l[1])) /\ (p[1] = l => p[2] = s0 /\ p[3] = "up")
    OBVIOUS
  <2>1. /\ p \in Pipes /\ Sender(p) = l[1] /\ <<p[1], p[2]>> \in alive
        /\ IF p[3] = "up" THEN up[p[1]] = p[2] ELSE inbound[p[1]] = p[2] /\ p[1] \in routed
    BY DEF Writable
  <2>2. p[1] \in Links
    BY <2>1, PipeProperties
  <2>3. p[1] # l => up[p[1]] = upstream[p[1]]
    BY <1>1, <1>2, <2>2
  <2>4. p[1] = l => p[3] = "up"
    BY <2>1, LinkProperties DEF Sender
  <2>5. p[1] = l => p[2] = s0
    BY <1>1, <1>2, <2>1, <2>4
  <2> QED BY <2>1, <2>3, <2>4, <2>5 DEF Pipes0, Writable
<1> HIDE DEF W
<1>5. LinkTypes'
  BY <1>1, <1>3, LinkFacts DEF LinkTypes
<1>6. OthersAlone(l)
  BY <1>1, <1>2 DEF OthersAlone
<1>7. SessionInStep(l)'
  <2>1. upstream[l] = 0
    BY <1>1, LinkFacts DEF SessionInStep
  <2>2. 0 <= dialled[l]
    <3>1. dialled[l] \in Nat
      BY LinkFacts
    <3> QED BY <3>1
  <2>3. SessionInStep(l) /\ CloseInStep(l) /\ s0 \in Sessions
    BY <1>1, LinkFacts
  <2>4. l \in overtaken \/ (inbound[l] = s0 /\ l \in routed)
    BY <1>1, <2>3 DEF CloseInStep
  <2> QED BY <1>1, <1>2, <2>1, <2>2, <2>3, <2>4 DEF SessionInStep
<1>8. CloseInStep(l)'
  BY <1>1, LinkFacts DEF CloseInStep
<1>9. WireInStep(l)'
  <2> SUFFICES ASSUME NEW s \in Sessions
               PROVE  /\ wire'[<<l, s, "up">>] # <<>> => inbound[l] = s \/ l \in overtaken
                      /\ wire'[<<l, s, "down">>] # <<>> => s = s0
    BY <1>1, <1>2 DEF WireInStep
  <2>1. <<l, s, "up">> \in Pipes /\ <<l, s, "down">> \in Pipes
    BY PipeProperties
  <2>2. (<<l, s, "up">> \in W => s = s0) /\ <<l, s, "down">> \notin W
    BY <1>4
  <2>3. upstream[l] = 0 /\ 0 \notin Sessions
    BY <1>1, LinkFacts DEF SessionInStep
  <2>4. WireInStep(l) /\ CloseInStep(l) /\ s0 \in Sessions
    BY <1>1, LinkFacts
  <2>5. l \in overtaken \/ inbound[l] = s0
    BY <1>1, <2>4 DEF CloseInStep
  <2> QED BY <1>1, <1>3, <2>1, <2>2, <2>3, <2>4, <2>5 DEF WireInStep
<1>10. /\ UpHolds(l) => UpHolds(l)' \/ imported'[l[1]][UpstreamId(l)] = {}
       /\ InHolds(l) => InHolds(l)' \/ imported'[l[2]][Id(l[1])] = {}
  BY <1>1, <1>2 DEF UpHolds, InHolds
<1>11. \A x \in Hosts, y \in Owners : imported'[x][y] # {} => imported[x][y] # {}
  BY <1>1
<1> QED BY <1>3, <1>4, <1>5, <1>6, <1>7, <1>8, <1>9, <1>10, <1>11, LinkStep

\* A session that is destroyed: the handlers the upstream has on it will run.
LEMMA DestroyFacts ==
    ASSUME LinkInv, NEW l \in Links, NEW s \in Sessions, Destroy(l, s)
    PROVE  /\ alive' \subseteq Links \X Sessions /\ alive' = alive \ {<<l, s>>}
           /\ handlers' \subseteq Links \X Sessions \X {"session", "stream"}
           /\ closes' \subseteq Links \X Sessions \X {"session", "stream"}
           /\ \A k \in Links, n \in {0} \cup Sessions, e \in {"session", "stream"} : k # l =>
                 /\ <<k, n, e>> \in handlers' <=> <<k, n, e>> \in handlers
                 /\ <<k, n, e>> \in closes' <=> <<k, n, e>> \in closes
           /\ UNCHANGED <<inbound, routed, dialled, overtaken>> => CloseInStep(l)'
<1>1. LinkTypes /\ SessionInStep(l) /\ CloseInStep(l)
  BY LinkFacts
<1>2. /\ alive' = alive \ {<<l, s>>}
      /\ handlers' = {x \in handlers : ~(x[1] = l /\ x[2] = s)}
      /\ closes' = closes \cup {x \in handlers : x[1] = l /\ x[2] = s}
  BY DEF Destroy, HandlersOf
<1>3. /\ alive' \subseteq Links \X Sessions
      /\ handlers' \subseteq Links \X Sessions \X {"session", "stream"}
      /\ closes' \subseteq Links \X Sessions \X {"session", "stream"}
  BY <1>1, <1>2 DEF LinkTypes
<1>4. \A k \in Links, n \in {0} \cup Sessions, e \in {"session", "stream"} :
         /\ <<k, n, e>> \in handlers' <=> <<k, n, e>> \in handlers /\ ~(k = l /\ n = s)
         /\ <<k, n, e>> \in closes' <=>
              <<k, n, e>> \in closes \/ (<<k, n, e>> \in handlers /\ k = l /\ n = s)
  BY <1>2
<1>5. ASSUME UNCHANGED <<inbound, routed, dialled, overtaken>>
      PROVE  CloseInStep(l)'
  <2>1. inbound[l] \in {0} \cup Sessions
    BY LinkFacts
  <2>2. \A n \in Sessions, e \in {"session", "stream"} : <<l, n, e>> \in handlers => n <= dialled[l]
    BY <1>1 DEF SessionInStep, CloseInStep
  <2>3. \A n \in Sessions : <<l, n>> \in alive' <=> <<l, n>> \in alive /\ n # s
    BY <1>2
  <2>4. inbound[l] # 0 => <<l, inbound[l], "session">> \in handlers' \cup closes'
    BY <1>1, <1>4, <2>1 DEF CloseInStep
  <2>5. \A n \in Sessions : <<l, n, "stream">> \in handlers' =>
            l \in overtaken \/ (inbound[l] = n /\ l \in routed)
    BY <1>1, <1>4 DEF CloseInStep
  <2>6. \A n \in Sessions, e \in {"session", "stream"} :
            /\ <<l, n, e>> \in handlers' => <<l, n>> \in alive'
            /\ <<l, n, e>> \in closes' => <<l, n>> \notin alive' /\ n <= dialled[l]
    BY <1>1, <1>4, <2>2, <2>3 DEF CloseInStep
  <2> QED BY <1>5, <2>4, <2>5, <2>6 DEF CloseInStep
<1> QED BY <1>2, <1>3, <1>4, <1>5

\* removeImportedRoutes of Host h for owner g.
LEMMA WithdrawFacts ==
    ASSUME LinkTypes, NEW h \in Hosts, NEW g \in Owners, imported' = removeImportedRoutes(h, g)
    PROVE  /\ DOMAIN imported' = Hosts /\ \A x \in Hosts : DOMAIN imported'[x] = Owners
           /\ imported'[h][g] = {}
           /\ \A x \in Hosts, y \in Owners : imported'[x][y] # {} => imported[x][y] # {}
<1>1. imported' = [imported EXCEPT ![h][g] = {}]
  BY DEF removeImportedRoutes
<1>2. DOMAIN imported = Hosts /\ \A x \in Hosts : DOMAIN imported[x] = Owners
  BY DEF LinkTypes
<1> QED BY <1>1, <1>2

\* connectUpstream fails: what was imported meanwhile is left, on a link that failed.
LEMMA FailsLinks ==
    ASSUME LinkInv, NEW l \in Links, ConnectFails(l)
    PROVE  LinkInv'
<1> DEFINE s0 == pending[l]
           q == <<l, s0, "down">>
<1>1. /\ s0 # 0 /\ Destroy(l, s0) /\ pending' = [pending EXCEPT ![l] = 0]
      /\ failed' = failed \cup {l} /\ wire' = [wire EXCEPT ![q] = <<>>]
      /\ UNCHANGED <<imported, upstream, inbound, routed, dialled, overtaken>>
  BY DEF ConnectFails, HandshakeGivesUp
<1>2. s0 \in Sessions /\ upstream[l] = 0
  BY <1>1, LinkFacts DEF SessionInStep
<1>3. pending'[l] = 0 /\ \A k \in Links \ {l} : pending'[k] = pending[k]
  BY <1>1, LinkFacts DEF LinkTypes
<1>4. /\ alive' \subseteq Links \X Sessions /\ alive' = alive \ {<<l, s0>>}
      /\ handlers' \subseteq Links \X Sessions \X {"session", "stream"}
      /\ closes' \subseteq Links \X Sessions \X {"session", "stream"}
      /\ \A k \in Links, n \in {0} \cup Sessions, e \in {"session", "stream"} : k # l =>
            /\ <<k, n, e>> \in handlers' <=> <<k, n, e>> \in handlers
            /\ <<k, n, e>> \in closes' <=> <<k, n, e>> \in closes
      /\ CloseInStep(l)'
  BY <1>1, <1>2, DestroyFacts
<1>5. wire'[q] = <<>> /\ \A p \in Pipes : p # q => wire'[p] = wire[p]
  BY <1>1, <1>2, LinkFacts, PipeProperties DEF LinkTypes
<1>6. LinkTypes'
  BY <1>1, <1>4, LinkFacts DEF LinkTypes
<1>7. OthersAlone(l)
  BY <1>1, <1>3, <1>4 DEF OthersAlone
<1>8. SessionInStep(l)'
  <2>1. SessionInStep(l) /\ <<l, 0>> \notin alive /\ dialled[l] \in Nat /\ 0 \notin Sessions
    BY LinkFacts
  <2>2. 0 <= dialled[l]
    BY <2>1
  <2> QED BY <1>1, <1>2, <1>3, <1>4, <2>1, <2>2 DEF SessionInStep
<1>9. WireInStep(l)'
  <2> SUFFICES ASSUME NEW s \in Sessions
               PROVE  /\ wire'[<<l, s, "up">>] # <<>> => inbound[l] = s \/ l \in overtaken
                      /\ wire'[<<l, s, "down">>] = <<>>
    BY <1>1 DEF WireInStep
  <2>1. wire'[<<l, s, "up">>] = wire[<<l, s, "up">>]
    BY <1>5, PipeProperties
  <2>2. s # s0 => wire'[<<l, s, "down">>] = wire[<<l, s, "down">>]
    BY <1>5, PipeProperties
  <2>3. WireInStep(l) /\ 0 \notin Sessions
    BY LinkFacts
  <2> QED BY <1>2, <1>5, <2>1, <2>2, <2>3 DEF WireInStep
<1>10. /\ UpHolds(l) => UpHolds(l)' \/ imported'[l[1]][UpstreamId(l)] = {}
       /\ InHolds(l) => InHolds(l)' \/ imported'[l[2]][Id(l[1])] = {}
  BY <1>1 DEF UpHolds, InHolds
<1>11. /\ \A p \in Pipes : wire'[p] # <<>> => wire[p] # <<>> \/ p \in {}
       /\ \A x \in Hosts, y \in Owners : imported'[x][y] # {} => imported[x][y] # {}
       /\ \A p \in {} : p[1] # l => p \in Pipes0(l[1])
  BY <1>1, <1>5
<1> HIDE DEF q
<1> QED BY <1>4, <1>6, <1>7, <1>8, <1>9, <1>10, <1>11, LinkStep

\* A connection breaks.
LEMMA DiesLinks ==
    ASSUME LinkInv, NEW l \in Links, SessionDies(l)
    PROVE  LinkInv'
<1>1. PICK s0 \in Sessions : Destroy(l, s0)
  BY DEF SessionDies
<1>2. UNCHANGED <<imported, upstream, pending, failed, inbound, routed, dialled, overtaken, wire>>
  BY DEF SessionDies
<1>3. /\ alive' \subseteq Links \X Sessions /\ alive' = alive \ {<<l, s0>>}
      /\ handlers' \subseteq Links \X Sessions \X {"session", "stream"}
      /\ closes' \subseteq Links \X Sessions \X {"session", "stream"}
      /\ \A k \in Links, n \in {0} \cup Sessions, e \in {"session", "stream"} : k # l =>
            /\ <<k, n, e>> \in handlers' <=> <<k, n, e>> \in handlers
            /\ <<k, n, e>> \in closes' <=> <<k, n, e>> \in closes
      /\ CloseInStep(l)'
  BY <1>1, <1>2, DestroyFacts
<1>4. LinkTypes'
  BY <1>2, <1>3, LinkFacts DEF LinkTypes
<1>5. OthersAlone(l)
  BY <1>2, <1>3 DEF OthersAlone
<1>6. SessionInStep(l)'
  BY <1>2, <1>3, LinkFacts DEF SessionInStep
<1>7. WireInStep(l)'
  BY <1>2, LinkFacts DEF WireInStep
<1>8. /\ UpHolds(l) => UpHolds(l)' \/ imported'[l[1]][UpstreamId(l)] = {}
      /\ InHolds(l) => InHolds(l)' \/ imported'[l[2]][Id(l[1])] = {}
  BY <1>2 DEF UpHolds, InHolds
<1>9. /\ \A p \in Pipes : wire'[p] # <<>> => wire[p] # <<>> \/ p \in {}
      /\ \A x \in Hosts, y \in Owners : imported'[x][y] # {} => imported[x][y] # {}
      /\ \A p \in {} : p[1] # l => p \in Pipes0(l[1])
  BY <1>2
<1> QED BY <1>3, <1>4, <1>5, <1>6, <1>7, <1>8, <1>9, LinkStep

\* closeUpstreamLink: the imports go while the session is still open.
LEMMA CloseLinks ==
    ASSUME LinkInv, NEW l \in Links, closeUpstreamLink(l)
    PROVE  LinkInv'
<1> DEFINE s0 == upstream[l]
           q == <<l, s0, "down">>
           w == [wire EXCEPT ![q] = <<>>]
           W == Pipes0(l[1])
<1>1. /\ s0 # 0 /\ removeImportedFederatedRoutes(w, l[1], UpstreamId(l), W) /\ Destroy(l, s0)
      /\ UNCHANGED <<upstream, pending, failed, inbound, routed, dialled, overtaken>>
  BY DEF closeUpstreamLink
<1>2. s0 \in Sessions
  BY <1>1, LinkFacts
<1>3. /\ alive' \subseteq Links \X Sessions /\ alive' = alive \ {<<l, s0>>}
      /\ handlers' \subseteq Links \X Sessions \X {"session", "stream"}
      /\ closes' \subseteq Links \X Sessions \X {"session", "stream"}
      /\ \A k \in Links, n \in {0} \cup Sessions, e \in {"session", "stream"} : k # l =>
            /\ <<k, n, e>> \in handlers' <=> <<k, n, e>> \in handlers
            /\ <<k, n, e>> \in closes' <=> <<k, n, e>> \in closes
      /\ CloseInStep(l)'
  BY <1>1, <1>2, DestroyFacts
<1>4. /\ DOMAIN imported' = Hosts /\ \A x \in Hosts : DOMAIN imported'[x] = Owners
      /\ imported'[l[1]][UpstreamId(l)] = {}
      /\ \A x \in Hosts, y \in Owners : imported'[x][y] # {} => imported[x][y] # {}
      /\ DOMAIN wire' = Pipes
      /\ \A p \in Pipes : p \notin W => wire'[p] = w[p]
  <2>1. LinkTypes /\ l[1] \in Hosts /\ l[2] \in Hosts /\ UpstreamId(l) \in Owners /\ Id(l[1]) \in Owners
    BY LinkFacts
  <2> HIDE DEF w, W
  <2>2. imported' = removeImportedRoutes(l[1], UpstreamId(l))
    BY <1>1 DEF removeImportedFederatedRoutes
  <2>3. \E imp : wire' = advertiseFederatedRoutes(w, l[1], W, local, imp)
    BY <1>1 DEF removeImportedFederatedRoutes
  <2>4. DOMAIN wire' = Pipes /\ \A p \in Pipes : p \notin W => wire'[p] = w[p]
    BY <2>3, AdvertiseOnly
  <2> QED BY <2>1, <2>2, <2>4, WithdrawFacts
<1>5. \A p \in Pipes : wire'[p] # <<>> => wire[p] # <<>> \/ p \in W
  <2>1. \A p \in Pipes : w[p] # <<>> => wire[p] # <<>>
    BY LinkFacts DEF LinkTypes
  <2> HIDE DEF w, W
  <2> QED BY <1>4, <2>1
<1> HIDE DEF w
<1>6. LinkTypes'
  BY <1>1, <1>3, <1>4, LinkFacts DEF LinkTypes
<1>7. OthersAlone(l)
  BY <1>1, <1>3 DEF OthersAlone
<1>8. SessionInStep(l)'
  BY <1>1, <1>3, LinkFacts DEF SessionInStep
<1>9. WireInStep(l)'
  <2> SUFFICES ASSUME NEW s \in Sessions
               PROVE  /\ wire'[<<l, s, "up">>] # <<>> => inbound[l] = s \/ l \in overtaken
                      /\ wire'[<<l, s, "down">>] # <<>> => s \in {pending[l], upstream[l]}
    BY <1>1 DEF WireInStep
  <2>1. <<l, s, "up">> \in Pipes /\ <<l, s, "down">> \in Pipes
    BY PipeProperties
  <2>2. LinksInStep /\ WireInStep(l)
    BY LinkFacts
  <2>3. <<l, s, "up">> \in W => inbound[l] = s \/ l \in overtaken
    BY <2>2, WritableInStep
  <2>4. <<l, s, "down">> \in W => s \in {pending[l], upstream[l]}
    BY <2>2, WritableInStep
  <2> HIDE DEF W
  <2> QED BY <1>5, <2>1, <2>2, <2>3, <2>4 DEF WireInStep
<1>10. /\ UpHolds(l) => UpHolds(l)' \/ imported'[l[1]][UpstreamId(l)] = {}
       /\ InHolds(l) => InHolds(l)' \/ imported'[l[2]][Id(l[1])] = {}
  BY <1>1, <1>4 DEF UpHolds, InHolds
<1>11. \A p \in W : p[1] # l => p \in Pipes0(l[1])
  OBVIOUS
<1> HIDE DEF W
<1> QED BY <1>3, <1>4, <1>5, <1>6, <1>7, <1>8, <1>9, <1>10, <1>11, LinkStep

\* handleUpstreamSessionClose: the session is gone and nothing is read on it any more.
LEMMA SessionCloseLinks ==
    ASSUME LinkInv, NEW l \in Links, handleUpstreamSessionClose(l)
    PROVE  LinkInv'
<1> DEFINE s0 == upstream[l]
           q == <<l, s0, "down">>
           w == [wire EXCEPT ![q] = <<>>]
           up == [upstream EXCEPT ![l] = 0]
           W == Writable(l[1], up, inbound, routed, alive)
<1>1. /\ s0 # 0 /\ <<l, s0>> \notin alive /\ upstream' = up
      /\ removeImportedFederatedRoutes(w, l[1], UpstreamId(l), W)
      /\ UNCHANGED <<pending, failed, inbound, routed, alive, dialled, handlers, closes, overtaken>>
  BY DEF handleUpstreamSessionClose
<1>2. s0 \in Sessions /\ pending[l] = 0
  BY <1>1, LinkFacts DEF SessionInStep
<1>3. upstream'[l] = 0 /\ \A k \in Links \ {l} : upstream'[k] = upstream[k]
  BY <1>1, LinkFacts DEF LinkTypes
<1>4. \A p \in W : p[1] # l /\ p \in Pipes0(l[1])
  <2> SUFFICES ASSUME NEW p \in W
               PROVE  p[1] # l /\ p \in Pipes0(l[1])
    OBVIOUS
  <2>1. /\ p \in Pipes /\ Sender(p) = l[1] /\ <<p[1], p[2]>> \in alive
        /\ IF p[3] = "up" THEN up[p[1]] = p[2] ELSE inbound[p[1]] = p[2] /\ p[1] \in routed
    BY DEF Writable
  <2>2. p[1] \in Links /\ p[2] \in Sessions /\ 0 \notin Sessions
    BY <2>1, PipeProperties
  <2>3. p[1] # l
    <3>1. SUFFICES ASSUME p[1] = l PROVE FALSE
      OBVIOUS
    <3>2. p[3] = "up"
      BY <2>1, <3>1, LinkProperties DEF Sender
    <3> QED BY <1>1, <1>3, <2>1, <2>2, <3>1, <3>2
  <2>4. up[p[1]] = upstream[p[1]]
    BY <1>1, <1>3, <2>2, <2>3
  <2> QED BY <2>1, <2>3, <2>4 DEF Pipes0, Writable
<1>5. /\ DOMAIN imported' = Hosts /\ \A x \in Hosts : DOMAIN imported'[x] = Owners
      /\ imported'[l[1]][UpstreamId(l)] = {}
      /\ \A x \in Hosts, y \in Owners : imported'[x][y] # {} => imported[x][y] # {}
      /\ DOMAIN wire' = Pipes
      /\ \A p \in Pipes : p \notin W => wire'[p] = w[p]
  <2>1. LinkTypes /\ l[1] \in Hosts /\ l[2] \in Hosts /\ UpstreamId(l) \in Owners /\ Id(l[1]) \in Owners
    BY LinkFacts
  <2> HIDE DEF w, W
  <2>2. imported' = removeImportedRoutes(l[1], UpstreamId(l))
    BY <1>1 DEF removeImportedFederatedRoutes
  <2>3. \E imp : wire' = advertiseFederatedRoutes(w, l[1], W, local, imp)
    BY <1>1 DEF removeImportedFederatedRoutes
  <2>4. DOMAIN wire' = Pipes /\ \A p \in Pipes : p \notin W => wire'[p] = w[p]
    BY <2>3, AdvertiseOnly
  <2> QED BY <2>1, <2>2, <2>4, WithdrawFacts
<1>6. w[q] = <<>> /\ \A p \in Pipes : w[p] # <<>> => wire[p] # <<>>
  BY <1>2, LinkFacts, PipeProperties DEF LinkTypes
<1> HIDE DEF w, W
<1>7. \A p \in Pipes : wire'[p] # <<>> => wire[p] # <<>> \/ p \in W
  BY <1>5, <1>6
<1>8. LinkTypes'
  BY <1>1, <1>5, LinkFacts DEF LinkTypes
<1>9. OthersAlone(l)
  BY <1>1, <1>3 DEF OthersAlone
<1>10. SessionInStep(l)'
  <2>1. SessionInStep(l) /\ <<l, 0>> \notin alive
    BY LinkFacts
  <2> QED BY <1>1, <1>2, <1>3, <2>1 DEF SessionInStep
<1>11. CloseInStep(l)'
  BY <1>1, LinkFacts DEF CloseInStep
<1>12. WireInStep(l)'
  <2> SUFFICES ASSUME NEW s \in Sessions
               PROVE  /\ wire'[<<l, s, "up">>] # <<>> => inbound[l] = s \/ l \in overtaken
                      /\ wire'[<<l, s, "down">>] = <<>>
    BY <1>1 DEF WireInStep
  <2>1. <<l, s, "up">> \in Pipes /\ <<l, s, "down">> \in Pipes
    BY PipeProperties
  <2>2. <<l, s, "up">> \notin W /\ <<l, s, "down">> \notin W
    BY <1>4
  <2>3. wire'[<<l, s, "up">>] = w[<<l, s, "up">>] /\ wire'[<<l, s, "down">>] = w[<<l, s, "down">>]
    BY <1>5, <2>1, <2>2
  <2>4. WireInStep(l) /\ 0 \notin Sessions
    BY LinkFacts
  <2> QED BY <1>2, <1>6, <2>1, <2>3, <2>4 DEF WireInStep
<1>13. /\ UpHolds(l) => UpHolds(l)' \/ imported'[l[1]][UpstreamId(l)] = {}
       /\ InHolds(l) => InHolds(l)' \/ imported'[l[2]][Id(l[1])] = {}
  BY <1>1, <1>5 DEF UpHolds, InHolds
<1>14. \A p \in W : p[1] # l => p \in Pipes0(l[1])
  BY <1>4
<1> QED BY <1>5, <1>7, <1>8, <1>9, <1>10, <1>11, <1>12, <1>13, <1>14, LinkStep

\* removeInboundFederationHost finds no entry: the other handler has run before it.
LEMMA InboundCloseEmpty ==
    ASSUME LinkInv, NEW l \in Links, NEW s0 \in Sessions, NEW c,
           inbound[l] = 0, closes' = closes \ {c},
           c[1] = l,
           wire' = [wire EXCEPT ![<<l, s0, "up">>] = <<>>],
           UNCHANGED <<imported, upstream, pending, failed, inbound, routed, alive, dialled, handlers,
                       overtaken>>
    PROVE  LinkInv'
<1>1. LinkTypes'
  BY LinkFacts DEF LinkTypes
<1>2. \A p \in Pipes : wire'[p] # <<>> => wire[p] # <<>>
  BY LinkFacts DEF LinkTypes
<1>3. OthersAlone(l)
  BY DEF OthersAlone
<1>4. SessionInStep(l)'
  BY LinkFacts DEF SessionInStep
<1>5. CloseInStep(l)'
  BY LinkFacts DEF CloseInStep
<1>6. WireInStep(l)'
  <2>1. WireInStep(l)
    BY LinkFacts
  <2>2. \A s \in Sessions : /\ wire'[<<l, s, "up">>] # <<>> => wire[<<l, s, "up">>] # <<>>
                            /\ wire'[<<l, s, "down">>] # <<>> => wire[<<l, s, "down">>] # <<>>
    BY <1>2, PipeProperties
  <2> QED BY <2>1, <2>2 DEF WireInStep
<1>7. /\ UpHolds(l) => UpHolds(l)' \/ imported'[l[1]][UpstreamId(l)] = {}
      /\ InHolds(l) => InHolds(l)' \/ imported'[l[2]][Id(l[1])] = {}
  BY DEF UpHolds, InHolds
<1>8. /\ \A p \in Pipes : wire'[p] # <<>> => wire[p] # <<>> \/ p \in {}
      /\ \A x \in Hosts, y \in Owners : imported'[x][y] # {} => imported[x][y] # {}
      /\ \A p \in {} : p[1] # l => p \in Pipes0(l[1])
  BY <1>2
<1> QED BY <1>1, <1>3, <1>4, <1>5, <1>6, <1>7, <1>8, LinkStep

\* removeInboundFederationHost finds an entry: its own, or that of a later session.
LEMMA InboundCloseLinks ==
    ASSUME LinkInv, NEW l \in Links, removeInboundFederationHost(l)
    PROVE  LinkInv'
<1>1. PICK c \in closes :
         LET w == [wire EXCEPT ![<<l, c[2], "up">>] = <<>>]
             inb == [inbound EXCEPT ![l] = 0]
         IN  /\ c[1] = l
             /\ closes' = closes \ {c}
             /\ overtaken' = IF inbound[l] \in {0, c[2]} THEN overtaken ELSE overtaken \cup {l}
             /\ IF inbound[l] = 0
                THEN wire' = w /\ UNCHANGED <<inbound, routed, imported, view>>
                ELSE /\ inbound' = inb
                     /\ routed' = routed \ {l}
                     /\ removeImportedFederatedRoutes(w, l[2], Id(l[1]),
                          Writable(l[2], upstream, inb, routed \ {l}, alive))
             /\ UNCHANGED <<upstream, pending, failed, alive, dialled, handlers>>
  BY DEF removeInboundFederationHost
<1> DEFINE s0 == c[2]
           q == <<l, s0, "up">>
           w == [wire EXCEPT ![q] = <<>>]
           inb == [inbound EXCEPT ![l] = 0]
           W == Writable(l[2], upstream, inb, routed \ {l}, alive)
<1>2. PICK e \in {"session", "stream"} : s0 \in Sessions /\ c = <<l, s0, e>>
  <2>1. closes \subseteq Links \X Sessions \X {"session", "stream"} /\ c[1] = l
    BY <1>1, LinkFacts DEF LinkTypes
  <2> QED BY <2>1
<1>3. <<l, s0>> \notin alive /\ \A d \in {"session", "stream"} : <<l, s0, d>> \notin handlers
  <2>1. CloseInStep(l)
    BY LinkFacts
  <2> HIDE DEF s0
  <2> QED BY <1>2, <2>1 DEF CloseInStep
<1>4. CASE inbound[l] = 0
  <2>1. /\ closes' = closes \ {c} /\ c[1] = l /\ wire' = w
        /\ UNCHANGED <<imported, upstream, pending, failed, inbound, routed, alive, dialled, handlers,
                       overtaken>>
    BY <1>1, <1>4
  <2> HIDE DEF s0
  <2> QED BY <1>2, <1>4, <2>1, InboundCloseEmpty
<1>5. CASE inbound[l] # 0
  <2>1. /\ closes' = closes \ {c} /\ inbound' = inb /\ routed' = routed \ {l}
        /\ removeImportedFederatedRoutes(w, l[2], Id(l[1]), W)
        /\ overtaken' = IF inbound[l] = s0 THEN overtaken ELSE overtaken \cup {l}
        /\ UNCHANGED <<upstream, pending, failed, alive, dialled, handlers>>
    BY <1>1, <1>5
  <2> HIDE DEF s0
  <2>2. inbound'[l] = 0 /\ \A k \in Links \ {l} : inbound'[k] = inbound[k]
    BY <2>1, LinkFacts DEF LinkTypes
  <2>3. /\ l \in overtaken => l \in overtaken'
        /\ inbound[l] # s0 => l \in overtaken'
        /\ \A k \in Links \ {l} : k \in overtaken' <=> k \in overtaken
    BY <2>1
  <2>4. \A p \in W : p[1] # l /\ p \in Pipes0(l[2])
    <3> SUFFICES ASSUME NEW p \in W
                 PROVE  p[1] # l /\ p \in Pipes0(l[2])
      OBVIOUS
    <3>1. /\ p \in Pipes /\ Sender(p) = l[2] /\ <<p[1], p[2]>> \in alive
          /\ IF p[3] = "up" THEN upstream[p[1]] = p[2] ELSE inb[p[1]] = p[2] /\ p[1] \in routed \ {l}
      BY DEF Writable
    <3>2. p[1] \in Links
      BY <3>1, PipeProperties
    <3>3. p[1] # l
      <4>1. SUFFICES ASSUME p[1] = l PROVE FALSE
        OBVIOUS
      <4>2. p[3] # "up"
        BY <3>1, <4>1, LinkProperties DEF Sender
      <4> QED BY <3>1, <4>1, <4>2
    <3>4. inb[p[1]] = inbound[p[1]]
      BY <2>1, <2>2, <3>2, <3>3
    <3> QED BY <3>1, <3>3, <3>4 DEF Pipes0, Writable
  <2>5. /\ DOMAIN imported' = Hosts /\ \A x \in Hosts : DOMAIN imported'[x] = Owners
        /\ imported'[l[2]][Id(l[1])] = {}
        /\ \A x \in Hosts, y \in Owners : imported'[x][y] # {} => imported[x][y] # {}
        /\ DOMAIN wire' = Pipes
        /\ \A p \in Pipes : p \notin W => wire'[p] = w[p]
    <3>1. LinkTypes /\ l[2] \in Hosts /\ Id(l[1]) \in Owners
      BY LinkFacts
    <3> HIDE DEF w, W
    <3>2. imported' = removeImportedRoutes(l[2], Id(l[1]))
      BY <2>1 DEF removeImportedFederatedRoutes
    <3>3. \E imp : wire' = advertiseFederatedRoutes(w, l[2], W, local, imp)
      BY <2>1 DEF removeImportedFederatedRoutes
    <3>4. DOMAIN wire' = Pipes /\ \A p \in Pipes : p \notin W => wire'[p] = w[p]
      BY <3>3, AdvertiseOnly
    <3> QED BY <3>1, <3>2, <3>4, WithdrawFacts
  <2>6. w[q] = <<>> /\ \A p \in Pipes : w[p] # <<>> => wire[p] # <<>>
    BY <1>2, LinkFacts, PipeProperties DEF LinkTypes
  <2> HIDE DEF w, W
  <2>7. \A p \in Pipes : wire'[p] # <<>> => wire[p] # <<>> \/ p \in W
    BY <2>5, <2>6
  <2>8. LinkTypes'
    BY <2>1, <2>5, LinkFacts DEF LinkTypes
  <2>9. OthersAlone(l)
    BY <1>2, <2>1, <2>2, <2>3 DEF OthersAlone
  <2>10. SessionInStep(l)'
    <3>1. SessionInStep(l) /\ dialled[l] \in Nat
      BY LinkFacts
    <3>2. 0 <= dialled[l]
      BY <3>1
    <3>3. <<l, upstream[l]>> \in alive => l \in overtaken'
      BY <1>3, <2>3, <3>1 DEF SessionInStep
    <3> QED BY <2>1, <2>2, <3>1, <3>2, <3>3 DEF SessionInStep
  <2>11. CloseInStep(l)'
    <3>1. CloseInStep(l)
      BY LinkFacts
    <3>2. \A s \in Sessions : <<l, s, "stream">> \in handlers => l \in overtaken'
      BY <1>3, <2>3, <3>1 DEF CloseInStep
    <3>3. \A s \in Sessions, d \in {"session", "stream"} :
             <<l, s, d>> \in closes' => <<l, s>> \notin alive /\ s <= dialled[l]
      BY <2>1, <3>1 DEF CloseInStep
    <3> QED BY <2>1, <2>2, <3>1, <3>2, <3>3 DEF CloseInStep
  <2>12. WireInStep(l)'
    <3> SUFFICES ASSUME NEW s \in Sessions
                 PROVE  /\ wire'[<<l, s, "up">>] # <<>> => l \in overtaken'
                        /\ wire'[<<l, s, "down">>] # <<>> => s \in {pending[l], upstream[l]}
      BY <2>1 DEF WireInStep
    <3>1. <<l, s, "up">> \in Pipes /\ <<l, s, "down">> \in Pipes
      BY PipeProperties
    <3>2. <<l, s, "up">> \notin W /\ <<l, s, "down">> \notin W
      BY <2>4
    <3>3. wire'[<<l, s, "up">>] = w[<<l, s, "up">>] /\ wire'[<<l, s, "down">>] = w[<<l, s, "down">>]
      BY <2>5, <3>1, <3>2
    <3>4. WireInStep(l)
      BY LinkFacts
    <3> QED BY <2>3, <2>6, <3>1, <3>3, <3>4 DEF WireInStep
  <2>13. /\ UpHolds(l) => UpHolds(l)' \/ imported'[l[1]][UpstreamId(l)] = {}
         /\ InHolds(l) => InHolds(l)' \/ imported'[l[2]][Id(l[1])] = {}
    BY <2>1, <2>5 DEF UpHolds
  <2>14. \A p \in W : p[1] # l => p \in Pipes0(l[2])
    BY <2>4
  <2> QED BY <2>5, <2>7, <2>8, <2>9, <2>10, <2>11, <2>12, <2>13, <2>14, LinkStep
<1> QED BY <1>4, <1>5

\* A Host that starts again: its own end of every link is empty, and the handlers of the
\* other end run.
LEMMA RestartLinks ==
    ASSUME LinkInv, NEW h \in Hosts, Restart(h)
    PROVE  LinkInv'
<1>1. /\ imported' = [imported EXCEPT ![h] = [k \in Owners |-> {}]]
      /\ upstream' = [l \in Links |-> IF l[1] = h THEN 0 ELSE upstream[l]]
      /\ pending' = [l \in Links |-> IF l[1] = h THEN 0 ELSE pending[l]]
      /\ \A l \in Links : l[1] # h => (l \in failed' <=> l \in failed)
      /\ inbound' = [l \in Links |-> IF l[2] = h THEN 0 ELSE inbound[l]]
      /\ \A l \in Links : l[2] # h => (l \in routed' <=> l \in routed)
      /\ \A l \in Links : l[2] # h => (l \in overtaken' <=> l \in overtaken)
      /\ alive' = {a \in alive : ~(a[1] \in Links /\ h \in {a[1][1], a[1][2]})}
      /\ wire' = [p \in Pipes |-> IF Reader(p) = h THEN <<>> ELSE wire[p]]
      /\ dialled' = dialled
  BY DEF Restart
<1>2. /\ handlers' = {x \in handlers : ~(x[1] \in Links /\ h \in {x[1][1], x[1][2]})}
      /\ closes' = {c \in closes : ~(c[1] \in Links /\ c[1][2] = h)} \cup
                   {x \in handlers : x[1] \in Links /\ x[1][1] = h}
  BY DEF Restart
<1>3. LinkTypes /\ LinksInStep /\ \A x \in Hosts, y \in Owners : imported[x][y] # {} => Linked(x, y)
  BY LinkInvParts
<1>4. LinkTypes'
  <2>1. /\ upstream' \in [Links -> {0} \cup Sessions] /\ pending' \in [Links -> {0} \cup Sessions]
        /\ inbound' \in [Links -> {0} \cup Sessions] /\ dialled' \in [Links -> Nat]
    BY <1>1, <1>3 DEF LinkTypes
  <2>2. alive' \subseteq Links \X Sessions /\ DOMAIN wire' = Pipes
    BY <1>1, <1>3 DEF LinkTypes
  <2>3. /\ handlers' \subseteq Links \X Sessions \X {"session", "stream"}
        /\ closes' \subseteq Links \X Sessions \X {"session", "stream"}
    BY <1>2, <1>3 DEF LinkTypes
  <2>4. DOMAIN imported' = Hosts /\ \A x \in Hosts : DOMAIN imported'[x] = Owners
    BY <1>1, <1>3 DEF LinkTypes
  <2> QED BY <2>1, <2>2, <2>3, <2>4 DEF LinkTypes
<1>5. ASSUME NEW l \in Links
      PROVE  SessionInStep(l)' /\ CloseInStep(l)' /\ WireInStep(l)'
  <2>1. /\ SessionInStep(l) /\ CloseInStep(l) /\ WireInStep(l)
        /\ inbound[l] \in {0} \cup Sessions /\ dialled[l] \in Nat
        /\ l[1] # l[2] /\ 0 \notin Sessions /\ <<l, 0>> \notin alive
    BY LinkFacts
  <2>2. /\ upstream'[l] = IF l[1] = h THEN 0 ELSE upstream[l]
        /\ pending'[l] = IF l[1] = h THEN 0 ELSE pending[l]
        /\ inbound'[l] = IF l[2] = h THEN 0 ELSE inbound[l]
        /\ \A s : <<l, s>> \in alive' <=> <<l, s>> \in alive /\ l[1] # h /\ l[2] # h
        /\ \A s \in Sessions :
             /\ wire'[<<l, s, "up">>] = IF l[2] = h THEN <<>> ELSE wire[<<l, s, "up">>]
             /\ wire'[<<l, s, "down">>] = IF l[1] = h THEN <<>> ELSE wire[<<l, s, "down">>]
    <3>1. \A s \in Sessions : /\ Reader(<<l, s, "up">>) = l[2] /\ Reader(<<l, s, "down">>) = l[1]
                              /\ <<l, s, "up">> \in Pipes /\ <<l, s, "down">> \in Pipes
      BY PipeProperties DEF Reader
    <3>2. \A s \in Sessions :
             /\ wire'[<<l, s, "up">>] = IF l[2] = h THEN <<>> ELSE wire[<<l, s, "up">>]
             /\ wire'[<<l, s, "down">>] = IF l[1] = h THEN <<>> ELSE wire[<<l, s, "down">>]
      BY <1>1, <3>1
    <3>3. \A s : <<l, s>> \in alive' <=> <<l, s>> \in alive /\ l[1] # h /\ l[2] # h
      BY <1>1
    <3> QED BY <1>1, <3>2, <3>3
  <2>3. \A s \in {0} \cup Sessions, e \in {"session", "stream"} :
           /\ <<l, s, e>> \in handlers' <=> <<l, s, e>> \in handlers /\ l[1] # h /\ l[2] # h
           /\ <<l, s, e>> \in closes' <=> \/ <<l, s, e>> \in closes /\ l[2] # h
                                          \/ <<l, s, e>> \in handlers /\ l[1] = h
    BY <1>2
  <2>4. SessionInStep(l)'
    <3>1. 0 <= dialled[l]
      BY <2>1
    <3> QED BY <1>1, <2>1, <2>2, <3>1 DEF SessionInStep
  <2>5. CloseInStep(l)'
    <3>1. \A s \in Sessions, e \in {"session", "stream"} : <<l, s, e>> \in handlers => s <= dialled[l]
      BY <2>1 DEF SessionInStep, CloseInStep
    <3>2. inbound'[l] # 0 => <<l, inbound'[l], "session">> \in handlers' \cup closes'
      BY <2>1, <2>2, <2>3 DEF CloseInStep
    <3>3. \A s \in Sessions : <<l, s, "stream">> \in handlers' =>
             l \in overtaken' \/ (inbound'[l] = s /\ l \in routed')
      BY <1>1, <2>1, <2>2, <2>3 DEF CloseInStep
    <3>4. \A s \in Sessions, e \in {"session", "stream"} :
             /\ <<l, s, e>> \in handlers' => <<l, s>> \in alive'
             /\ <<l, s, e>> \in closes' => <<l, s>> \notin alive' /\ s <= dialled[l]
      BY <2>1, <2>2, <2>3, <3>1 DEF CloseInStep
    <3> QED BY <1>1, <3>2, <3>3, <3>4 DEF CloseInStep
  <2>6. WireInStep(l)'
    BY <1>1, <2>1, <2>2 DEF WireInStep
  <2> QED BY <2>4, <2>5, <2>6
<1>6. LinksInStep'
  BY <1>5 DEF LinksInStep
<1>7. ASSUME NEW x \in Hosts, NEW y \in Owners, imported'[x][y] # {}
      PROVE  Linked(x, y)'
  <2>1. x # h /\ imported[x][y] # {}
    BY <1>1, <1>3, <1>7 DEF LinkTypes
  <2>2. PICK l \in Links : \/ l[1] = x /\ UpstreamId(l) = y /\ UpHolds(l)
                           \/ l[2] = x /\ Id(l[1]) = y /\ InHolds(l)
    BY <1>3, <2>1 DEF Linked
  <2>3. /\ l[1] # h /\ UpHolds(l) => UpHolds(l)'
        /\ l[2] # h /\ InHolds(l) => InHolds(l)'
    BY <1>1 DEF UpHolds, InHolds
  <2> QED BY <2>1, <2>2, <2>3 DEF Linked
<1> QED BY <1>4, <1>6, <1>7, LinkInvNext

\* Nothing is connected at first.
LEMMA LinkInvInit == FederationInit => LinkInv
<1> SUFFICES ASSUME FederationInit
             PROVE  LinkInv
  OBVIOUS
<1>1. LinkTypes
  BY DEF FederationInit, LinkTypes
<1>2. ImportsHaveLink
  BY DEF FederationInit, ImportsHaveLink
<1>3. ASSUME NEW l \in Links
      PROVE  SessionInStep(l) /\ CloseInStep(l) /\ WireInStep(l)
  <2>1. SessionInStep(l)
    BY DEF FederationInit, SessionInStep
  <2>2. CloseInStep(l)
    BY DEF FederationInit, CloseInStep
  <2>3. WireInStep(l)
    <3>1. \A p \in Pipes : wire[p] = <<>>
      BY DEF FederationInit
    <3> QED BY <3>1, PipeProperties DEF WireInStep
  <2> QED BY <2>1, <2>2, <2>3
<1> QED BY <1>1, <1>2, <1>3 DEF LinkInv

\* A step that changes nothing.
LEMMA LinkInvStutters == LinkInv /\ UNCHANGED federationVars => LinkInv'
<1> SUFFICES ASSUME LinkInv, UNCHANGED federationVars
             PROVE  LinkInv'
  OBVIOUS
<1>1. /\ UNCHANGED <<imported, upstream, pending, failed, inbound, routed, alive, dialled, handlers,
                     closes, overtaken, wire>>
  BY DEF federationVars, links
<1>2. LinkTypes /\ LinksInStep /\ \A x \in Hosts, y \in Owners : imported[x][y] # {} => Linked(x, y)
  BY LinkInvParts
<1>3. LinkTypes'
  BY <1>1, <1>2 DEF LinkTypes
<1>4. LinksInStep'
  BY <1>1, <1>2 DEF LinksInStep, SessionInStep, CloseInStep, WireInStep
<1>5. \A x \in Hosts, y \in Owners : imported'[x][y] # {} => Linked(x, y)'
  BY <1>1, <1>2 DEF Linked, UpHolds, InHolds
<1> QED BY <1>3, <1>4, <1>5, LinkInvNext

\* LinkInv: for every set of Hosts and links, two Hosts that dial each other included,
\* every step of connectUpstream, of the upstream's handlers and of both close handlers
\* keeps sessions, handlers, frames and imports in step.
THEOREM LinksAreInStep == FederationSpec => []LinkInv
<1>1. LinkInv /\ [FederationNext]_federationVars => LinkInv'
  <2> SUFFICES ASSUME LinkInv, [FederationNext]_federationVars
               PROVE  LinkInv'
    OBVIOUS
  <2>1. ASSUME NEW r \in Routes, RouteAdded(r) \/ RouteRevoked(r)
        PROVE  LinkInv'
    BY <2>1, ChangeLinks DEF RouteAdded, RouteRevoked
  <2>2. ASSUME NEW p \in Pipes, Receive(p)
        PROVE  LinkInv'
    BY <2>2, ReceiveLinks
  <2>3. ASSUME NEW l \in Links, connectUpstream(l)
        PROVE  LinkInv'
    BY <2>3, ConnectLinks
  <2>4. ASSUME NEW l \in Links, handleHostFederationStream(l)
        PROVE  LinkInv'
    BY <2>4, AdmitLinks
  <2>5. ASSUME NEW l \in Links, handleHostFederationRouteStream(l)
        PROVE  LinkInv'
    BY <2>5, AttachLinks
  <2>6. ASSUME NEW l \in Links, Connected(l)
        PROVE  LinkInv'
    BY <2>6, ConnectedLinks
  <2>7. ASSUME NEW l \in Links, ConnectFails(l)
        PROVE  LinkInv'
    BY <2>7, FailsLinks
  <2>8. ASSUME NEW l \in Links, SessionDies(l)
        PROVE  LinkInv'
    BY <2>8, DiesLinks
  <2>9. ASSUME NEW l \in Links, closeUpstreamLink(l)
        PROVE  LinkInv'
    BY <2>9, CloseLinks
  <2>10. ASSUME NEW l \in Links, handleUpstreamSessionClose(l)
         PROVE  LinkInv'
    BY <2>10, SessionCloseLinks
  <2>11. ASSUME NEW l \in Links, removeInboundFederationHost(l)
         PROVE  LinkInv'
    BY <2>11, InboundCloseLinks
  <2>12. ASSUME NEW h \in Hosts, Restart(h)
         PROVE  LinkInv'
    BY <2>12, RestartLinks
  <2>13. ASSUME UNCHANGED federationVars
         PROVE  LinkInv'
    BY <2>13, LinkInvStutters
  <2> QED BY <2>1, <2>2, <2>3, <2>4, <2>5, <2>6, <2>7, <2>8, <2>9, <2>10, <2>11, <2>12, <2>13
          DEF FederationNext
<1> QED BY <1>1, LinkInvInit, PTL DEF FederationSpec

\* ImportsHaveLink: what a Host imported over a link is withdrawn with it, whatever
\* breaks, closes or starts again and whichever of the two handlers of
\* removeInboundFederationHost runs first.  Not covered are the two cases in which the code
\* leaves imports behind: the catch of connectUpstream, and an entry that the handler of
\* an earlier session has removed.
THEOREM ImportsNeedALink == FederationSpec => []ImportsHaveLink
<1>1. LinkInv => ImportsHaveLink
  BY DEF LinkInv
<1> QED BY <1>1, LinksAreInStep, PTL

\* SessionsAgree: once every frame is read and every close handled, the upstream has no
\* session its downstream does not hold, and lacks one that it holds only where
\* removeInboundFederationHost, run for an earlier session, has removed the entry.
THEOREM EndsAgree == FederationSpec => []SessionsAgree
<1>1. LinkInv => SessionsAgree
  <2> SUFFICES ASSUME LinkInv, Quiet, NEW l \in Links
               PROVE  /\ upstream[l] # 0 => l \in overtaken \/ (inbound[l] = upstream[l] /\ l \in routed)
                      /\ inbound[l] # 0 => upstream[l] = inbound[l]
    BY DEF SessionsAgree
  <2>1. closes = {} /\ pending[l] = 0 /\ (upstream[l] # 0 => <<l, upstream[l]>> \in alive)
    BY DEF Quiet
  <2>2. SessionInStep(l) /\ CloseInStep(l) /\ inbound[l] \in {0} \cup Sessions
    BY LinkFacts
  <2> QED BY <2>1, <2>2 DEF SessionInStep, CloseInStep
<1> QED BY <1>1, LinksAreInStep, PTL
=============================================================================
