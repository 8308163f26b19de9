--------------------------- MODULE HostRoutesProofs ---------------------------
(***************************************************************************)
(* Proofs about HostRoutes, for any sets of Guests, sessions, Brokers and  *)
(* domains and for any number of unread frames: every step keeps HostInv.  *)
(* The argument goes by what the step changes: the sessions and the        *)
(* registrations, the route table, and the frames of the Brokers.  Every   *)
(* announcement is covered by one lemma, AnnounceKeeps, which asks of the   *)
(* announced event what it must say about the change of the table.         *)
(***************************************************************************)
EXTENDS HostRoutes, TLAPS

LifecycleFrames == [type : {"route-lifecycle"}, active : SUBSET Routes,
                    degraded : SUBSET Routes, removed : SUBSET Routes]

-----------------------------------------------------------------------------
(* The operators *)

\* What getBrokerRoutes returns, by its members.
LEMMA BrokerRoutesMembers ==
    ASSUME NEW active, NEW lost, NEW r
    PROVE  r \in BrokerRoutes(active, lost) <=>
             \E g \in Guests, d \in Domains : r = <<g, d>> /\ (d \in active[g] \/ d \in lost[g])
<1>1. r \in BrokerRoutes(active, lost) <=>
        \E g \in Guests : r \in EntryRoutes(active, g) \/ r \in EntryRoutes(lost, g)
  BY Zenon DEF BrokerRoutes
<1>2. \A t, g : r \in EntryRoutes(t, g) <=> \E d \in Domains : d \in t[g] /\ r = <<g, d>>
  BY DEF EntryRoutes
<1> QED
  BY <1>1, <1>2, Zenon

\* The degraded routes, by their members.
LEMMA DegradedRoutesMembers ==
    ASSUME NEW lost, NEW r
    PROVE  r \in DegradedRoutes(lost) <=>
             \E g \in Guests, d \in Domains : r = <<g, d>> /\ d \in lost[g]
<1>1. r \in DegradedRoutes(lost) <=> \E g \in Guests : r \in EntryRoutes(lost, g)
  BY Zenon DEF DegradedRoutes
<1>2. \A t, g : r \in EntryRoutes(t, g) <=> \E d \in Domains : d \in t[g] /\ r = <<g, d>>
  BY DEF EntryRoutes
<1> QED
  BY <1>1, <1>2, Zenon

\* They are routes, and a route of one Guest is the Guest and a domain of its list.
LEMMA RoutesAreRoutes ==
    ASSUME NEW active, NEW lost
    PROVE  /\ BrokerRoutes(active, lost) \in SUBSET Routes
           /\ DegradedRoutes(lost) \in SUBSET Routes
           /\ DegradedRoutes(lost) \subseteq BrokerRoutes(active, lost)
           /\ \A g \in Guests : EntryRoutes(lost, g) \in SUBSET Routes
           /\ \A g, r : r \in EntryRoutes(lost, g)
                <=> \E d \in Domains : d \in lost[g] /\ r = <<g, d>>
<1>1. \A r : r \in BrokerRoutes(active, lost) => r \in Routes
  BY BrokerRoutesMembers DEF Routes
<1>2. \A r : r \in DegradedRoutes(lost) => r \in Routes
  BY DegradedRoutesMembers DEF Routes
<1>3. \A r : r \in DegradedRoutes(lost) => r \in BrokerRoutes(active, lost)
  BY DegradedRoutesMembers, BrokerRoutesMembers, Zenon
<1>4. \A g, r : r \in EntryRoutes(lost, g)
                <=> \E d \in Domains : d \in lost[g] /\ r = <<g, d>>
  BY DEF EntryRoutes
<1>5. \A g \in Guests : EntryRoutes(lost, g) \in SUBSET Routes
  BY <1>4 DEF Routes
<1> QED
  BY <1>1, <1>2, <1>3, <1>4, <1>5, Zenon

\* A list of one Guest is announced as routes of that Guest.
LEMMA ListRoutes ==
    ASSUME NEW g \in Guests, NEW D, D \subseteq Domains
    PROVE  {<<g, d>> : d \in D} \in SUBSET Routes
BY DEF Routes

LEMMA LifecycleType ==
    ASSUME NEW A \in SUBSET Routes, NEW D \in SUBSET Routes, NEW R \in SUBSET Routes
    PROVE  Lifecycle(A, D, R) \in LifecycleFrames
BY DEF Lifecycle, LifecycleFrames

LEMMA SnapshotType ==
    ASSUME NEW R \in SUBSET Routes
    PROVE  Snapshot(R) \in Frames /\ Snapshot(R).type = "routes" /\ Snapshot(R).routes = R
BY DEF Snapshot, Frames

LEMMA FrameKinds ==
    /\ LifecycleFrames \subseteq Frames
    /\ \A f \in Frames : \/ f.type = "routes" /\ f.routes \in SUBSET Routes
                         \/ f.type = "route-lifecycle" /\ f \in LifecycleFrames
    /\ \A f \in LifecycleFrames : /\ f.type = "route-lifecycle"
                                  /\ f.active \in SUBSET Routes
                                  /\ f.degraded \in SUBSET Routes
                                  /\ f.removed \in SUBSET Routes
BY DEF Frames, LifecycleFrames

\* A frame that is read leaves well-typed routes, waiters and listeners.
LEMMA FrameEffects ==
    ASSUME NEW f \in Frames, NEW v \in SUBSET Routes, NEW w \in SUBSET Domains,
           NEW h \in [before : SUBSET Routes, degraded : SUBSET Routes]
    PROVE  /\ ViewAfter(v, f) \in SUBSET Routes
           /\ WaitingAfter(w, f) \in SUBSET Domains
           /\ HeardAfter(h, f) \in [before : SUBSET Routes, degraded : SUBSET Routes]
<1>1. CASE f.type = "routes" /\ f.routes \in SUBSET Routes
  BY <1>1 DEF ViewAfter, WaitingAfter, HeardAfter
<1>2. CASE f.type = "route-lifecycle" /\ f \in LifecycleFrames
  BY <1>2, FrameKinds DEF ViewAfter, WaitingAfter, HeardAfter
<1> QED
  BY <1>1, <1>2, FrameKinds

\* The two frames of an announcement are appended one after the other.
LEMMA FramesAppended ==
    ASSUME NEW s \in Seq(Frames), NEW f \in Frames, NEW e \in Frames
    PROVE  /\ s \o <<f>> = Append(s, f)
           /\ s \o <<e, f>> = Append(Append(s, e), f)
OBVIOUS

LEMMA AppendedFrame ==
    ASSUME NEW s \in Seq(Frames), NEW f \in Frames
    PROVE  /\ Append(s, f) \in Seq(Frames)
           /\ Append(s, f) # <<>>
           /\ Len(s) \in Nat
           /\ Len(Append(s, f)) = Len(s) + 1
           /\ DOMAIN Append(s, f) = 1 .. (Len(s) + 1)
           /\ DOMAIN s = 1 .. Len(s)
           /\ Append(s, f)[Len(s) + 1] = f
           /\ \A i \in 1 .. Len(s) : Append(s, f)[i] = s[i]
OBVIOUS

LEMMA ReadFrame ==
    ASSUME NEW s \in Seq(Frames), s # <<>>
    PROVE  /\ Head(s) \in Frames
           /\ Head(s) = s[1]
           /\ Len(s) \in Nat \ {0}
           /\ Tail(s) \in Seq(Frames)
           /\ Len(Tail(s)) = Len(s) - 1
           /\ DOMAIN Tail(s) = 1 .. (Len(s) - 1)
           /\ DOMAIN s = 1 .. Len(s)
           /\ \A i \in 1 .. (Len(s) - 1) : Tail(s)[i] = s[i + 1]
           /\ Tail(s) = <<>> => Len(s) = 1
<1>1. /\ Head(s) \in Frames /\ Head(s) = s[1] /\ Len(s) \in Nat \ {0}
      /\ Tail(s) \in Seq(Frames) /\ Len(Tail(s)) = Len(s) - 1
      /\ DOMAIN Tail(s) = 1 .. (Len(s) - 1) /\ DOMAIN s = 1 .. Len(s)
      /\ \A i \in 1 .. (Len(s) - 1) : Tail(s)[i] = s[i + 1]
  OBVIOUS
<1>2. \A e : e = <<>> => Len(e) = 0
  OBVIOUS
<1>3. Tail(s) = <<>> => Len(Tail(s)) = 0
  BY <1>2
<1> QED
  BY <1>1, <1>3

\* Reading a frame does not change what is degraded in the end.
LEMMA EndsDegradedRead ==
    ASSUME NEW s \in Seq(Frames), s # <<>>, NEW r,
           NEW h \in [before : SUBSET Routes, degraded : SUBSET Routes],
           EndsDegraded(HeardAfter(h, Head(s)).degraded, Tail(s), r)
    PROVE  EndsDegraded(h.degraded, s, r)
<1> DEFINE t == Tail(s)
           f == s[1]
           n == Len(s)
<1>1. /\ n \in Nat \ {0} /\ DOMAIN s = 1 .. n /\ DOMAIN t = 1 .. (n - 1)
      /\ \A i \in 1 .. (n - 1) : t[i] = s[i + 1]
      /\ f \in Frames /\ Head(s) = f
  BY ReadFrame
<1>2. CASE \E i \in DOMAIN t : /\ t[i].type = "route-lifecycle"
                               /\ r \in t[i].degraded
                               /\ \A j \in DOMAIN t : j > i => ~Clears(t[j], r)
  <2>1. PICK i \in 1 .. (n - 1) : /\ t[i].type = "route-lifecycle"
                                  /\ r \in t[i].degraded
                                  /\ \A j \in 1 .. (n - 1) : j > i => ~Clears(t[j], r)
    BY <1>1, <1>2
  <2>2. i + 1 \in 1 .. n /\ s[i + 1] = t[i]
    BY <1>1
  <2>3. ASSUME NEW j \in 1 .. n, j > i + 1
        PROVE  ~Clears(s[j], r)
    <3>1. j - 1 \in 1 .. (n - 1) /\ j - 1 > i /\ s[j] = t[j - 1]
      BY <1>1, <2>3
    <3> QED
      BY <3>1, <2>1
  <2> QED
    BY <1>1, <2>1, <2>2, <2>3 DEF EndsDegraded
<1>3. CASE r \in HeardAfter(h, f).degraded /\ \A i \in DOMAIN t : ~Clears(t[i], r)
  <2>1. ASSUME NEW j \in 1 .. n, j > 1
        PROVE  ~Clears(s[j], r)
    <3>1. j - 1 \in 1 .. (n - 1) /\ s[j] = t[j - 1]
      BY <1>1, <2>1
    <3> QED
      BY <3>1, <1>1, <1>3
  <2>2. \/ r \in h.degraded /\ ~Clears(f, r)
        \/ f.type = "route-lifecycle" /\ r \in f.degraded
    <3>1. CASE f.type = "routes"
      BY <1>3, <3>1 DEF HeardAfter, Clears
    <3>2. CASE f.type = "route-lifecycle"
      BY <1>3, <3>2 DEF HeardAfter, Clears
    <3> QED
      BY <1>1, <3>1, <3>2, FrameKinds
  <2>3. CASE r \in h.degraded /\ ~Clears(f, r)
    <3>1. \A j \in 1 .. n : ~Clears(s[j], r)
      BY <1>1, <2>1, <2>3
    <3> QED
      BY <3>1, <2>3, <1>1 DEF EndsDegraded
  <2>4. CASE f.type = "route-lifecycle" /\ r \in f.degraded
    BY <1>1, <2>1, <2>4 DEF EndsDegraded
  <2> QED
    BY <2>2, <2>3, <2>4
<1> QED
  BY <1>1, <1>2, <1>3 DEF EndsDegraded

\* After one more frame only what the frame does not clear, or what it reports,
\* is degraded in the end.
LEMMA EndsDegradedAppended ==
    ASSUME NEW lost, NEW s \in Seq(Frames), NEW f \in Frames, NEW r,
           EndsDegraded(lost, Append(s, f), r)
    PROVE  \/ EndsDegraded(lost, s, r) /\ ~Clears(f, r)
           \/ f.type = "route-lifecycle" /\ r \in f.degraded
<1> DEFINE t == Append(s, f)
           n == Len(s)
<1>1. /\ n \in Nat /\ DOMAIN s = 1 .. n /\ DOMAIN t = 1 .. (n + 1)
      /\ t[n + 1] = f
      /\ \A i \in 1 .. n : t[i] = s[i]
  BY AppendedFrame
<1>2. CASE r \in lost /\ \A i \in DOMAIN t : ~Clears(t[i], r)
  <2>1. ~Clears(f, r) /\ \A i \in 1 .. n : ~Clears(s[i], r)
    <3>1. n + 1 \in 1 .. (n + 1) /\ \A i \in 1 .. n : i \in 1 .. (n + 1)
      BY <1>1
    <3> QED
      BY <1>1, <1>2, <3>1
  <2> QED
    BY <1>1, <1>2, <2>1 DEF EndsDegraded
<1>3. CASE \E i \in DOMAIN t : /\ t[i].type = "route-lifecycle"
                               /\ r \in t[i].degraded
                               /\ \A j \in DOMAIN t : j > i => ~Clears(t[j], r)
  <2>1. PICK i \in 1 .. (n + 1) : /\ t[i].type = "route-lifecycle"
                                  /\ r \in t[i].degraded
                                  /\ \A j \in 1 .. (n + 1) : j > i => ~Clears(t[j], r)
    BY <1>1, <1>3
  <2>2. CASE i = n + 1
    BY <1>1, <2>1, <2>2
  <2>3. CASE i # n + 1
    <3>1. i \in 1 .. n /\ n + 1 > i /\ n + 1 \in 1 .. (n + 1) /\ s[i] = t[i]
      BY <1>1, <2>3
    <3>2. ~Clears(f, r)
      BY <3>1, <2>1, <1>1
    <3>3. \A j \in 1 .. n : j > i => ~Clears(s[j], r)
      <4>1. \A j \in 1 .. n : j \in 1 .. (n + 1) /\ t[j] = s[j]
        BY <1>1
      <4> QED
        BY <4>1, <2>1
    <3> QED
      BY <1>1, <2>1, <3>1, <3>2, <3>3 DEF EndsDegraded
  <2> QED
    BY <2>2, <2>3
<1> QED
  BY <1>2, <1>3 DEF EndsDegraded

-----------------------------------------------------------------------------
(* Announcements *)

\* The frames of an announcement.
Sent(event, routes) ==
    IF event.active \cup event.degraded \cup event.removed = {}
    THEN <<Snapshot(routes)>> ELSE <<event, Snapshot(routes)>>

\* What a Broker has on its way after an announcement.
LEMMA SentFrames ==
    ASSUME NEW s \in Seq(Frames), NEW event \in LifecycleFrames, NEW routes \in SUBSET Routes
    PROVE  /\ s \o Sent(event, routes) \in Seq(Frames)
           /\ \/ /\ s \o Sent(event, routes) = Append(s, Snapshot(routes))
                 /\ event.degraded = {} /\ event.active = {} /\ event.removed = {}
              \/ s \o Sent(event, routes) = Append(Append(s, event), Snapshot(routes))
<1>1. event \in Frames /\ Snapshot(routes) \in Frames
  BY FrameKinds, SnapshotType
<1>2. CASE event.active \cup event.degraded \cup event.removed = {}
  <2>1. s \o Sent(event, routes) = Append(s, Snapshot(routes))
    BY <1>1, <1>2, FramesAppended DEF Sent
  <2>2. event.degraded = {} /\ event.active = {} /\ event.removed = {}
    BY <1>2
  <2> QED
    BY <1>1, <2>1, <2>2, AppendedFrame
<1>3. CASE event.active \cup event.degraded \cup event.removed # {}
  <2>1. s \o Sent(event, routes) = Append(Append(s, event), Snapshot(routes))
    BY <1>1, <1>3, FramesAppended DEF Sent
  <2> QED
    BY <1>1, <2>1, AppendedFrame
<1> QED
  BY <1>2, <1>3

\* Announce, Broker by Broker.
LEMMA AnnounceEffect ==
    ASSUME TypeOK, NEW event \in LifecycleFrames, NEW routes \in SUBSET Routes,
           Announce(event, routes)
    PROVE  /\ joined' = joined
           /\ channel' \in [Brokers -> Seq(Frames)]
           /\ view' \in [Brokers -> SUBSET Routes]
           /\ heard' \in [Brokers -> [before : SUBSET Routes, degraded : SUBSET Routes]]
           /\ waiting' \in [Brokers -> SUBSET Domains]
           /\ \A b \in joined \ LocalBrokers :
                 /\ channel'[b] = channel[b] \o Sent(event, routes)
                 /\ view'[b] = view[b] /\ heard'[b] = heard[b] /\ waiting'[b] = waiting[b]
           /\ \A b \in joined \cap LocalBrokers :
                 /\ channel'[b] = channel[b]
                 /\ view'[b] = routes
                 /\ waiting'[b] = WaitingAfter(WaitingAfter(waiting[b], event), Snapshot(routes))
           /\ \A b \in Brokers \ joined :
                 /\ channel'[b] = channel[b] /\ view'[b] = view[b]
                 /\ heard'[b] = heard[b] /\ waiting'[b] = waiting[b]
<1>1. event \in Frames /\ Snapshot(routes) \in Frames
  BY FrameKinds, SnapshotType
<1>2. /\ joined' = joined
      /\ channel' = [b \in Brokers |-> IF b \in joined \ LocalBrokers
                                       THEN channel[b] \o Sent(event, routes) ELSE channel[b]]
      /\ view' = [b \in Brokers |-> IF b \in joined \cap LocalBrokers THEN routes ELSE view[b]]
      /\ heard' = [b \in Brokers |-> IF b \in joined \cap LocalBrokers
                                     THEN HeardAfter(heard[b], event) ELSE heard[b]]
      /\ waiting' = [b \in Brokers |->
                       IF b \in joined \cap LocalBrokers
                       THEN WaitingAfter(WaitingAfter(waiting[b], event), Snapshot(routes))
                       ELSE waiting[b]]
  BY DEF Announce, Sent
<1>3. /\ joined \subseteq Brokers
      /\ channel \in [Brokers -> Seq(Frames)]
      /\ view \in [Brokers -> SUBSET Routes]
      /\ heard \in [Brokers -> [before : SUBSET Routes, degraded : SUBSET Routes]]
      /\ waiting \in [Brokers -> SUBSET Domains]
  BY DEF TypeOK
<1>4. channel' \in [Brokers -> Seq(Frames)]
  BY <1>2, <1>3, SentFrames
<1>5. view' \in [Brokers -> SUBSET Routes]
  BY <1>2, <1>3
<1>6. heard' \in [Brokers -> [before : SUBSET Routes, degraded : SUBSET Routes]]
  <2>1. \A b \in Brokers : HeardAfter(heard[b], event) \in [before : SUBSET Routes, degraded : SUBSET Routes]
    BY <1>1, <1>3, FrameEffects
  <2> QED
    BY <1>2, <1>3, <2>1
<1>7. waiting' \in [Brokers -> SUBSET Domains]
  <2>1. \A b \in Brokers : WaitingAfter(waiting[b], event) \in SUBSET Domains
    BY <1>1, <1>3, FrameEffects
  <2>2. \A b \in Brokers : WaitingAfter(WaitingAfter(waiting[b], event), Snapshot(routes)) \in SUBSET Domains
    BY <1>1, <1>3, <2>1, FrameEffects
  <2> QED
    BY <1>2, <1>3, <2>2
<1> QED
  BY <1>2, <1>3, <1>4, <1>5, <1>6, <1>7

\* What the Brokers rely on.
BrokerInv ==
    /\ ConnectedBrokers /\ LastFrameIsTable /\ DegradedAreKnown
    /\ NoStaleFrames /\ ToldIsListed /\ WaitersServed

\* An announcement keeps it when its event says what the change of the table
\* makes of the degraded routes: those it reports were routes and are degraded
\* now, and those that no longer are it reports as active or as removed.
LEMMA AnnounceKeeps ==
    ASSUME TypeOK, BrokerInv, NEW event \in LifecycleFrames, AnnounceTable(event),
           running' = running,
           event.degraded \subseteq BrokerRoutes(localRoutes, degraded),
           event.degraded \subseteq DegradedRoutes(degraded'),
           \A r \in DegradedRoutes(degraded) :
               r \notin event.active \cup event.removed => r \in DegradedRoutes(degraded')
    PROVE  BrokerInv'
<1> DEFINE new == BrokerRoutes(localRoutes', degraded')
           old == BrokerRoutes(localRoutes, degraded)
<1>1. /\ new \in SUBSET Routes /\ old \in SUBSET Routes
      /\ Snapshot(new) \in Frames /\ Snapshot(new).type = "routes" /\ Snapshot(new).routes = new
      /\ Snapshot(old).type = "routes" /\ Snapshot(old).routes = old
      /\ event \in Frames /\ event.type = "route-lifecycle"
  BY RoutesAreRoutes, SnapshotType, FrameKinds
<1>2. Announce(event, new)
  BY DEF AnnounceTable
<1> HIDE DEF new, old
<1>3. /\ joined' = joined
      /\ \A b \in joined \ LocalBrokers :
            /\ channel'[b] = channel[b] \o Sent(event, new)
            /\ view'[b] = view[b] /\ heard'[b] = heard[b] /\ waiting'[b] = waiting[b]
      /\ \A b \in joined \cap LocalBrokers :
            /\ channel'[b] = channel[b]
            /\ view'[b] = new
            /\ waiting'[b] = WaitingAfter(WaitingAfter(waiting[b], event), Snapshot(new))
      /\ \A b \in Brokers \ joined :
            /\ channel'[b] = channel[b] /\ view'[b] = view[b]
            /\ heard'[b] = heard[b] /\ waiting'[b] = waiting[b]
  BY <1>1, <1>2, AnnounceEffect
<1>4. /\ joined \subseteq Brokers /\ LocalBrokers \subseteq Brokers
      /\ \A b \in Brokers : channel[b] \in Seq(Frames)
  BY HostRoutesAssumption DEF TypeOK
<1>5. \A b \in joined \ LocalBrokers :
        \/ /\ channel'[b] = Append(channel[b], Snapshot(new))
           /\ event.degraded = {} /\ event.active = {} /\ event.removed = {}
        \/ channel'[b] = Append(Append(channel[b], event), Snapshot(new))
  BY <1>1, <1>3, <1>4, SentFrames
<1>6. ConnectedBrokers'
  BY <1>3, <1>4 DEF BrokerInv, ConnectedBrokers
<1>7. LastFrameIsTable'
  <2>1. ASSUME NEW b \in joined \ LocalBrokers
        PROVE  channel'[b] # <<>> /\ channel'[b][Len(channel'[b])] = Snapshot(new)
    <3>1. Append(channel[b], event) \in Seq(Frames) /\ channel[b] \in Seq(Frames)
      BY <1>1, <1>4, AppendedFrame
    <3> QED
      BY <3>1, <1>1, <1>5, AppendedFrame
  <2> QED
    BY <1>3, <2>1 DEF LastFrameIsTable, new
<1>8. DegradedAreKnown'
  <2> SUFFICES ASSUME NEW b \in Brokers, NEW i \in DOMAIN channel'[b],
                      channel'[b][i].type = "route-lifecycle"
               PROVE  IF i = 1 THEN channel'[b][i].degraded \subseteq view'[b]
                      ELSE /\ channel'[b][i - 1].type = "routes"
                           /\ channel'[b][i].degraded \subseteq channel'[b][i - 1].routes
    BY DEF DegradedAreKnown
  <2>1. CASE b \notin joined \ LocalBrokers
    BY <2>1, <1>3, <1>4 DEF BrokerInv, DegradedAreKnown, ConnectedBrokers
  <2>2. CASE b \in joined \ LocalBrokers
    <3> DEFINE s == channel[b]
               n == Len(s)
    <3>1. s \in Seq(Frames) /\ n \in Nat /\ DOMAIN s = 1 .. n /\ view'[b] = view[b]
      BY <1>4, <1>3, <2>2
    <3>2. \A k \in 1 .. n : s[k].type = "route-lifecycle" =>
            IF k = 1 THEN s[k].degraded \subseteq view[b]
            ELSE s[k - 1].type = "routes" /\ s[k].degraded \subseteq s[k - 1].routes
      BY <3>1 DEF BrokerInv, DegradedAreKnown
    <3>3. IF n = 0 THEN view[b] = old ELSE s[n].type = "routes" /\ s[n].routes = old
      BY <3>1, <2>2, <1>1 DEF BrokerInv, LastFrameIsTable, old
    <3>4. CASE channel'[b] = Append(s, Snapshot(new))
      <4>1. /\ DOMAIN channel'[b] = 1 .. (n + 1) /\ channel'[b][n + 1] = Snapshot(new)
            /\ \A k \in 1 .. n : channel'[b][k] = s[k]
        BY <3>1, <3>4, <1>1, AppendedFrame
      <4>2. i \in 1 .. n /\ (i # 1 => i - 1 \in 1 .. n)
        BY <4>1, <1>1, <3>1
      <4> QED
        BY <4>1, <4>2, <3>2, <3>1
    <3>5. CASE channel'[b] = Append(Append(s, event), Snapshot(new))
      <4>1. /\ DOMAIN channel'[b] = 1 .. (n + 2)
            /\ channel'[b][n + 2] = Snapshot(new)
            /\ channel'[b][n + 1] = event
            /\ \A k \in 1 .. n : channel'[b][k] = s[k]
        <5> DEFINE t == Append(s, event)
        <5>1. /\ t \in Seq(Frames) /\ Len(t) = n + 1 /\ t[n + 1] = event
              /\ \A k \in 1 .. n : t[k] = s[k]
          BY <3>1, <1>1, AppendedFrame
        <5>2. /\ DOMAIN channel'[b] = 1 .. (Len(t) + 1)
              /\ channel'[b][Len(t) + 1] = Snapshot(new)
              /\ \A k \in 1 .. Len(t) : channel'[b][k] = t[k]
          BY <5>1, <3>5, <1>1, AppendedFrame
        <5> HIDE DEF t
        <5> QED
          BY <5>1, <5>2, <3>1
      <4>2. i \in 1 .. (n + 1)
        BY <4>1, <1>1, <3>1
      <4>3. CASE i \in 1 .. n
        <5>1. i # 1 => i - 1 \in 1 .. n
          BY <4>3
        <5> QED
          BY <4>1, <4>3, <5>1, <3>2, <3>1
      <4>4. CASE i = n + 1
        <5>1. CASE n = 0
          BY <5>1, <4>1, <4>4, <3>1, <3>3 DEF old
        <5>2. CASE n # 0
          <6>1. i # 1 /\ i - 1 = n /\ n \in 1 .. n
            BY <5>2, <4>4, <3>1
          <6> QED
            BY <6>1, <4>1, <4>4, <3>3, <5>2 DEF old
        <5> QED
          BY <5>1, <5>2
      <4> QED
        BY <4>2, <4>3, <4>4, <3>1
    <3> QED
      BY <1>5, <2>2, <3>4, <3>5
  <2> QED
    BY <2>1, <2>2
<1>9. NoStaleFrames'
  <2> SUFFICES ASSUME NEW b \in joined \ LocalBrokers, NEW r \in Routes,
                      EndsDegraded(heard[b].degraded, channel'[b], r)
               PROVE  r \in DegradedRoutes(degraded')
    BY <1>3 DEF NoStaleFrames
  <2>1. channel[b] \in Seq(Frames)
    BY <1>4
  <2>2. EndsDegraded(heard[b].degraded, channel[b], r) => r \in DegradedRoutes(degraded)
    BY DEF BrokerInv, NoStaleFrames
  <2>3. CASE /\ channel'[b] = Append(channel[b], Snapshot(new))
             /\ event.degraded = {} /\ event.active = {} /\ event.removed = {}
    <3>1. EndsDegraded(heard[b].degraded, channel[b], r)
      BY <2>1, <2>3, <1>1, EndsDegradedAppended
    <3> QED
      BY <3>1, <2>2, <2>3
  <2>4. CASE channel'[b] = Append(Append(channel[b], event), Snapshot(new))
    <3>1. Append(channel[b], event) \in Seq(Frames)
      BY <2>1, <1>1, AppendedFrame
    <3>2. EndsDegraded(heard[b].degraded, Append(channel[b], event), r)
      BY <3>1, <2>4, <1>1, EndsDegradedAppended
    <3>3. \/ EndsDegraded(heard[b].degraded, channel[b], r) /\ ~Clears(event, r)
          \/ r \in event.degraded
      BY <3>2, <2>1, <1>1, EndsDegradedAppended
    <3>4. ~Clears(event, r) => r \notin event.active \cup event.removed
      BY <1>1 DEF Clears
    <3> QED
      BY <3>3, <3>4, <2>2
  <2> QED
    BY <1>5, <2>3, <2>4
<1>10. WaitersServed'
  <2> SUFFICES ASSUME NEW b \in Brokers, NEW r \in view'[b]
               PROVE  r[2] \notin waiting'[b]
    BY DEF WaitersServed
  <2>1. CASE b \in joined \cap LocalBrokers
    <3>1. r \in new
      BY <2>1, <1>3
    <3>2. \A w : r[2] \notin WaitingAfter(w, Snapshot(new))
      BY <3>1, <1>1 DEF WaitingAfter
    <3> QED
      BY <3>2, <2>1, <1>3
  <2>2. CASE b \notin joined \cap LocalBrokers
    <3>1. view'[b] = view[b] /\ waiting'[b] = waiting[b]
      BY <2>2, <1>3
    <3> QED
      BY <3>1 DEF BrokerInv, WaitersServed
  <2> QED
    BY <2>1, <2>2
<1>11. ToldIsListed'
  BY <1>3 DEF BrokerInv, ToldIsListed
<1> QED
  BY <1>6, <1>7, <1>8, <1>9, <1>10, <1>11 DEF BrokerInv

-----------------------------------------------------------------------------
(* The route table *)

HostType ==
    /\ running \in BOOLEAN
    /\ session \in [Sessions -> {"unused", "open", "closed", "gone"}]
    /\ claim \in [Sessions -> Claims \cup {NoClaim}]
    /\ admission \in [Sessions -> {"none", "authorizing", "admitted", "rejected"}]
    /\ invalid \subseteq Sessions
    /\ peers \in [Guests -> Sessions \cup {NoSession}]

TableType ==
    /\ localRoutes \in [Guests -> Entries]
    /\ degraded \in [Guests -> Entries]
    /\ elapsed \subseteq Guests
    /\ timer \in BOOLEAN

BrokerType ==
    /\ joined \subseteq Brokers
    /\ channel \in [Brokers -> Seq(Frames)]
    /\ view \in [Brokers -> SUBSET Routes]
    /\ heard \in [Brokers -> [before : SUBSET Routes, degraded : SUBSET Routes]]
    /\ waiting \in [Brokers -> SUBSET Domains]

\* The registrations and the parts of the table that concern them.
PeerInv == ClaimsMatch /\ NoZombiePeer

LEMMA HostInvParts ==
    /\ HostInv <=> /\ HostType /\ TableType /\ BrokerType
                   /\ PeerInv /\ DegradedIsPending /\ BrokerInv
    /\ TypeOK <=> HostType /\ TableType /\ BrokerType
BY DEF HostInv, TypeOK, HostType, TableType, BrokerType, PeerInv, BrokerInv

\* An entry has routes when one of the routed domains is in its list.
LEMMA EntryMembers ==
    ASSUME NEW t, NEW g
    PROVE  /\ EntryRoutes(t, g) # {} <=> \E d \in Domains : d \in t[g]
           /\ \A r : r \in EntryRoutes(t, g) <=> \E d \in Domains : d \in t[g] /\ r = <<g, d>>
BY DEF EntryRoutes

\* undefined is no domain.
LEMMA NoEntryEmpty == \A d \in Domains : d \notin NoEntry
BY HostRoutesAssumption DEF NoEntry

\* A table with the same routes, and Brokers that are told nothing.
LEMMA SameRoutesKeep ==
    ASSUME BrokerInv, UNCHANGED brokerVars, ~running' => ~running,
           BrokerRoutes(localRoutes', degraded') = BrokerRoutes(localRoutes, degraded),
           DegradedRoutes(degraded') = DegradedRoutes(degraded)
    PROVE  BrokerInv'
<1>1. UNCHANGED <<joined, channel, view, heard, waiting>>
  BY DEF brokerVars
<1>2. ConnectedBrokers'
  BY <1>1 DEF BrokerInv, ConnectedBrokers
<1>3. LastFrameIsTable'
  BY <1>1 DEF BrokerInv, LastFrameIsTable
<1>4. DegradedAreKnown'
  BY <1>1 DEF BrokerInv, DegradedAreKnown
<1>5. NoStaleFrames'
  BY <1>1 DEF BrokerInv, NoStaleFrames
<1>6. WaitersServed' /\ ToldIsListed'
  BY <1>1 DEF BrokerInv, WaitersServed, ToldIsListed
<1> QED
  BY <1>2, <1>3, <1>4, <1>5, <1>6 DEF BrokerInv

LEMMA SameTableKeeps ==
    ASSUME BrokerInv, UNCHANGED <<localRoutes, degraded, brokerVars>>, ~running' => ~running
    PROVE  BrokerInv'
<1>1. localRoutes' = localRoutes /\ degraded' = degraded /\ UNCHANGED brokerVars
  OBVIOUS
<1> QED
  BY <1>1, SameRoutesKeep

\* removeSessionPeers and detachLocalPeer: the routes of a Guest that leaves
\* become degraded, or stay so.
LEMMA DegradeKeeps ==
    ASSUME HostInv, NEW g \in Guests, DegradeRoutes(g), running' = running,
           peers' = [peers EXCEPT ![g] = NoSession]
    PROVE  TableType' /\ BrokerType' /\ BrokerInv' /\ DegradedIsPending'
<1> DEFINE lost == EntryRoutes(degraded', g)
           event == Lifecycle({}, lost, {})
<1>1. /\ TypeOK /\ TableType /\ BrokerInv /\ DegradedIsPending
      /\ peers \in [Guests -> Sessions \cup {NoSession}]
  BY HostInvParts DEF HostType
<1>2. TableType'
  <2>1. /\ localRoutes[g] \in Entries
        /\ degraded[g] \in Entries
        /\ NoEntry \in Entries
    BY <1>1 DEF TableType, Entries
  <2>2. localRoutes' \in [Guests -> Entries]
    BY <1>1, <2>1 DEF DegradeRoutes, SetDegraded, TableType
  <2>3. degraded' \in [Guests -> Entries]
    BY <1>1, <2>1 DEF DegradeRoutes, SetDegraded, TableType
  <2>4. elapsed' \subseteq Guests
    BY <1>1 DEF DegradeRoutes, SetDegraded, TableType
  <2>5. timer' \in BOOLEAN
    BY <1>1 DEF DegradeRoutes, TableType
  <2> QED
    BY <2>2, <2>3, <2>4, <2>5 DEF TableType
<1>3. \A h \in Guests : \A d \in Domains :
        /\ d \in degraded[h] => d \in degraded'[h]
        /\ d \in degraded'[h] => d \in localRoutes[h] \/ d \in degraded[h]
        /\ h # g => degraded'[h] = degraded[h]
  BY <1>1, NoEntryEmpty DEF DegradeRoutes, SetDegraded, CanDegrade, TableType
<1>4. event \in LifecycleFrames /\ event.degraded = lost
  BY RoutesAreRoutes, LifecycleType DEF Lifecycle
<1>5. \A r \in lost : r \in BrokerRoutes(localRoutes, degraded) /\ r \in DegradedRoutes(degraded')
  BY <1>3, EntryMembers, BrokerRoutesMembers, DegradedRoutesMembers
<1>6. \A r \in DegradedRoutes(degraded) : r \in DegradedRoutes(degraded')
  BY <1>3, DegradedRoutesMembers
<1>7. AnnounceTable(event)
  BY DEF DegradeRoutes
<1>8. BrokerType'
  <2>1. Announce(event, BrokerRoutes(localRoutes', degraded'))
    BY <1>7 DEF AnnounceTable
  <2>2. BrokerRoutes(localRoutes', degraded') \in SUBSET Routes
    BY RoutesAreRoutes
  <2> HIDE DEF event
  <2>3. /\ joined' = joined
        /\ channel' \in [Brokers -> Seq(Frames)]
        /\ view' \in [Brokers -> SUBSET Routes]
        /\ heard' \in [Brokers -> [before : SUBSET Routes, degraded : SUBSET Routes]]
        /\ waiting' \in [Brokers -> SUBSET Domains]
    BY <2>1, <2>2, <1>1, <1>4, AnnounceEffect
  <2> QED
    BY <2>3, <1>1 DEF BrokerType, TypeOK
<1>9. BrokerInv'
  <2> HIDE DEF event, lost
  <2> QED
    BY <1>1, <1>4, <1>5, <1>6, <1>7, AnnounceKeeps
<1>10. DegradedIsPending'
  <2> SUFFICES ASSUME NEW h \in Guests, EntryRoutes(degraded', h) # {}
               PROVE  peers'[h] = NoSession /\ timer'
    BY DEF DegradedIsPending, HasDegraded
  <2>1. CASE h = g
    BY <2>1, <1>1 DEF DegradeRoutes
  <2>2. CASE h # g
    <3>1. EntryRoutes(degraded, h) # {}
      BY <2>2, <1>3, EntryMembers
    <3> QED
      BY <3>1, <2>2, <1>1 DEF DegradeRoutes, DegradedIsPending, HasDegraded
  <2> QED
    BY <2>1, <2>2
<1> QED
  BY <1>2, <1>8, <1>9, <1>10

\* revokeRoutes, of a Guest or of a handle.
LEMMA RevokeKeeps ==
    ASSUME HostInv, NEW g \in Guests, NEW D \in SUBSET Domains, RevokeRoutes(g, D),
           UNCHANGED hostVars
    PROVE  TableType' /\ BrokerType' /\ BrokerInv' /\ DegradedIsPending'
<1> DEFINE revoked == localRoutes[g] \cap D
           event == Lifecycle({}, {}, {<<g, d>> : d \in revoked})
<1>1. /\ TypeOK /\ TableType /\ BrokerType /\ BrokerInv /\ DegradedIsPending
      /\ running' = running /\ peers' = peers
  BY HostInvParts DEF hostVars
<1>2. UNCHANGED <<degraded, elapsed, timer>>
  BY DEF RevokeRoutes
<1>3. TableType'
  <2>1. localRoutes' \in [Guests -> Entries]
    <3> DEFINE rest == IF localRoutes[g] = revoked THEN NoEntry ELSE localRoutes[g] \ revoked
    <3>1. localRoutes \in [Guests -> Entries]
      BY <1>1 DEF TableType
    <3>2. ASSUME localRoutes[g] \in SUBSET Domains
          PROVE  rest \in Entries
      BY <3>2 DEF Entries
    <3>3. ASSUME localRoutes[g] = NoEntry
          PROVE  rest \in Entries
      <4>1. revoked = {}
        BY <3>3, NoEntryEmpty
      <4> QED
        BY <3>3, <4>1 DEF Entries
    <3>4. rest \in Entries
      BY <3>1, <3>2, <3>3 DEF Entries
    <3>5. localRoutes' = [localRoutes EXCEPT ![g] = rest]
      BY DEF RevokeRoutes
    <3> HIDE DEF rest
    <3> QED
      BY <3>1, <3>4, <3>5
  <2> QED
    BY <2>1, <1>1, <1>2 DEF TableType
<1>4. DegradedIsPending'
  BY <1>1, <1>2 DEF DegradedIsPending, HasDegraded
<1>5. CASE revoked = {}
  <2>1. UNCHANGED brokerVars
    BY <1>5 DEF RevokeRoutes
  <2>2. \A h \in Guests : \A d \in Domains : d \in localRoutes'[h] <=> d \in localRoutes[h]
    BY <1>1, <1>5, NoEntryEmpty DEF RevokeRoutes, TableType
  <2>3. BrokerRoutes(localRoutes', degraded') = BrokerRoutes(localRoutes, degraded)
    <3>1. \A r : r \in BrokerRoutes(localRoutes', degraded') <=> r \in BrokerRoutes(localRoutes, degraded)
      BY <2>2, <1>2, BrokerRoutesMembers
    <3> QED
      BY <3>1, Zenon
  <2>4. BrokerInv'
    BY <1>1, <1>2, <2>1, <2>3, SameRoutesKeep
  <2>5. BrokerType'
    BY <2>1, <1>1 DEF BrokerType, brokerVars
  <2> QED
    BY <2>4, <2>5, <1>3, <1>4
<1>6. CASE revoked # {}
  <2>1. AnnounceTable(event)
    BY <1>6 DEF RevokeRoutes
  <2>2. event \in LifecycleFrames /\ event.degraded = {}
    BY ListRoutes, LifecycleType DEF Lifecycle
  <2> HIDE DEF event
  <2>3. BrokerInv'
    BY <1>1, <1>2, <2>1, <2>2, AnnounceKeeps
  <2>4. BrokerType'
    <3>1. Announce(event, BrokerRoutes(localRoutes', degraded'))
      BY <2>1 DEF AnnounceTable
    <3>2. BrokerRoutes(localRoutes', degraded') \in SUBSET Routes
      BY RoutesAreRoutes
    <3> QED
      BY <3>1, <3>2, <2>2, <1>1, AnnounceEffect DEF BrokerType
  <2> QED
    BY <2>3, <2>4, <1>3, <1>4
<1> QED
  BY <1>5, <1>6

\* check() of the cleanup timer.
LEMMA TickKeeps ==
    ASSUME HostInv, CleanupTick
    PROVE  TableType' /\ BrokerType' /\ BrokerInv' /\ DegradedIsPending'
<1>1. /\ TypeOK /\ TableType /\ BrokerType /\ BrokerInv /\ DegradedIsPending
      /\ running' = running /\ peers' = peers /\ localRoutes' = localRoutes
  BY HostInvParts DEF CleanupTick, hostVars
<1>2. degraded' = [g \in Guests |-> IF g \in elapsed THEN NoEntry ELSE degraded[g]]
  BY DEF CleanupTick
<1>3. TableType'
  <2>1. degraded' \in [Guests -> Entries]
    BY <1>1, <1>2 DEF TableType, Entries
  <2>2. timer' \in BOOLEAN
    BY DEF CleanupTick, AnyEntry
  <2> QED
    BY <2>1, <2>2, <1>1 DEF TableType, CleanupTick
<1>4. DegradedIsPending'
  <2> SUFFICES ASSUME NEW g \in Guests, EntryRoutes(degraded', g) # {}
               PROVE  peers'[g] = NoSession /\ timer'
    BY DEF DegradedIsPending, HasDegraded
  <2>1. PICK d \in Domains : d \in degraded'[g]
    BY EntryMembers
  <2>2. degraded'[g] = degraded[g] /\ degraded'[g] # NoEntry
    BY <2>1, <1>2, NoEntryEmpty
  <2>3. EntryRoutes(degraded, g) # {}
    BY <2>1, <2>2, EntryMembers
  <2>4. peers[g] = NoSession
    BY <2>3, <1>1 DEF DegradedIsPending, HasDegraded
  <2> QED
    BY <2>2, <2>4, <1>1 DEF CleanupTick, AnyEntry
<1>5. CASE elapsed = {}
  <2>1. UNCHANGED brokerVars /\ degraded' = degraded
    BY <1>1, <1>2, <1>5 DEF CleanupTick, TableType
  <2>2. BrokerInv'
    BY <2>1, <1>1, SameTableKeeps
  <2>3. BrokerType'
    BY <2>1, <1>1 DEF BrokerType, brokerVars
  <2> QED
    BY <1>3, <1>4, <2>2, <2>3
<1>6. CASE elapsed # {}
  <2> DEFINE gone == UNION {EntryRoutes(degraded, g) : g \in elapsed}
             event == Lifecycle({}, {}, gone)
  <2>1. AnnounceTable(event)
    BY <1>6 DEF CleanupTick, ExpireEvent
  <2>2. gone \in SUBSET Routes
    BY <1>1, RoutesAreRoutes DEF TableType
  <2>3. event \in LifecycleFrames /\ event.degraded = {} /\ event.removed = gone
    BY <2>2, LifecycleType DEF Lifecycle
  <2>4. ASSUME NEW r \in DegradedRoutes(degraded), r \notin gone
        PROVE  r \in DegradedRoutes(degraded')
    <3>1. PICK g \in Guests, d \in Domains : r = <<g, d>> /\ d \in degraded[g]
      BY DegradedRoutesMembers
    <3>2. r \in EntryRoutes(degraded, g)
      BY <3>1, EntryMembers
    <3>3. g \notin elapsed
      BY <3>2, <2>4
    <3>4. d \in degraded'[g]
      BY <3>1, <3>3, <1>2
    <3> QED
      BY <3>1, <3>4, DegradedRoutesMembers
  <2> HIDE DEF event, gone
  <2>5. BrokerInv'
    BY <1>1, <2>1, <2>3, <2>4, AnnounceKeeps
  <2>6. BrokerType'
    <3>1. Announce(event, BrokerRoutes(localRoutes', degraded'))
      BY <2>1 DEF AnnounceTable
    <3>2. BrokerRoutes(localRoutes', degraded') \in SUBSET Routes
      BY RoutesAreRoutes
    <3> QED
      BY <3>1, <3>2, <2>3, <1>1, AnnounceEffect DEF BrokerType
  <2> QED
    BY <1>3, <1>4, <2>5, <2>6
<1> QED
  BY <1>5, <1>6

\* The second half of registerPeer and attachLocalGuest.
LEMMA RegisterKeeps ==
    ASSUME HostInv, NEW s \in Sessions, RegisterGuest(s)
    PROVE  HostInv'
<1> DEFINE g == claim[s].guest
           D == claim[s].domains
<1>1. /\ TypeOK /\ HostType /\ TableType /\ BrokerType /\ PeerInv
      /\ BrokerInv /\ DegradedIsPending
      /\ UNCHANGED <<running, session, claim, invalid>>
  BY HostInvParts DEF RegisterGuest
<1>2. claim[s] \in Claims /\ session[s] = "open" /\ admission[s] = "authorizing"
  BY <1>1 DEF RegisterGuest, MayPublish, PeerInv, ClaimsMatch
<1>3. g \in Guests /\ D \in SUBSET Domains
  BY <1>2, HostRoutesAssumption DEF Claims
<1>4. peers' = [peers EXCEPT ![g] = s] /\ admission' = [admission EXCEPT ![s] = "admitted"]
  BY DEF RegisterGuest
<1>5. HostType'
  BY <1>1, <1>4 DEF HostType
<1>6. PeerInv'
  <2>1. ClaimsMatch'
    BY <1>1, <1>2, <1>3, <1>4 DEF PeerInv, ClaimsMatch, HostType
  <2>2. NoZombiePeer'
    BY <1>1, <1>2, <1>3, <1>4 DEF PeerInv, NoZombiePeer, HostType
  <2> QED
    BY <2>1, <2>2 DEF PeerInv
<1> HIDE DEF g, D
<1>7. ASSUME NEW event \in LifecycleFrames, AnnounceTable(event)
      PROVE  BrokerType'
  <2>1. Announce(event, BrokerRoutes(localRoutes', degraded'))
    BY <1>7 DEF AnnounceTable
  <2>2. BrokerRoutes(localRoutes', degraded') \in SUBSET Routes
    BY RoutesAreRoutes
  <2> QED
    BY <2>1, <2>2, <1>1, AnnounceEffect DEF BrokerType
<1>8. CASE PublishRestored(s)
  <2> DEFINE gone == degraded[g] \ D
             event == Lifecycle({<<g, d>> : d \in D}, {}, {<<g, d>> : d \in gone})
  <2>1. HasDegraded(g) /\ RestoreRoutes(g, D) /\ AnnounceTable(event)
    BY <1>8 DEF PublishRestored, RestoreEvent, g, D
  <2>2. degraded[g] \in SUBSET Domains
    <3>1. \E d \in Domains : d \in degraded[g]
      BY <2>1, EntryMembers DEF HasDegraded
    <3> QED
      BY <3>1, <1>1, <1>3, NoEntryEmpty DEF TableType, Entries
  <2>3. event \in LifecycleFrames /\ event.degraded = {}
        /\ event.active = {<<g, d>> : d \in D} /\ event.removed = {<<g, d>> : d \in gone}
    BY <2>2, <1>3, ListRoutes, LifecycleType DEF Lifecycle
  <2>4. degraded' = [degraded EXCEPT ![g] = NoEntry]
    BY <2>1 DEF RestoreRoutes
  <2>5. TableType'
    <3>1. degraded' \in [Guests -> Entries]
      BY <2>4, <1>1 DEF TableType, Entries
    <3>2. localRoutes' \in [Guests -> Entries]
      BY <2>1, <1>1, <1>3 DEF TableType, RestoreRoutes, Entries
    <3>3. elapsed' \subseteq Guests
      BY <2>1, <1>1 DEF TableType, RestoreRoutes
    <3>4. timer' \in BOOLEAN
      BY <2>1, <1>1 DEF TableType, RestoreRoutes, AnyEntry
    <3> QED
      BY <3>1, <3>2, <3>3, <3>4 DEF TableType
  <2>6. ASSUME NEW r \in DegradedRoutes(degraded), r \notin event.active \cup event.removed
        PROVE  r \in DegradedRoutes(degraded')
    <3>1. PICK h \in Guests, d \in Domains : r = <<h, d>> /\ d \in degraded[h]
      BY DegradedRoutesMembers
    <3>2. h # g
      BY <3>1, <2>6, <2>3
    <3>3. d \in degraded'[h]
      BY <3>1, <3>2, <2>4, <1>1 DEF TableType
    <3> QED
      BY <3>1, <3>3, DegradedRoutesMembers
  <2>7. DegradedIsPending'
    <3> SUFFICES ASSUME NEW h \in Guests, EntryRoutes(degraded', h) # {}
                 PROVE  peers'[h] = NoSession /\ timer'
      BY DEF DegradedIsPending, HasDegraded
    <3>1. PICK d \in Domains : d \in degraded'[h]
      BY EntryMembers
    <3>2. h # g /\ degraded'[h] = degraded[h] /\ degraded'[h] # NoEntry
      BY <3>1, <2>4, <1>1, NoEntryEmpty DEF TableType
    <3>3. EntryRoutes(degraded, h) # {}
      BY <3>1, <3>2, EntryMembers
    <3>4. peers[h] = NoSession /\ timer
      BY <3>3, <1>1 DEF DegradedIsPending, HasDegraded
    <3>5. AnyEntry(degraded')
      BY <3>2 DEF AnyEntry
    <3>6. timer'
      BY <3>4, <3>5, <2>1 DEF RestoreRoutes
    <3> QED
      BY <3>2, <3>4, <3>6, <1>1, <1>4 DEF HostType
  <2> HIDE DEF event
  <2>8. BrokerInv'
    BY <1>1, <2>1, <2>3, <2>6, AnnounceKeeps
  <2>9. BrokerType'
    BY <1>7, <2>1, <2>3
  <2> QED
    BY <1>5, <1>6, <2>5, <2>7, <2>8, <2>9 DEF HostInv, TypeOK, HostType, TableType, BrokerType, PeerInv, BrokerInv
<1>9. CASE PublishFresh(s)
  <2> DEFINE told == IF claim[s].local THEN {<<g, d>> : d \in D} ELSE {}
             event == Lifecycle(told, {}, {})
  <2>1. /\ ~HasDegraded(g) /\ AnnounceTable(event)
        /\ localRoutes' = [localRoutes EXCEPT ![g] = D]
        /\ UNCHANGED <<degraded, elapsed, timer>>
    BY <1>9 DEF PublishFresh, FreshEvent, g, D
  <2>2. told \in SUBSET Routes
    BY <1>3, ListRoutes
  <2>3. event \in LifecycleFrames /\ event.degraded = {}
    BY <2>2, LifecycleType DEF Lifecycle
  <2>4. TableType'
    <3>1. localRoutes' \in [Guests -> Entries]
      BY <2>1, <1>1, <1>3 DEF TableType, Entries
    <3> QED
      BY <3>1, <2>1, <1>1 DEF TableType
  <2>5. DegradedIsPending'
    BY <2>1, <1>1, <1>4 DEF DegradedIsPending, HasDegraded, HostType
  <2> HIDE DEF event
  <2>6. BrokerInv'
    BY <1>1, <2>1, <2>3, AnnounceKeeps
  <2>7. BrokerType'
    BY <1>7, <2>1, <2>3
  <2> QED
    BY <1>5, <1>6, <2>4, <2>5, <2>6, <2>7 DEF HostInv, TypeOK, HostType, TableType, BrokerType, PeerInv, BrokerInv
<1> QED
  BY <1>8, <1>9 DEF RegisterGuest

-----------------------------------------------------------------------------
(* Sessions *)

\* Steps that leave the table and the Brokers alone.
LEMMA QuietKeeps ==
    ASSUME HostInv, UNCHANGED <<tableVars, brokerVars>>, running => running',
           HostType', PeerInv', peers' = peers
    PROVE  HostInv'
<1>1. UNCHANGED <<localRoutes, degraded, elapsed, timer, brokerVars>>
  BY DEF tableVars
<1>2. TableType /\ BrokerType /\ BrokerInv /\ DegradedIsPending /\ running \in BOOLEAN
  BY HostInvParts DEF HostType
<1>3. BrokerInv'
  BY <1>1, <1>2, SameTableKeeps
<1>4. TableType'
  BY <1>1, <1>2 DEF TableType
<1>5. BrokerType'
  BY <1>1, <1>2 DEF BrokerType, brokerVars
<1>6. DegradedIsPending'
  BY <1>1, <1>2 DEF DegradedIsPending, HasDegraded
<1> QED
  BY <1>3, <1>4, <1>5, <1>6
     DEF HostInv, TypeOK, HostType, TableType, BrokerType, PeerInv, BrokerInv

\* The first half of a registration, and the ends it can come to without effect.
LEMMA AdmissionKeeps ==
    ASSUME HostInv, NEW s \in Sessions,
           \/ \E c \in Claims : BeginAdmission(s, c)
           \/ AdmissionDenied(s)
           \/ AdmissionDropped(s)
           \/ SessionCloses(s)
    PROVE  HostInv'
<1>1. HostType /\ ClaimsMatch /\ NoZombiePeer
  BY HostInvParts DEF PeerInv
<1>2. ASSUME NEW c \in Claims, BeginAdmission(s, c)
      PROVE  HostInv'
  <2>1. HostType'
    BY <1>1, <1>2 DEF HostType, BeginAdmission
  <2>2. ClaimsMatch'
    BY <1>1, <1>2 DEF HostType, BeginAdmission, ClaimsMatch
  <2>3. NoZombiePeer'
    BY <1>1, <1>2 DEF HostType, BeginAdmission, ClaimsMatch, NoZombiePeer
  <2>4. /\ UNCHANGED <<tableVars, brokerVars>> /\ running' = running /\ peers' = peers
    BY <1>2 DEF BeginAdmission
  <2> QED
    BY <2>1, <2>2, <2>3, <2>4, QuietKeeps DEF PeerInv
<1>3. ASSUME AdmissionDenied(s)
      PROVE  HostInv'
  <2>1. HostType'
    BY <1>1, <1>3 DEF HostType, AdmissionDenied
  <2>2. ClaimsMatch'
    BY <1>1, <1>3 DEF HostType, AdmissionDenied, ClaimsMatch
  <2>3. NoZombiePeer'
    BY <1>1, <1>3 DEF HostType, AdmissionDenied, ClaimsMatch, NoZombiePeer
  <2>4. /\ UNCHANGED <<tableVars, brokerVars>> /\ running' = running /\ peers' = peers
    BY <1>3 DEF AdmissionDenied
  <2> QED
    BY <2>1, <2>2, <2>3, <2>4, QuietKeeps DEF PeerInv
<1>4. ASSUME AdmissionDropped(s)
      PROVE  HostInv'
  <2>1. HostType'
    BY <1>1, <1>4 DEF HostType, AdmissionDropped
  <2>2. ClaimsMatch'
    BY <1>1, <1>4 DEF HostType, AdmissionDropped, ClaimsMatch
  <2>3. NoZombiePeer'
    BY <1>1, <1>4 DEF HostType, AdmissionDropped, ClaimsMatch, NoZombiePeer
  <2>4. /\ UNCHANGED <<tableVars, brokerVars>> /\ running' = running /\ peers' = peers
    BY <1>4 DEF AdmissionDropped
  <2> QED
    BY <2>1, <2>2, <2>3, <2>4, QuietKeeps DEF PeerInv
<1>5. ASSUME SessionCloses(s)
      PROVE  HostInv'
  <2>1. HostType'
    BY <1>1, <1>5 DEF HostType, SessionCloses
  <2>2. ClaimsMatch'
    BY <1>1, <1>5 DEF HostType, SessionCloses, ClaimsMatch
  <2>3. NoZombiePeer'
    BY <1>1, <1>5 DEF HostType, SessionCloses, ClaimsMatch, NoZombiePeer
  <2>4. /\ UNCHANGED <<tableVars, brokerVars>> /\ running' = running /\ peers' = peers
    BY <1>5 DEF SessionCloses
  <2> QED
    BY <2>1, <2>2, <2>3, <2>4, QuietKeeps DEF PeerInv
<1> QED
  BY <1>2, <1>3, <1>4, <1>5

\* The 'close' event of a session: the Guest registered with it, and no other,
\* leaves.
LEMMA CloseEventKeeps ==
    ASSUME HostInv, NEW s \in Sessions, SessionCloseEvent(s)
    PROVE  HostInv'
<1> DEFINE g == claim[s].guest
<1>1. /\ HostType /\ ClaimsMatch /\ NoZombiePeer
      /\ UNCHANGED <<running, claim, admission, invalid>>
      /\ session[s] = "closed" /\ session' = [session EXCEPT ![s] = "gone"]
  BY HostInvParts DEF PeerInv, SessionCloseEvent
<1>2. claim[s] \in Claims /\ g \in Guests
  BY <1>1 DEF ClaimsMatch, Claims
<1>3. CASE peers[g] = s
  <2>1. peers' = [peers EXCEPT ![g] = NoSession] /\ DegradeRoutes(g)
    BY <1>3 DEF SessionCloseEvent
  <2>2. HostType'
    BY <1>1, <2>1 DEF HostType
  <2>3. ClaimsMatch'
    BY <1>1, <1>2, <2>1 DEF HostType, ClaimsMatch
  <2>4. NoZombiePeer'
    BY <1>1, <1>2, <2>1 DEF HostType, ClaimsMatch, NoZombiePeer
  <2>5. TableType' /\ BrokerType' /\ BrokerInv' /\ DegradedIsPending'
    BY <1>1, <1>2, <2>1, DegradeKeeps
  <2> QED
    BY <2>2, <2>3, <2>4, <2>5
       DEF HostInv, TypeOK, HostType, TableType, BrokerType, PeerInv, BrokerInv
<1>4. CASE peers[g] # s
  <2>1. UNCHANGED <<peers, tableVars, brokerVars>>
    BY <1>4 DEF SessionCloseEvent
  <2>2. HostType'
    BY <1>1, <2>1 DEF HostType
  <2>3. ClaimsMatch'
    BY <1>1, <1>2, <2>1 DEF HostType, ClaimsMatch
  <2>4. NoZombiePeer'
    BY <1>1, <1>2, <1>4, <2>1 DEF HostType, ClaimsMatch, NoZombiePeer
  <2> QED
    BY <1>1, <2>1, <2>2, <2>3, <2>4, QuietKeeps DEF PeerInv
<1> QED
  BY <1>3, <1>4

\* close() of a local handle goes by the ID of the Guest.
LEMMA CloseHandleKeeps ==
    ASSUME HostInv, NEW s \in Sessions, CloseHandle(s)
    PROVE  HostInv'
<1> DEFINE g == claim[s].guest
<1>1. /\ HostType /\ ClaimsMatch /\ NoZombiePeer
      /\ UNCHANGED <<running, claim, admission, invalid>>
      /\ session[s] = "open" /\ session' = [session EXCEPT ![s] = "gone"]
      /\ claim[s].local
  BY HostInvParts DEF PeerInv, CloseHandle
<1>2. claim[s] \in Claims /\ g \in Guests
  BY <1>1 DEF ClaimsMatch, Claims
<1>3. CASE peers[g] # NoSession /\ claim[peers[g]].local
  <2>1. peers' = [peers EXCEPT ![g] = NoSession] /\ DegradeRoutes(g)
    BY <1>3 DEF CloseHandle
  <2>2. HostType'
    BY <1>1, <2>1 DEF HostType
  <2>3. ClaimsMatch'
    BY <1>1, <1>2, <2>1 DEF HostType, ClaimsMatch
  <2>4. NoZombiePeer'
    BY <1>1, <1>2, <2>1 DEF HostType, ClaimsMatch, NoZombiePeer
  <2>5. TableType' /\ BrokerType' /\ BrokerInv' /\ DegradedIsPending'
    BY <1>1, <1>2, <2>1, DegradeKeeps
  <2> QED
    BY <2>2, <2>3, <2>4, <2>5
       DEF HostInv, TypeOK, HostType, TableType, BrokerType, PeerInv, BrokerInv
<1>4. CASE ~(peers[g] # NoSession /\ claim[peers[g]].local)
  <2>1. UNCHANGED <<peers, tableVars, brokerVars>>
    BY <1>4 DEF CloseHandle
  <2>2. HostType'
    BY <1>1, <2>1 DEF HostType
  <2>3. ClaimsMatch'
    BY <1>1, <1>2, <2>1 DEF HostType, ClaimsMatch
  <2>4. NoZombiePeer'
    BY <1>1, <1>2, <2>1 DEF HostType, ClaimsMatch, NoZombiePeer
  <2> QED
    BY <1>1, <2>1, <2>2, <2>3, <2>4, QuietKeeps DEF PeerInv
<1> QED
  BY <1>3, <1>4

\* Revocations come from a session or handle in use.
LEMMA RevocationKeeps ==
    ASSUME HostInv, NEW s \in Sessions, NEW D \in SUBSET Domains,
           GuestRevokes(s, D) \/ HandleRevokes(s, D)
    PROVE  HostInv'
<1> DEFINE g == claim[s].guest
<1>1. /\ HostType /\ ClaimsMatch /\ NoZombiePeer
      /\ UNCHANGED hostVars /\ session[s] = "open" /\ RevokeRoutes(g, D)
  BY HostInvParts DEF PeerInv, GuestRevokes, HandleRevokes
<1>2. claim[s] \in Claims /\ g \in Guests
  BY <1>1 DEF ClaimsMatch, Claims
<1>3. TableType' /\ BrokerType' /\ BrokerInv' /\ DegradedIsPending'
  BY <1>1, <1>2, RevokeKeeps
<1>4. HostType' /\ PeerInv'
  BY <1>1 DEF hostVars, HostType, PeerInv, ClaimsMatch, NoZombiePeer
<1> QED
  BY <1>3, <1>4 DEF HostInv, TypeOK, HostType, TableType, BrokerType, PeerInv, BrokerInv

LEMMA SessionStepsKeep ==
    ASSUME HostInv, SessionSteps
    PROVE  HostInv'
BY AdmissionKeeps, RegisterKeeps, CloseEventKeeps, CloseHandleKeeps, RevocationKeeps
   DEF SessionSteps

-----------------------------------------------------------------------------
(* The cleanup timer and the Host *)

LEMMA TableStepsKeep ==
    ASSUME HostInv, TableSteps
    PROVE  HostInv'
<1>1. /\ HostType /\ TableType /\ BrokerType /\ PeerInv /\ BrokerInv /\ DegradedIsPending
      /\ UNCHANGED hostVars
  BY HostInvParts DEF TableSteps, CleanupTick, Elapse
<1>2. HostType' /\ PeerInv'
  BY <1>1 DEF hostVars, HostType, PeerInv, ClaimsMatch, NoZombiePeer
<1>3. CASE CleanupTick
  BY <1>2, <1>3, TickKeeps
     DEF HostInv, TypeOK, HostType, TableType, BrokerType, PeerInv, BrokerInv
<1>4. ASSUME NEW g \in Guests, Elapse(g)
      PROVE  HostInv'
  <2>1. UNCHANGED <<localRoutes, degraded, timer, brokerVars>> /\ elapsed' = elapsed \cup {g}
    BY <1>4 DEF Elapse
  <2>2. TableType' /\ BrokerType'
    BY <2>1, <1>1 DEF TableType, BrokerType, brokerVars
  <2>3. running' = running
    BY <1>1 DEF hostVars
  <2>4. BrokerInv'
    BY <2>1, <2>3, <1>1, SameTableKeeps
  <2>5. DegradedIsPending'
    BY <2>1, <1>1 DEF DegradedIsPending, HasDegraded, hostVars
  <2> QED
    BY <1>2, <2>2, <2>4, <2>5
       DEF HostInv, TypeOK, HostType, TableType, BrokerType, PeerInv, BrokerInv
<1> QED
  BY <1>3, <1>4 DEF TableSteps

\* A cleared table is well typed and has nothing degraded.
LEMMA ClearedTable ==
    ASSUME ClearRoutes
    PROVE  TableType' /\ DegradedIsPending'
<1>1. TableType'
  BY DEF ClearRoutes, TableType, Entries
<1>2. \A g \in Guests : EntryRoutes(degraded', g) = {}
  BY EntryMembers, NoEntryEmpty DEF ClearRoutes
<1> QED
  BY <1>1, <1>2 DEF DegradedIsPending, HasDegraded

\* close() leaves no remote Broker behind that would have to be told.
LEMMA HostStepsKeep ==
    ASSUME HostInv, HostSteps
    PROVE  HostInv'
<1>1. /\ TypeOK /\ HostType /\ TableType /\ BrokerType /\ BrokerInv /\ DegradedIsPending
      /\ ClaimsMatch /\ NoZombiePeer
  BY HostInvParts DEF PeerInv
<1>2. CASE Start
  <2>1. HostType' /\ PeerInv' /\ UNCHANGED <<tableVars, brokerVars>> /\ running' /\ peers' = peers
    BY <1>1, <1>2 DEF Start, HostType, PeerInv, ClaimsMatch, NoZombiePeer
  <2> QED
    BY <2>1, QuietKeeps
<1>3. CASE HostClose
  <2>1. HostType'
    BY <1>1, <1>3 DEF HostClose, OvertakeAdmissions, HostType
  <2>2. ClaimsMatch'
    BY <1>1, <1>3 DEF HostClose, HostType, ClaimsMatch
  <2>3. NoZombiePeer'
    BY <1>1, <1>3 DEF HostClose, HostType, NoZombiePeer
  <2>4. TableType' /\ DegradedIsPending'
    BY <1>3, ClearedTable DEF HostClose
  <2>5. BrokerType'
    <3>1. <<>> \in Seq(Frames)
      OBVIOUS
    <3> QED
      BY <1>1, <1>3, <3>1 DEF HostClose, BrokerType
  <2>6. ConnectedBrokers'
    <3>1. \A b \in LocalBrokers : waiting'[b] = {}
      BY <1>1, <1>3, HostRoutesAssumption DEF HostClose, BrokerInv, ConnectedBrokers, BrokerType
    <3>2. joined' = {} /\ \A b \in Brokers : channel'[b] = <<>>
      BY <1>3 DEF HostClose
    <3> QED
      BY <3>1, <3>2 DEF ConnectedBrokers
  <2>7. LastFrameIsTable' /\ NoStaleFrames'
    BY <1>3 DEF HostClose, LastFrameIsTable, NoStaleFrames
  <2>8. DegradedAreKnown'
    <3>1. \A b \in Brokers : channel'[b] = <<>>
      BY <1>3 DEF HostClose
    <3>2. \A b \in Brokers : \A i \in DOMAIN channel'[b] : FALSE
      BY <3>1
    <3> QED
      BY <3>2 DEF DegradedAreKnown
  <2>9. WaitersServed' /\ ToldIsListed'
    BY <1>1, <1>3 DEF HostClose, WaitersServed, ToldIsListed, BrokerInv
  <2> QED
    BY <2>1, <2>2, <2>3, <2>4, <2>5, <2>6, <2>7, <2>8, <2>9
       DEF HostInv, TypeOK, HostType, TableType, BrokerType
<1>4. CASE HostCloseIdle
  <2>1. UNCHANGED <<running, session, claim, admission, peers, brokerVars>> /\ ~running
    BY <1>4 DEF HostCloseIdle
  <2>2. HostType'
    BY <1>1, <1>4 DEF HostCloseIdle, OvertakeAdmissions, HostType
  <2>3. PeerInv'
    BY <1>1, <2>1 DEF PeerInv, ClaimsMatch, NoZombiePeer
  <2>4. TableType' /\ DegradedIsPending'
    BY <1>4, ClearedTable DEF HostCloseIdle
  <2>5. BrokerType'
    BY <1>1, <2>1 DEF BrokerType, brokerVars
  <2>6. joined \subseteq LocalBrokers /\ joined' = joined
    BY <1>1, <2>1 DEF BrokerInv, ConnectedBrokers, brokerVars
  <2>7. LastFrameIsTable' /\ NoStaleFrames'
    BY <2>6 DEF LastFrameIsTable, NoStaleFrames
  <2>8. ConnectedBrokers' /\ DegradedAreKnown' /\ WaitersServed' /\ ToldIsListed'
    BY <1>1, <2>1
       DEF BrokerInv, ConnectedBrokers, DegradedAreKnown, WaitersServed, ToldIsListed, brokerVars
  <2> QED
    BY <2>2, <2>3, <2>4, <2>5, <2>7, <2>8
       DEF HostInv, TypeOK, HostType, TableType, BrokerType, PeerInv
<1> QED
  BY <1>2, <1>3, <1>4 DEF HostSteps

-----------------------------------------------------------------------------
(* Brokers *)

\* The steps of one Broker leave the others alone.
OnlyBroker(b) ==
    /\ \A c \in Brokers \ {b} :
          /\ channel'[c] = channel[c] /\ view'[c] = view[c]
          /\ heard'[c] = heard[c] /\ waiting'[c] = waiting[c]
          /\ c \in joined' <=> c \in joined
    /\ UNCHANGED <<hostVars, tableVars>>

\* It is enough to look at the Broker that takes a step.
LEMMA OneBroker ==
    ASSUME HostInv, NEW b \in Brokers, OnlyBroker(b), BrokerType',
           b \in joined' \ LocalBrokers => running,
           channel'[b] # <<>> => b \in joined' \ LocalBrokers,
           b \in LocalBrokers \ joined' => waiting'[b] = {},
           b \in joined' \ LocalBrokers =>
               IF channel'[b] = <<>> THEN view'[b] = BrokerRoutes(localRoutes, degraded)
               ELSE channel'[b][Len(channel'[b])] = Snapshot(BrokerRoutes(localRoutes, degraded)),
           \A i \in DOMAIN channel'[b] : channel'[b][i].type = "route-lifecycle" =>
               IF i = 1 THEN channel'[b][i].degraded \subseteq view'[b]
               ELSE /\ channel'[b][i - 1].type = "routes"
                    /\ channel'[b][i].degraded \subseteq channel'[b][i - 1].routes,
           b \in joined' \ LocalBrokers => \A r \in Routes :
               EndsDegraded(heard'[b].degraded, channel'[b], r) => r \in DegradedRoutes(degraded),
           b \notin LocalBrokers => heard'[b].degraded \cup heard'[b].before \subseteq view'[b],
           \A r \in view'[b] : r[2] \notin waiting'[b]
    PROVE  HostInv'
<1>1. /\ HostType /\ TableType /\ BrokerType /\ PeerInv /\ BrokerInv /\ DegradedIsPending
      /\ UNCHANGED <<running, session, claim, admission, invalid, peers>>
      /\ UNCHANGED <<localRoutes, degraded, elapsed, timer>>
      /\ joined \subseteq Brokers /\ joined' \subseteq Brokers
  BY HostInvParts DEF OnlyBroker, hostVars, tableVars, BrokerType
<1>2. HostType' /\ TableType' /\ PeerInv' /\ DegradedIsPending'
  BY <1>1 DEF HostType, TableType, PeerInv, ClaimsMatch, NoZombiePeer, DegradedIsPending, HasDegraded
<1>3. ConnectedBrokers'
  BY <1>1, HostRoutesAssumption DEF OnlyBroker, BrokerInv, ConnectedBrokers
<1>4. LastFrameIsTable'
  BY <1>1 DEF OnlyBroker, BrokerInv, LastFrameIsTable
<1>5. DegradedAreKnown'
  <2> SUFFICES ASSUME NEW c \in Brokers, NEW i \in DOMAIN channel'[c],
                      channel'[c][i].type = "route-lifecycle"
               PROVE  IF i = 1 THEN channel'[c][i].degraded \subseteq view'[c]
                      ELSE /\ channel'[c][i - 1].type = "routes"
                           /\ channel'[c][i].degraded \subseteq channel'[c][i - 1].routes
    BY DEF DegradedAreKnown
  <2>1. CASE c = b
    BY <2>1
  <2>2. CASE c # b
    BY <2>2, <1>1 DEF OnlyBroker, BrokerInv, DegradedAreKnown
  <2> QED
    BY <2>1, <2>2
<1>6. NoStaleFrames'
  BY <1>1 DEF OnlyBroker, BrokerInv, NoStaleFrames
<1>7. WaitersServed'
  BY <1>1 DEF OnlyBroker, BrokerInv, WaitersServed
<1>8. ToldIsListed'
  BY <1>1 DEF OnlyBroker, BrokerInv, ToldIsListed
<1> QED
  BY <1>2, <1>3, <1>4, <1>5, <1>6, <1>7, <1>8
     DEF HostInv, TypeOK, HostType, TableType, BrokerType, PeerInv

\* A Broker that joins is told the table, and over this connection nothing of
\* degraded routes; what its listeners were told before stands.
LEMMA JoinKeeps ==
    ASSUME HostInv, NEW b \in Brokers, BrokerJoins(b)
    PROVE  HostInv'
<1> DEFINE table == BrokerRoutes(localRoutes, degraded)
<1>1. /\ BrokerType /\ BrokerInv
      /\ table \in SUBSET Routes /\ Snapshot(table) \in Frames
      /\ Snapshot(table).type = "routes" /\ Snapshot(table).routes = table
      /\ <<>> \in Seq(Frames)
  BY HostInvParts, RoutesAreRoutes, SnapshotType
<1>2. /\ b \notin joined /\ joined' = joined \cup {b}
      /\ channel' = [channel EXCEPT ![b] = IF b \in LocalBrokers THEN <<>> ELSE <<Snapshot(table)>>]
      /\ view' = [view EXCEPT ![b] = IF b \in LocalBrokers THEN table ELSE @]
      /\ heard' = [heard EXCEPT ![b] = [before |-> IF b \in LocalBrokers THEN {}
                                                   ELSE @.before \cup @.degraded,
                                        degraded |-> {}]]
      /\ waiting' = waiting
      /\ b \notin LocalBrokers => running
  BY DEF BrokerJoins
<1> HIDE DEF table
<1>3. <<Snapshot(table)>> \in Seq(Frames)
  BY <1>1
<1>4. BrokerType'
  <2>1. channel' \in [Brokers -> Seq(Frames)]
    BY <1>1, <1>2, <1>3 DEF BrokerType
  <2>2. heard' \in [Brokers -> [before : SUBSET Routes, degraded : SUBSET Routes]]
    BY <1>1, <1>2 DEF BrokerType
  <2> QED
    BY <2>1, <2>2, <1>1, <1>2 DEF BrokerType
<1>5. OnlyBroker(b)
  <2>1. UNCHANGED <<hostVars, tableVars>>
    BY DEF BrokerJoins
  <2> QED
    BY <2>1, <1>1, <1>2 DEF OnlyBroker, BrokerType
<1>6. \A f : <<f>> # <<>> /\ Len(<<f>>) = 1 /\ DOMAIN <<f>> = {1} /\ <<f>>[1] = f
  OBVIOUS
<1>7. /\ heard'[b].degraded = {} /\ waiting'[b] = waiting[b]
      /\ b \in LocalBrokers => channel'[b] = <<>> /\ view'[b] = table
      /\ b \notin LocalBrokers => channel'[b] = <<Snapshot(table)>> /\ view'[b] = view[b]
  BY <1>1, <1>2 DEF BrokerType
<1>8. \A i \in DOMAIN channel'[b] : i = 1 /\ channel'[b][i].type = "routes"
  <2>1. CASE b \in LocalBrokers
    BY <2>1, <1>7
  <2>2. CASE b \notin LocalBrokers
    BY <2>2, <1>1, <1>6, <1>7
  <2> QED
    BY <2>1, <2>2
<1>9. \A r \in view'[b] : r[2] \notin waiting'[b]
  BY <1>1, <1>2, <1>7 DEF BrokerInv, ConnectedBrokers, WaitersServed
<1>10. b \notin LocalBrokers => /\ channel'[b] # <<>>
                                /\ channel'[b][Len(channel'[b])] = Snapshot(table)
  BY <1>6, <1>7
<1>11. \A r \in Routes : ~EndsDegraded(heard'[b].degraded, channel'[b], r)
  BY <1>7, <1>8 DEF EndsDegraded
<1>12. b \in LocalBrokers => channel'[b] = <<>>
  BY <1>7
<1>13. b \notin LocalBrokers => heard'[b].degraded \cup heard'[b].before \subseteq view'[b]
  BY <1>1, <1>2, <1>7 DEF BrokerInv, BrokerType, ToldIsListed
<1> QED
  BY <1>2, <1>4, <1>5, <1>8, <1>9, <1>10, <1>11, <1>12, <1>13, OneBroker DEF table

LEMMA LeaveKeeps ==
    ASSUME HostInv, NEW b \in Brokers, BrokerLeaves(b)
    PROVE  HostInv'
<1>1. /\ BrokerType /\ BrokerInv /\ <<>> \in Seq(Frames)
  BY HostInvParts
<1>2. /\ joined' = joined \ {b}
      /\ channel' = [channel EXCEPT ![b] = <<>>]
      /\ view' = [view EXCEPT ![b] = IF b \in LocalBrokers THEN {} ELSE @]
      /\ waiting' = [waiting EXCEPT ![b] = IF b \in LocalBrokers THEN {} ELSE @]
      /\ heard' = heard /\ UNCHANGED <<hostVars, tableVars>>
  BY DEF BrokerLeaves
<1>3. BrokerType'
  BY <1>1, <1>2 DEF BrokerType
<1>4. OnlyBroker(b)
  BY <1>1, <1>2 DEF OnlyBroker, BrokerType
<1>5. /\ b \notin joined' /\ channel'[b] = <<>>
      /\ b \in LocalBrokers => waiting'[b] = {} /\ view'[b] = {}
      /\ b \notin LocalBrokers => view'[b] = view[b] /\ waiting'[b] = waiting[b]
  BY <1>1, <1>2 DEF BrokerType
<1>6. \A i \in DOMAIN channel'[b] : FALSE
  BY <1>5
<1>7. \A r \in view'[b] : r[2] \notin waiting'[b]
  BY <1>1, <1>5 DEF BrokerInv, WaitersServed
<1>8. b \notin LocalBrokers => heard'[b].degraded \cup heard'[b].before \subseteq view'[b]
  BY <1>1, <1>2, <1>5 DEF BrokerInv, ToldIsListed
<1> QED
  BY <1>3, <1>4, <1>5, <1>6, <1>7, <1>8, OneBroker

LEMMA WaitKeeps ==
    ASSUME HostInv, NEW b \in Brokers, NEW d \in Domains, WaitForRoute(b, d)
    PROVE  HostInv'
<1>1. /\ BrokerType /\ BrokerInv /\ running \in BOOLEAN
  BY HostInvParts DEF HostType
<1>2. /\ b \in joined /\ waiting' = [waiting EXCEPT ![b] = @ \cup {d}]
      /\ \A r \in view[b] : r[2] # d
      /\ UNCHANGED <<hostVars, tableVars, joined, channel, view, heard>>
  BY DEF WaitForRoute
<1>3. BrokerType'
  BY <1>1, <1>2 DEF BrokerType
<1>4. OnlyBroker(b)
  BY <1>1, <1>2 DEF OnlyBroker, BrokerType
<1>5. \A r \in view'[b] : r[2] \notin waiting'[b]
  BY <1>1, <1>2 DEF BrokerInv, WaitersServed, BrokerType
<1> QED
  BY <1>1, <1>2, <1>3, <1>4, <1>5, OneBroker
     DEF BrokerInv, ConnectedBrokers, LastFrameIsTable, DegradedAreKnown, NoStaleFrames,
         ToldIsListed

\* A Broker that reads its next frame.
LEMMA ReadKeeps ==
    ASSUME HostInv, NEW b \in Brokers, BrokerReads(b)
    PROVE  HostInv'
<1> DEFINE s == channel[b]
           n == Len(s)
           f == s[1]
           table == BrokerRoutes(localRoutes, degraded)
<1>1. /\ BrokerType /\ BrokerInv /\ running \in BOOLEAN
      /\ s \in Seq(Frames) /\ s # <<>> /\ b \in joined \ LocalBrokers /\ joined \subseteq Brokers
      /\ heard[b] \in [before : SUBSET Routes, degraded : SUBSET Routes]
  BY HostInvParts DEF HostType, BrokerType, BrokerReads, BrokerInv, ConnectedBrokers
<1>2. /\ f \in Frames /\ Head(s) = f /\ n \in Nat \ {0} /\ DOMAIN s = 1 .. n
      /\ Tail(s) \in Seq(Frames) /\ Len(Tail(s)) = n - 1 /\ DOMAIN Tail(s) = 1 .. (n - 1)
      /\ \A i \in 1 .. (n - 1) : Tail(s)[i] = s[i + 1]
      /\ Tail(s) = <<>> => n = 1
  BY <1>1, ReadFrame
<1>3. /\ channel' = [channel EXCEPT ![b] = Tail(s)]
      /\ view' = [view EXCEPT ![b] = ViewAfter(@, f)]
      /\ heard' = [heard EXCEPT ![b] = HeardAfter(@, f)]
      /\ waiting' = [waiting EXCEPT ![b] = WaitingAfter(@, f)]
      /\ joined' = joined /\ UNCHANGED <<hostVars, tableVars>>
  BY <1>2 DEF BrokerReads
<1>4. /\ ViewAfter(view[b], f) \in SUBSET Routes
      /\ WaitingAfter(waiting[b], f) \in SUBSET Domains
      /\ HeardAfter(heard[b], f) \in [before : SUBSET Routes, degraded : SUBSET Routes]
  BY <1>1, <1>2, FrameEffects DEF BrokerType
<1>5. /\ channel'[b] = Tail(s) /\ view'[b] = ViewAfter(view[b], f)
      /\ heard'[b] = HeardAfter(heard[b], f) /\ waiting'[b] = WaitingAfter(waiting[b], f)
  BY <1>1, <1>3 DEF BrokerType
<1>6. BrokerType'
  <2>1. channel' \in [Brokers -> Seq(Frames)]
    BY <1>1, <1>2, <1>3 DEF BrokerType
  <2>2. view' \in [Brokers -> SUBSET Routes] /\ waiting' \in [Brokers -> SUBSET Domains]
    BY <1>1, <1>3, <1>4 DEF BrokerType
  <2>3. heard' \in [Brokers -> [before : SUBSET Routes, degraded : SUBSET Routes]]
    BY <1>1, <1>3, <1>4 DEF BrokerType
  <2> QED
    BY <2>1, <2>2, <2>3, <1>1, <1>3 DEF BrokerType
<1>7. OnlyBroker(b)
  BY <1>1, <1>3 DEF OnlyBroker, BrokerType
<1>8. s[n] = Snapshot(table) /\ Snapshot(table).type = "routes" /\ Snapshot(table).routes = table
  BY <1>1, SnapshotType, RoutesAreRoutes DEF BrokerInv, LastFrameIsTable
<1> HIDE DEF table
<1>9. IF channel'[b] = <<>> THEN view'[b] = table
      ELSE channel'[b][Len(channel'[b])] = Snapshot(table)
  <2>1. CASE Tail(s) = <<>>
    <3>1. f = Snapshot(table)
      BY <2>1, <1>2, <1>8
    <3> QED
      BY <2>1, <3>1, <1>5, <1>8 DEF ViewAfter
  <2>2. CASE Tail(s) # <<>>
    <3>1. n - 1 \in 1 .. (n - 1)
      BY <2>2, <1>2
    <3>2. Tail(s)[n - 1] = s[n]
      BY <3>1, <1>2
    <3> QED
      BY <2>2, <3>2, <1>2, <1>5, <1>8
  <2> QED
    BY <2>1, <2>2
<1>10. \A i \in 1 .. n : s[i].type = "route-lifecycle" =>
          IF i = 1 THEN s[i].degraded \subseteq view[b]
          ELSE s[i - 1].type = "routes" /\ s[i].degraded \subseteq s[i - 1].routes
  BY <1>1, <1>2 DEF BrokerInv, DegradedAreKnown
<1>11. ASSUME NEW i \in DOMAIN channel'[b], channel'[b][i].type = "route-lifecycle"
       PROVE  IF i = 1 THEN channel'[b][i].degraded \subseteq view'[b]
              ELSE /\ channel'[b][i - 1].type = "routes"
                   /\ channel'[b][i].degraded \subseteq channel'[b][i - 1].routes
  <2>1. /\ i \in 1 .. (n - 1) /\ i + 1 \in 1 .. n /\ i + 1 # 1 /\ (i + 1) - 1 = i
        /\ channel'[b][i] = s[i + 1]
    BY <1>2, <1>5
  <2>2. s[i].type = "routes" /\ s[i + 1].degraded \subseteq s[i].routes
    BY <1>10, <1>11, <2>1
  <2>3. CASE i = 1
    BY <2>1, <2>2, <2>3, <1>5 DEF ViewAfter
  <2>4. CASE i # 1
    <3>1. i - 1 \in 1 .. (n - 1) /\ (i - 1) + 1 = i
      BY <2>1, <2>4, <1>2
    <3>2. channel'[b][i - 1] = s[i]
      BY <3>1, <1>2, <1>5
    <3> QED
      BY <2>1, <2>2, <2>4, <3>2
  <2> QED
    BY <2>3, <2>4
<1>12. ASSUME NEW r \in Routes, EndsDegraded(heard'[b].degraded, channel'[b], r)
       PROVE  r \in DegradedRoutes(degraded)
  <2>1. EndsDegraded(heard[b].degraded, s, r)
    BY <1>1, <1>2, <1>5, <1>12, EndsDegradedRead
  <2> QED
    BY <2>1, <1>1 DEF BrokerInv, NoStaleFrames
<1>13. ASSUME NEW r \in view'[b]
       PROVE  r[2] \notin waiting'[b]
  <2>1. \A q \in view[b] : q[2] \notin waiting[b]
    BY <1>1 DEF BrokerInv, WaitersServed
  <2>2. CASE f.type = "routes"
    BY <2>2, <1>5, <1>13 DEF ViewAfter, WaitingAfter
  <2>3. CASE f.type = "route-lifecycle"
    <3>1. f.degraded \subseteq view[b]
      BY <2>3, <1>2, <1>10
    <3>2. r \in view[b] \/ r \in f.active
      BY <3>1, <2>3, <1>5, <1>13 DEF ViewAfter
    <3> QED
      BY <3>2, <2>1, <2>3, <1>5 DEF WaitingAfter
  <2> QED
    BY <2>2, <2>3, <1>2, FrameKinds
<1>14. running
  BY <1>1 DEF BrokerInv, ConnectedBrokers
<1>15. heard'[b].degraded \cup heard'[b].before \subseteq view'[b]
  <2>1. heard[b].degraded \cup heard[b].before \subseteq view[b]
    BY <1>1 DEF BrokerInv, ToldIsListed
  <2>2. CASE f.type = "routes"
    BY <2>1, <2>2, <1>1, <1>5 DEF ViewAfter, HeardAfter
  <2>3. CASE f.type = "route-lifecycle"
    BY <2>1, <2>3, <1>1, <1>5 DEF ViewAfter, HeardAfter
  <2> QED
    BY <2>2, <2>3, <1>2, FrameKinds
<1> QED
  BY <1>1, <1>3, <1>6, <1>7, <1>9, <1>11, <1>12, <1>13, <1>14, <1>15, OneBroker DEF table

LEMMA BrokerStepsKeep ==
    ASSUME HostInv, BrokerSteps
    PROVE  HostInv'
BY JoinKeeps, LeaveKeeps, ReadKeeps, WaitKeeps DEF BrokerSteps

-----------------------------------------------------------------------------
(* The theorems *)

LEMMA InitHostInv == Init => HostInv
<1> SUFFICES ASSUME Init
             PROVE  HostInv
  OBVIOUS
<1>1. HostType
  BY DEF Init, HostType
<1>2. TableType
  BY DEF Init, TableType, Entries
<1>3. <<>> \in Seq(Frames)
  OBVIOUS
<1>4. BrokerType
  BY <1>3 DEF Init, BrokerType
<1>5. PeerInv
  BY DEF Init, PeerInv, ClaimsMatch, NoZombiePeer, NoSession
<1>6. DegradedIsPending
  <2>1. \A g \in Guests : degraded[g] = NoEntry
    BY DEF Init
  <2>2. \A g \in Guests : EntryRoutes(degraded, g) = {}
    BY <2>1, EntryMembers, NoEntryEmpty
  <2> QED
    BY <2>2 DEF DegradedIsPending, HasDegraded
<1>7. BrokerInv
  <2>1. \A b \in Brokers : channel[b] = <<>>
    BY DEF Init
  <2>2. \A b \in Brokers : \A i \in DOMAIN channel[b] : FALSE
    BY <2>1
  <2> QED
    BY <2>1, <2>2, HostRoutesAssumption
       DEF Init, BrokerInv, ConnectedBrokers, LastFrameIsTable, DegradedAreKnown, NoStaleFrames,
           ToldIsListed, WaitersServed
<1> QED
  BY <1>1, <1>2, <1>4, <1>5, <1>6, <1>7, HostInvParts

LEMMA NextHostInv == HostInv /\ [Next]_vars => HostInv'
<1> SUFFICES ASSUME HostInv, [Next]_vars
             PROVE  HostInv'
  OBVIOUS
<1>1. CASE Next
  BY <1>1, SessionStepsKeep, TableStepsKeep, HostStepsKeep, BrokerStepsKeep DEF Next
<1>2. CASE UNCHANGED vars
  <2>1. UNCHANGED <<hostVars, tableVars, brokerVars>> /\ UNCHANGED hostVars
    BY <1>2 DEF vars
  <2>2. HostType' /\ PeerInv' /\ peers' = peers /\ running' = running
    BY <2>1, HostInvParts DEF hostVars, HostType, PeerInv, ClaimsMatch, NoZombiePeer
  <2> QED
    BY <2>1, <2>2, QuietKeeps
<1> QED
  BY <1>1, <1>2

\* Everything HostRoutes relies on holds in every reachable state, for every
\* interleaving of admissions, 'close' events, revocations, expiries, Host
\* restarts and late control frames.
THEOREM HostRoutesSound == Spec => []HostInv
BY InitHostInv, NextHostInv, PTL DEF Spec

\* removeSessionPeers will find every registered remote Guest: publication
\* after the awaited authorization never registers a session that is over.
THEOREM NoGuestOutlivesItsSession == Spec => []NoZombiePeer
<1>1. HostInv => NoZombiePeer
  BY DEF HostInv
<1> QED
  BY <1>1, HostRoutesSound, PTL

\* Degraded routes belong to a Guest that is away and are under the cleanup
\* timer, so re-registration and expiry are the only ways out.
THEOREM DegradedRoutesArePending == Spec => []DegradedIsPending
<1>1. HostInv => DegradedIsPending
  BY DEF HostInv
<1> QED
  BY <1>1, HostRoutesSound, PTL

\* A remote Broker that has read its control frames has the Host's table,
\* however many changes were announced while it was behind.
THEOREM BrokersConverge == Spec => []BrokerConverges
<1>1. HostInv => BrokerConverges
  BY DEF HostInv, LastFrameIsTable, BrokerConverges
<1> QED
  BY <1>1, HostRoutesSound, PTL

\* Over a connection its route-change listeners do not take a restored, expired or
\* revoked route for a degraded one; what they keep from an earlier connection is
\* a route of the Host.
THEOREM ListenersAreCurrent == Spec => []NoStaleDegraded
<1>1. HostInv => NoStaleDegraded
  <2> SUFFICES ASSUME HostInv, NEW b \in joined \ LocalBrokers, channel[b] = <<>>
               PROVE  /\ heard[b].degraded \subseteq DegradedRoutes(degraded)
                      /\ heard[b].before \subseteq BrokerRoutes(localRoutes, degraded)
    BY DEF NoStaleDegraded
  <2>1. b \in Brokers /\ heard[b].degraded \subseteq Routes
    BY DEF HostInv, TypeOK
  <2>2. \A i \in DOMAIN channel[b] : FALSE
    OBVIOUS
  <2>3. \A r \in heard[b].degraded : EndsDegraded(heard[b].degraded, channel[b], r)
    BY <2>2 DEF EndsDegraded
  <2>4. heard[b].degraded \subseteq DegradedRoutes(degraded)
    BY <2>1, <2>3 DEF HostInv, NoStaleFrames
  <2>5. heard[b].before \subseteq view[b] /\ view[b] = BrokerRoutes(localRoutes, degraded)
    BY <2>1 DEF HostInv, ToldIsListed, LastFrameIsTable
  <2> QED
    BY <2>4, <2>5
<1> QED
  BY <1>1, HostRoutesSound, PTL

\* No waitForRoute stays pending for a domain the Broker's snapshot has,
\* although a frame that reports degraded routes serves no waiter.
THEOREM NoWaiterForgotten == Spec => []WaitersServed
<1>1. HostInv => WaitersServed
  BY DEF HostInv
<1> QED
  BY <1>1, HostRoutesSound, PTL
=============================================================================
