--------------------------- MODULE LeasePoolProofs ---------------------------
(***************************************************************************)
(* Proofs about LeasePool for any number of Guests, leases and requests.   *)
(***************************************************************************)
EXTENDS LeasePool, ArrayProofs, TLAPS

-----------------------------------------------------------------------------
(* Type correctness *)

\* Assign and the two halves of addIdleLease and acquireLease keep the types.
LEMMA AddIdleLeaseType ==
    ASSUME TypeOK, NEW l \in Leases, AddIdleLease(l)
    PROVE  /\ idleLeases' \in [Guests -> Seq(Leases)]
           /\ activeLeases' \in [Keys -> Leases \cup {NoLease}]
           /\ queued' \in [Guests -> Seq(Requests)]
           /\ request' \in [Requests -> RequestState]
           /\ assigned' \in [Requests -> Leases \cup {NoLease}]
<1> DEFINE g == LeaseGuest[l]
<1>0. g \in Guests /\ Key(l) \in Keys
  BY LeasePoolAssumption DEF Key, Keys
<1>1. CASE HandToWaiter(l)
  <2> DEFINE r == queued[g][1]
  <2>1. r \in Requests
    BY <1>0, <1>1 DEF HandToWaiter, TypeOK
  <2>2. Without(queued[g], r) \in Seq(Requests)
    BY <1>0, WithoutType DEF TypeOK
  <2> QED BY <1>0, <1>1, <2>1, <2>2
          DEF HandToWaiter, ServeFirst, Assign, TypeOK, RequestState, InFlight
<1>2. CASE KeepIdle(l)
  <2>1. Append(idleLeases[g], l) \in Seq(Leases)
    BY <1>0, AppendProperties DEF TypeOK
  <2> QED BY <1>0, <1>2, <2>1 DEF KeepIdle, TypeOK
<1> QED BY <1>1, <1>2 DEF AddIdleLease

LEMMA AcquireLeaseType ==
    ASSUME TypeOK, NEW r \in Requests, AcquireLease(r)
    PROVE  /\ idleLeases' \in [Guests -> Seq(Leases)]
           /\ activeLeases' \in [Keys -> Leases \cup {NoLease}]
           /\ queued' \in [Guests -> Seq(Requests)]
           /\ request' \in [Requests -> RequestState]
           /\ assigned' \in [Requests -> Leases \cup {NoLease}]
<1> DEFINE g == Target[r]
<1>0. g \in Guests
  BY LeasePoolAssumption
<1>1. CASE TakeIdle(r)
  <2>1. PICK i \in DOMAIN idleLeases[g] :
          /\ Assign(r, idleLeases[g][i])
          /\ idleLeases' = [idleLeases EXCEPT ![g] = SubSeq(@, i + 1, Len(@))]
          /\ UNCHANGED queued
    BY <1>1 DEF TakeIdle, DropThrough
  <2>2. /\ idleLeases[g][i] \in Leases
        /\ SubSeq(idleLeases[g], i + 1, Len(idleLeases[g])) \in Seq(Leases)
    BY <1>0, SuffixProperties DEF TypeOK
  <2>3. Key(idleLeases[g][i]) \in Keys
    BY <2>2, LeasePoolAssumption DEF Key, Keys
  <2> QED BY <1>0, <2>1, <2>2, <2>3 DEF Assign, TypeOK, RequestState, InFlight
<1>2. CASE Enqueue(r)
  <2>1. Append(queued[g], r) \in Seq(Requests)
    BY <1>0, AppendProperties DEF TypeOK
  <2> QED BY <1>0, <1>2, <2>1 DEF Enqueue, TypeOK, RequestState
<1> QED BY <1>1, <1>2 DEF AcquireLease

LEMMA CloseType ==
    ASSUME TypeOK, NEW S
    PROVE  Close(S) \in [Leases -> StreamState]
BY DEF Close, TypeOK, StreamState

\* Every variable of the pool keeps its type: the invariant the state machine's
\* maps, arrays and settled promises are declared with.
THEOREM TypeCorrect == Spec => []TypeOK
<1>1. Init => TypeOK
  BY LeasePoolAssumption DEF Init, TypeOK, StreamState, RequestState
<1>2. TypeOK /\ [Next]_vars => TypeOK'
  <2> SUFFICES ASSUME TypeOK, [Next]_vars PROVE TypeOK'
    OBVIOUS
  <2>1. ASSUME NEW g \in Guests, RegisterGuest(g) PROVE TypeOK'
    BY <2>1 DEF RegisterGuest, InvalidateRouteAuthorizations, TypeOK
  <2>2. ASSUME NEW g \in Guests, GuestDisconnect(g) PROVE TypeOK'
    <3>1. stream' \in [Leases -> StreamState]
      BY <2>2, CloseType DEF GuestDisconnect
    <3>2. request' \in [Requests -> RequestState] /\ queued' \in [Guests -> Seq(Requests)]
      BY <2>2 DEF GuestDisconnect, FailQueued, TypeOK, RequestState, Settled
    <3> QED BY <2>2, <3>1, <3>2
            DEF GuestDisconnect, InvalidateRouteAuthorizations, ForgetLeases, TypeOK
  <2>3. ASSUME HostClose PROVE TypeOK'
    <3>1. stream' \in [Leases -> StreamState]
      BY <2>3, CloseType DEF HostClose
    <3>2. request' \in [Requests -> RequestState] /\ queued' \in [Guests -> Seq(Requests)]
      BY <2>3 DEF HostClose, FailQueued, TypeOK, RequestState, Settled
    <3> QED BY <2>3, <3>1, <3>2
            DEF HostClose, InvalidateRouteAuthorizations, ForgetLeases, TypeOK
  <2>4. ASSUME NEW l \in Leases, AttachLease(l) PROVE TypeOK'
    BY <2>4, AddIdleLeaseType DEF AttachLease, TypeOK, StreamState
  <2>5. ASSUME NEW l \in Leases, AttachClosedLease(l) PROVE TypeOK'
    BY <2>5 DEF AttachClosedLease, TypeOK, StreamState
  <2>6. ASSUME NEW l \in Leases, StreamCloses(l) PROVE TypeOK'
    BY <2>6, CloseType DEF StreamCloses, TypeOK
  <2>7. ASSUME NEW l \in Leases, StreamCloseEvent(l) PROVE TypeOK'
    <3>1. Without(idleLeases[LeaseGuest[l]], l) \in Seq(Leases)
      BY LeasePoolAssumption, WithoutType DEF TypeOK
    <3>2. request' \in [Requests -> RequestState]
      BY <2>7 DEF StreamCloseEvent, TypeOK, RequestState, Settled
    <3> QED BY <2>7, <3>1, <3>2 DEF StreamCloseEvent, TypeOK, StreamState
  <2>8. ASSUME NEW r \in Requests, RouteRequest(r) \/ HopAllowed(r) PROVE TypeOK'
    BY <2>8, AcquireLeaseType DEF RouteRequest, HopAllowed, TypeOK
  <2>9. ASSUME NEW r \in Requests,
               RouteRequestMissing(r) \/ RouteFederatedRequest(r) \/ HopDenied(r)
        PROVE  TypeOK'
    BY <2>9 DEF RouteRequestMissing, RouteFederatedRequest, HopDenied, TypeOK,
                RequestState, Settled
  <2>10. ASSUME NEW r \in Requests, LeaseTimeout(r) PROVE TypeOK'
    <3>1. Without(queued[Target[r]], r) \in Seq(Requests)
      BY LeasePoolAssumption, WithoutType DEF TypeOK
    <3> QED BY <2>10, <3>1 DEF LeaseTimeout, TypeOK, RequestState, Settled
  <2>11. ASSUME NEW r \in Requests,
                Continue(r) \/ GuestFails(r) \/ ResponseEnds(r) \/ BrokerCancelsRunning(r)
         PROVE  TypeOK'
    <3>1. stream' \in [Leases -> StreamState]
      BY <2>11, CloseType DEF Continue, ContinueDead, ContinueLive, GuestFails,
         ResponseEnds, BrokerCancelsRunning, CancelLease, TypeOK
    <3> QED BY <2>11, <3>1 DEF Continue, ContinueDead, ContinueLive, GuestFails,
            ResponseEnds, BrokerCancelsRunning, TypeOK, RequestState, InFlight, Settled
  <2>12. ASSUME NEW r \in Requests, GuestResponds(r) \/ BrokerCancelsWaiting(r)
         PROVE  TypeOK'
    BY <2>12 DEF GuestResponds, BrokerCancelsWaiting, TypeOK, RequestState, InFlight
  <2>13. CASE UNCHANGED vars
    BY <2>13 DEF vars, TypeOK
  <2> QED BY <2>1, <2>2, <2>3, <2>4, <2>5, <2>6, <2>7, <2>8, <2>9, <2>10, <2>11,
             <2>12, <2>13 DEF Next, GuestSteps, LeaseSteps, RequestSteps
<1> QED BY <1>1, <1>2, PTL DEF Spec

-----------------------------------------------------------------------------
(* Leases are used once *)

\* Giving an opened, unassigned lease to a request keeps leases one-use.
LEMMA AssignOnce ==
    ASSUME TypeOK, LeaseUsedOnce, NEW r \in Requests, NEW l \in Leases,
           \A s \in Requests : assigned[s] # l, Assign(r, l)
    PROVE  LeaseUsedOnce'
BY LeasePoolAssumption DEF Assign, LeaseUsedOnce, TypeOK

\* Steps that leave the idle lists and the assignments alone keep LeaseInv, as
\* streams never become unopened again.
LEMMA LeaseFrame ==
    ASSUME LeaseInv, TypeOK', UNCHANGED <<idleLeases, assigned>>,
           \A l \in Leases : stream[l] # "unopened" => stream'[l] # "unopened"
    PROVE  LeaseInv'
<1>1. IdleSound'
  <2> SUFFICES ASSUME NEW g \in Guests
               PROVE  /\ Distinct(idleLeases[g])
                      /\ \A l \in Elements(idleLeases[g]) :
                            /\ LeaseGuest[l] = g
                            /\ stream'[l] # "unopened"
                            /\ \A r \in Requests : assigned[r] # l
    BY DEF IdleSound
  <2>1. Elements(idleLeases[g]) \subseteq Leases
    BY DEF LeaseInv, TypeOK, Elements
  <2> QED BY <2>1 DEF LeaseInv, IdleSound
<1>2. AssignedOpened'
  BY LeasePoolAssumption DEF LeaseInv, AssignedOpened, TypeOK
<1> QED BY <1>1, <1>2 DEF LeaseInv, LeaseUsedOnce

\* The same when some idle lists are emptied (closeGuestLeases, closeAllLeases).
LEMMA ForgetFrame ==
    ASSUME LeaseInv, TypeOK', NEW G \in SUBSET Guests, ForgetLeases(G),
           UNCHANGED assigned,
           \A l \in Leases : stream[l] # "unopened" => stream'[l] # "unopened"
    PROVE  LeaseInv'
<1>1. IdleSound'
  <2> SUFFICES ASSUME NEW g \in Guests
               PROVE  /\ Distinct(idleLeases'[g])
                      /\ \A l \in Elements(idleLeases'[g]) :
                            /\ LeaseGuest[l] = g
                            /\ stream'[l] # "unopened"
                            /\ \A r \in Requests : assigned[r] # l
    BY DEF IdleSound
  <2>1. CASE g \in G
    <3>1. idleLeases'[g] = <<>>
      BY <2>1 DEF ForgetLeases
    <3> QED BY <3>1 DEF Distinct, Elements
  <2>2. CASE g \notin G
    <3>1. idleLeases'[g] = idleLeases[g]
      BY <2>2 DEF ForgetLeases
    <3>2. Elements(idleLeases[g]) \subseteq Leases
      BY DEF LeaseInv, TypeOK, Elements
    <3> QED BY <3>1, <3>2 DEF LeaseInv, IdleSound
  <2> QED BY <2>1, <2>2
<1>2. AssignedOpened'
  BY LeasePoolAssumption DEF LeaseInv, AssignedOpened, TypeOK
<1> QED BY <1>1, <1>2 DEF LeaseInv, LeaseUsedOnce

\* addIdleLease gives a fresh stream either to one waiter or to the idle list.
LEMMA AttachLeaseInv ==
    ASSUME LeaseInv, TypeOK', NEW l \in Leases, AttachLease(l)
    PROVE  LeaseInv'
<1> DEFINE g == LeaseGuest[l]
<1>0. g \in Guests /\ l # NoLease
  BY LeasePoolAssumption
<1>1. /\ \A h \in Guests : l \notin Elements(idleLeases[h])
      /\ \A s \in Requests : assigned[s] # l
      /\ \A h \in Guests : Elements(idleLeases[h]) \subseteq Leases
  BY <1>0 DEF AttachLease, LeaseInv, IdleSound, AssignedOpened, TypeOK, Elements
<1>2. /\ stream'[l] = "open"
      /\ \A m \in Leases \ {l} : stream'[m] = stream[m]
  BY DEF AttachLease, LeaseInv, TypeOK
<1>3. CASE HandToWaiter(l)
  <2> DEFINE r == queued[g][1]
  <2>1. r \in Requests
    BY <1>0, <1>3 DEF HandToWaiter, LeaseInv, TypeOK
  <2>2. Assign(r, l) /\ idleLeases' = idleLeases
    BY <1>3 DEF HandToWaiter, ServeFirst
  <2>3. /\ assigned'[r] = l
        /\ \A s \in Requests \ {r} : assigned'[s] = assigned[s]
    BY <2>1, <2>2 DEF Assign, LeaseInv, TypeOK
  <2>4. LeaseUsedOnce'
    BY <2>1, <2>2, <1>1, AssignOnce DEF LeaseInv
  <2>5. AssignedOpened'
    BY <2>1, <2>3, <1>2 DEF AssignedOpened, LeaseInv, TypeOK
  <2>6. IdleSound'
    <3> SUFFICES ASSUME NEW h \in Guests
                 PROVE  /\ Distinct(idleLeases[h])
                        /\ \A m \in Elements(idleLeases[h]) :
                              /\ LeaseGuest[m] = h
                              /\ stream'[m] # "unopened"
                              /\ \A s \in Requests : assigned'[s] # m
      BY <2>2 DEF IdleSound
    <3> QED BY <1>1, <1>2, <2>1, <2>3 DEF LeaseInv, IdleSound
  <2> QED BY <2>4, <2>5, <2>6 DEF LeaseInv
<1>4. CASE KeepIdle(l)
  <2>1. assigned' = assigned
    BY <1>4 DEF KeepIdle
  <2>2. IdleSound'
    <3> SUFFICES ASSUME NEW h \in Guests
                 PROVE  /\ Distinct(idleLeases'[h])
                        /\ \A m \in Elements(idleLeases'[h]) :
                              /\ LeaseGuest[m] = h
                              /\ stream'[m] # "unopened"
                              /\ \A s \in Requests : assigned[s] # m
      BY <2>1 DEF IdleSound
    <3>1. CASE h = g
      <4>1. idleLeases'[h] = Append(idleLeases[h], l) /\ idleLeases[h] \in Seq(Leases)
        BY <1>0, <1>4, <3>1 DEF KeepIdle, LeaseInv, TypeOK
      <4>2. /\ Elements(idleLeases'[h]) = Elements(idleLeases[h]) \cup {l}
            /\ Distinct(idleLeases'[h])
        BY <4>1, <1>1, AppendProperties DEF LeaseInv, IdleSound
      <4> QED BY <4>2, <1>1, <1>2, <3>1 DEF LeaseInv, IdleSound
    <3>2. CASE h # g
      <4>1. idleLeases'[h] = idleLeases[h]
        BY <1>0, <1>4, <3>2 DEF KeepIdle, LeaseInv, TypeOK
      <4> QED BY <4>1, <1>1, <1>2 DEF LeaseInv, IdleSound
    <3> QED BY <3>1, <3>2
  <2>3. AssignedOpened'
    BY <2>1, <1>1, <1>2 DEF AssignedOpened, LeaseInv, TypeOK
  <2> QED BY <2>1, <2>2, <2>3 DEF LeaseInv, LeaseUsedOnce
<1> QED BY <1>3, <1>4 DEF AttachLease, AddIdleLease

\* acquireLease takes a lease out of the idle list as it hands it out.
LEMMA AcquireLeaseInv ==
    ASSUME LeaseInv, TypeOK', NEW r \in Requests, AcquireLease(r), UNCHANGED stream
    PROVE  LeaseInv'
<1> DEFINE g == Target[r]
<1>0. g \in Guests
  BY LeasePoolAssumption
<1>1. CASE TakeIdle(r)
  <2>1. PICK i \in DOMAIN idleLeases[g] :
          /\ Assign(r, idleLeases[g][i])
          /\ idleLeases' = [idleLeases EXCEPT ![g] = SubSeq(@, i + 1, Len(@))]
    BY <1>1 DEF TakeIdle, DropThrough
  <2> DEFINE l == idleLeases[g][i]
             rest == SubSeq(idleLeases[g], i + 1, Len(idleLeases[g]))
  <2>2. /\ l \in Leases
        /\ l \in Elements(idleLeases[g])
        /\ Elements(rest) \subseteq Elements(idleLeases[g])
        /\ Distinct(rest)
        /\ l \notin Elements(rest)
    BY <1>0, SuffixProperties DEF LeaseInv, TypeOK, IdleSound
  <2>3. /\ idleLeases'[g] = rest
        /\ \A h \in Guests \ {g} : idleLeases'[h] = idleLeases[h]
    BY <1>0, <2>1 DEF LeaseInv, TypeOK
  <2> HIDE DEF rest, l
  <2>4. /\ assigned'[r] = l
        /\ \A s \in Requests \ {r} : assigned'[s] = assigned[s]
    BY <2>1 DEF Assign, LeaseInv, TypeOK, l
  <2>5. LeaseUsedOnce'
    <3>1. \A s \in Requests : assigned[s] # l
      BY <1>0, <2>2 DEF LeaseInv, IdleSound
    <3> QED BY <2>1, <2>2, <3>1, AssignOnce DEF LeaseInv, l
  <2>6. AssignedOpened'
    BY <1>0, <2>2, <2>4 DEF AssignedOpened, LeaseInv, IdleSound
  <2>7. IdleSound'
    <3> SUFFICES ASSUME NEW h \in Guests
                 PROVE  /\ Distinct(idleLeases'[h])
                        /\ \A m \in Elements(idleLeases'[h]) :
                              /\ LeaseGuest[m] = h
                              /\ stream[m] # "unopened"
                              /\ \A s \in Requests : assigned'[s] # m
      BY DEF IdleSound
    <3>1. CASE h = g
      BY <3>1, <2>2, <2>3, <2>4 DEF LeaseInv, IdleSound
    <3>2. CASE h # g
      <4>1. \A m \in Elements(idleLeases[h]) : LeaseGuest[m] = h /\ m # l
        BY <1>0, <3>2, <2>2 DEF LeaseInv, IdleSound
      <4> QED BY <3>2, <4>1, <2>3, <2>4 DEF LeaseInv, IdleSound
    <3> QED BY <3>1, <3>2
  <2> QED BY <2>5, <2>6, <2>7 DEF LeaseInv
<1>2. CASE Enqueue(r)
  <2>1. /\ idleLeases'[g] = <<>>
        /\ \A h \in Guests \ {g} : idleLeases'[h] = idleLeases[h]
        /\ assigned' = assigned
    BY <1>0, <1>2 DEF Enqueue, LeaseInv, TypeOK
  <2>2. IdleSound'
    <3> SUFFICES ASSUME NEW h \in Guests
                 PROVE  /\ Distinct(idleLeases'[h])
                        /\ \A m \in Elements(idleLeases'[h]) :
                              /\ LeaseGuest[m] = h
                              /\ stream[m] # "unopened"
                              /\ \A s \in Requests : assigned[s] # m
      BY <2>1 DEF IdleSound
    <3>1. CASE h = g
      BY <3>1, <2>1 DEF Distinct, Elements
    <3>2. CASE h # g
      BY <3>2, <2>1 DEF LeaseInv, IdleSound
    <3> QED BY <3>1, <3>2
  <2> QED BY <2>1, <2>2 DEF LeaseInv, LeaseUsedOnce, AssignedOpened
<1> QED BY <1>1, <1>2 DEF AcquireLease

\* removeLease takes at most the closed stream out of the idle list.
LEMMA StreamCloseEventInv ==
    ASSUME LeaseInv, TypeOK', NEW l \in Leases, StreamCloseEvent(l)
    PROVE  LeaseInv'
<1> DEFINE g == LeaseGuest[l]
<1>0. g \in Guests
  BY LeasePoolAssumption
<1>1. /\ idleLeases'[g] = Without(idleLeases[g], l)
      /\ \A h \in Guests \ {g} : idleLeases'[h] = idleLeases[h]
      /\ assigned' = assigned
      /\ \A m \in Leases : stream[m] # "unopened" => stream'[m] # "unopened"
  BY <1>0 DEF StreamCloseEvent, LeaseInv, TypeOK
<1>2. /\ Elements(idleLeases'[g]) \subseteq Elements(idleLeases[g])
      /\ Distinct(idleLeases'[g])
  <2>1. Distinct(idleLeases[g]) /\ idleLeases[g] \in Seq(Leases)
    BY <1>0 DEF LeaseInv, IdleSound, TypeOK
  <2> QED BY <1>1, <2>1, WithoutProperties
<1>3. IdleSound'
  <2> SUFFICES ASSUME NEW h \in Guests
               PROVE  /\ Distinct(idleLeases'[h])
                      /\ \A m \in Elements(idleLeases'[h]) :
                            /\ LeaseGuest[m] = h
                            /\ stream'[m] # "unopened"
                            /\ \A s \in Requests : assigned[s] # m
    BY <1>1 DEF IdleSound
  <2>1. Elements(idleLeases[h]) \subseteq Leases
    BY DEF LeaseInv, TypeOK, Elements
  <2> QED BY <1>0, <1>1, <1>2, <2>1 DEF LeaseInv, IdleSound
<1>4. AssignedOpened'
  BY <1>1 DEF LeaseInv, AssignedOpened, TypeOK
<1> QED BY <1>1, <1>3, <1>4 DEF LeaseInv, LeaseUsedOnce

\* The strengthening of LeaseUsedOnce is inductive: an idle lease is opened and
\* unassigned, so handing it out cannot repeat an assignment.
LEMMA LeaseInvariance == Spec => []LeaseInv
<1>1. Init => LeaseInv
  <2> SUFFICES ASSUME Init PROVE LeaseInv
    OBVIOUS
  <2>1. TypeOK
    BY LeasePoolAssumption DEF Init, TypeOK, StreamState, RequestState
  <2>2. \A g \in Guests : Elements(idleLeases[g]) = {} /\ Distinct(idleLeases[g])
    BY EmptyProperties DEF Init
  <2> QED BY <2>1, <2>2 DEF Init, LeaseInv, IdleSound, AssignedOpened, LeaseUsedOnce
<1>2. LeaseInv /\ TypeOK' /\ [Next]_vars => LeaseInv'
  <2> SUFFICES ASSUME LeaseInv, TypeOK', [Next]_vars PROVE LeaseInv'
    OBVIOUS
  <2>0. \A S : \A l \in Leases : stream[l] # "unopened" => Close(S)[l] # "unopened"
    BY DEF Close
  <2>1. ASSUME NEW g \in Guests, RegisterGuest(g) PROVE LeaseInv'
    BY <2>1, LeaseFrame DEF RegisterGuest
  <2>2. ASSUME NEW g \in Guests, GuestDisconnect(g) PROVE LeaseInv'
    BY <2>0, <2>2, ForgetFrame DEF GuestDisconnect
  <2>3. ASSUME HostClose PROVE LeaseInv'
    BY <2>0, <2>3, ForgetFrame DEF HostClose
  <2>4. ASSUME NEW l \in Leases, AttachLease(l) PROVE LeaseInv'
    BY <2>4, AttachLeaseInv
  <2>5. ASSUME NEW l \in Leases, AttachClosedLease(l) \/ StreamCloses(l) PROVE LeaseInv'
    <3>1. \A m \in Leases : stream[m] # "unopened" => stream'[m] # "unopened"
      BY <2>0, <2>5 DEF AttachClosedLease, StreamCloses, LeaseInv, TypeOK
    <3> QED BY <2>5, <3>1, LeaseFrame DEF AttachClosedLease, StreamCloses
  <2>6. ASSUME NEW l \in Leases, StreamCloseEvent(l) PROVE LeaseInv'
    BY <2>6, StreamCloseEventInv
  <2>7. ASSUME NEW r \in Requests, RouteRequest(r) \/ HopAllowed(r) PROVE LeaseInv'
    BY <2>7, AcquireLeaseInv DEF RouteRequest, HopAllowed
  <2>8. ASSUME NEW r \in Requests,
               \/ RouteRequestMissing(r) \/ RouteFederatedRequest(r) \/ HopDenied(r)
               \/ LeaseTimeout(r) \/ GuestResponds(r) \/ BrokerCancelsWaiting(r)
        PROVE  LeaseInv'
    BY <2>8, LeaseFrame DEF RouteRequestMissing, RouteFederatedRequest, HopDenied,
       LeaseTimeout, GuestResponds, BrokerCancelsWaiting
  <2>9. ASSUME NEW r \in Requests,
               Continue(r) \/ GuestFails(r) \/ ResponseEnds(r) \/ BrokerCancelsRunning(r)
        PROVE  LeaseInv'
    <3>1. \A m \in Leases : stream[m] # "unopened" => stream'[m] # "unopened"
      BY <2>0, <2>9 DEF Continue, ContinueDead, ContinueLive, GuestFails,
         ResponseEnds, BrokerCancelsRunning, CancelLease
    <3> QED BY <2>9, <3>1, LeaseFrame DEF Continue, ContinueDead, ContinueLive,
            GuestFails, ResponseEnds, BrokerCancelsRunning
  <2>10. CASE UNCHANGED vars
    BY <2>10, LeaseFrame DEF vars
  <2> QED BY <2>1, <2>2, <2>3, <2>4, <2>5, <2>6, <2>7, <2>8, <2>9, <2>10
          DEF Next, GuestSteps, LeaseSteps, RequestSteps
<1> QED BY <1>1, <1>2, TypeCorrect, PTL DEF Spec

\* Leases are one-use for any number of Guests, leases and requests: the pool
\* never gives a lease stream to a second request, not even after the first one
\* was cancelled or failed.
THEOREM LeasesUsedOnce == Spec => []LeaseUsedOnce
<1>1. LeaseInv => LeaseUsedOnce
  BY DEF LeaseInv
<1> QED BY <1>1, LeaseInvariance, PTL

-----------------------------------------------------------------------------
(* The queues of waiting acquisitions *)

\* Steps that leave the queues alone, move no request into or out of "queued"
\* and keep the registrations and pending decisions of the Guests in place.
LEMMA QueueFrame ==
    ASSUME QueueInv, TypeOK', UNCHANGED queued,
           registered \subseteq registered',
           \A r \in Requests : request'[r] = "queued" <=> request[r] = "queued",
           FreshTargets'
    PROVE  QueueInv'
<1>1. QueueHoldsPending'
  <2>1. ASSUME NEW g \in Guests
        PROVE  /\ Distinct(queued[g])
               /\ \A r \in Elements(queued[g]) : request'[r] = "queued" /\ Target[r] = g
    <3>1. Elements(queued[g]) \subseteq Requests
      BY DEF QueueInv, TypeOK, Elements
    <3> QED BY <3>1 DEF QueueInv, QueueHoldsPending
  <2>2. \A r \in Requests : request'[r] = "queued" => r \in Elements(queued[Target[r]])
    BY DEF QueueInv, QueueHoldsPending
  <2> QED BY <2>1, <2>2 DEF QueueHoldsPending
<1> QED BY <1>1 DEF QueueInv, QueuedTargetRegistered

\* Emptying the queues of the Guests that leave.
LEMMA FailQueuedInv ==
    ASSUME QueueInv, TypeOK', NEW G \in SUBSET Guests, FailQueued(G),
           registered' = registered \ G, InvalidateRouteAuthorizations
    PROVE  QueueInv'
<1>1. \A g \in Guests : Elements(queued[g]) \subseteq Requests
  BY DEF QueueInv, TypeOK, Elements
<1>2. \A g \in Guests : queued'[g] = IF g \in G THEN <<>> ELSE queued[g]
  BY DEF FailQueued
<1>3. \A r \in Requests : request'[r] = IF \E g \in G : r \in Elements(queued[g])
                                         THEN "disconnected-target" ELSE request[r]
  BY DEF FailQueued
<1>4. QueueHoldsPending'
  <2>1. ASSUME NEW g \in Guests
        PROVE  /\ Distinct(queued'[g])
               /\ \A r \in Elements(queued'[g]) : request'[r] = "queued" /\ Target[r] = g
    <3>1. CASE g \in G
      BY <1>2, <3>1, EmptyProperties
    <3>2. CASE g \notin G
      BY <1>1, <1>2, <1>3, <3>2 DEF QueueInv, QueueHoldsPending
    <3> QED BY <3>1, <3>2
  <2>2. ASSUME NEW r \in Requests, request'[r] = "queued"
        PROVE  r \in Elements(queued'[Target[r]])
    <3>1. Target[r] \in Guests
      BY LeasePoolAssumption
    <3> QED BY <1>2, <1>3, <2>2, <3>1 DEF QueueInv, QueueHoldsPending
  <2> QED BY <2>1, <2>2 DEF QueueHoldsPending
<1>5. QueuedTargetRegistered'
  BY <1>2 DEF QueueInv, QueuedTargetRegistered
<1>6. FreshTargets'
  BY <1>3 DEF FreshTargets, InvalidateRouteAuthorizations
<1> QED BY <1>4, <1>5, <1>6 DEF QueueInv

\* A request leaves its queue: served by HandToWaiter or timed out.
LEMMA LeaveQueueInv ==
    ASSUME QueueInv, TypeOK', NEW r \in Requests, request[r] = "queued",
           queued' = [queued EXCEPT ![Target[r]] = Without(@, r)],
           NEW end \in RequestState \ {"queued", "authorizing"},
           request' = [request EXCEPT ![r] = end],
           UNCHANGED <<registered, stale>>
    PROVE  QueueInv'
<1> DEFINE g == Target[r]
<1>0. g \in Guests
  BY LeasePoolAssumption
<1>1. /\ queued'[g] = Without(queued[g], r)
      /\ \A h \in Guests \ {g} : queued'[h] = queued[h]
      /\ request'[r] = end
      /\ \A s \in Requests \ {r} : request'[s] = request[s]
      /\ \A h \in Guests : Elements(queued[h]) \subseteq Requests
  BY <1>0 DEF QueueInv, TypeOK, Elements
<1>2. Elements(queued'[g]) = Elements(queued[g]) \ {r} /\ Distinct(queued'[g])
  <2>1. queued[g] \in Seq(Requests) /\ Distinct(queued[g])
    BY <1>0 DEF QueueInv, TypeOK, QueueHoldsPending
  <2> QED BY <1>1, <2>1, WithoutProperties
<1>3. QueueHoldsPending'
  <2>1. ASSUME NEW h \in Guests
        PROVE  /\ Distinct(queued'[h])
               /\ \A s \in Elements(queued'[h]) : request'[s] = "queued" /\ Target[s] = h
    BY <1>0, <1>1, <1>2 DEF QueueInv, QueueHoldsPending
  <2>2. ASSUME NEW s \in Requests, request'[s] = "queued"
        PROVE  s \in Elements(queued'[Target[s]])
    <3>1. Target[s] \in Guests
      BY LeasePoolAssumption
    <3> QED BY <1>1, <1>2, <2>2, <3>1 DEF QueueInv, QueueHoldsPending
  <2> QED BY <2>1, <2>2 DEF QueueHoldsPending
<1>4. QueuedTargetRegistered'
  <2>1. queued[g] # <<>>
    BY EmptyProperties DEF QueueInv, QueueHoldsPending
  <2> QED BY <1>0, <1>1, <2>1 DEF QueueInv, QueuedTargetRegistered
<1>5. FreshTargets'
  BY <1>1 DEF QueueInv, FreshTargets
<1> QED BY <1>3, <1>4, <1>5 DEF QueueInv

\* acquireLease for a registered target takes a lease or joins the queue.
LEMMA AcquireQueueInv ==
    ASSUME QueueInv, TypeOK', NEW r \in Requests, AcquireLease(r),
           request[r] # "queued", Target[r] \in registered,
           UNCHANGED <<registered, stale>>
    PROVE  QueueInv'
<1> DEFINE g == Target[r]
<1>0. g \in Guests
  BY LeasePoolAssumption
<1>1. CASE TakeIdle(r)
  <2>1. queued' = queued /\ request' = [request EXCEPT ![r] = "granted"]
    BY <1>1 DEF TakeIdle, Assign
  <2>2. FreshTargets'
    BY <2>1 DEF QueueInv, FreshTargets, TypeOK
  <2> QED BY <2>1, <2>2, QueueFrame DEF QueueInv, TypeOK
<1>2. CASE Enqueue(r)
  <2>1. /\ queued'[g] = Append(queued[g], r)
        /\ \A h \in Guests \ {g} : queued'[h] = queued[h]
        /\ request'[r] = "queued"
        /\ \A s \in Requests \ {r} : request'[s] = request[s]
    BY <1>0, <1>2 DEF Enqueue, QueueInv, TypeOK
  <2>2. Elements(queued'[g]) = Elements(queued[g]) \cup {r} /\ Distinct(queued'[g])
    <3>1. queued[g] \in Seq(Requests) /\ Distinct(queued[g]) /\ r \notin Elements(queued[g])
      BY <1>0 DEF QueueInv, TypeOK, QueueHoldsPending
    <3> QED BY <2>1, <3>1, AppendProperties
  <2>3. QueueHoldsPending'
    <3>1. ASSUME NEW h \in Guests
          PROVE  /\ Distinct(queued'[h])
                 /\ \A s \in Elements(queued'[h]) : request'[s] = "queued" /\ Target[s] = h
      <4>1. Elements(queued[h]) \subseteq Requests
        BY DEF QueueInv, TypeOK, Elements
      <4>2. \A s \in Elements(queued[h]) : s # r /\ request'[s] = "queued" /\ Target[s] = h
        BY <2>1, <4>1 DEF QueueInv, QueueHoldsPending
      <4>3. CASE h = g
        BY <1>0, <2>1, <2>2, <4>2, <4>3
      <4>4. CASE h # g
        BY <2>1, <4>2, <4>4 DEF QueueInv, QueueHoldsPending
      <4> QED BY <4>3, <4>4
    <3>2. ASSUME NEW s \in Requests, request'[s] = "queued"
          PROVE  s \in Elements(queued'[Target[s]])
      <4>1. Target[s] \in Guests
        BY LeasePoolAssumption
      <4> QED BY <2>1, <2>2, <3>2, <4>1 DEF QueueInv, QueueHoldsPending
    <3> QED BY <3>1, <3>2 DEF QueueHoldsPending
  <2>4. QueuedTargetRegistered'
    BY <1>0, <2>1 DEF QueueInv, QueuedTargetRegistered
  <2>5. FreshTargets'
    BY <2>1 DEF QueueInv, FreshTargets
  <2> QED BY <2>3, <2>4, <2>5 DEF QueueInv
<1> QED BY <1>1, <1>2 DEF AcquireLease

\* The queues of acquireLease are sound for any number of Guests, leases and
\* requests: they hold exactly the acquisitions still waiting, each once and in
\* its target's queue, and only for Guests that are still registered, although
\* a federated request looks its target up before it awaits the hop policy.
THEOREM QueuesSound == Spec => [](QueueHoldsPending /\ QueuedTargetRegistered)
<1>1. Init => QueueInv
  <2> SUFFICES ASSUME Init PROVE QueueInv
    OBVIOUS
  <2>1. TypeOK
    BY LeasePoolAssumption DEF Init, TypeOK, StreamState, RequestState
  <2>2. \A g \in Guests : queued[g] = <<>> /\ Elements(queued[g]) = {} /\ Distinct(queued[g])
    BY EmptyProperties DEF Init
  <2> QED BY <2>1, <2>2 DEF Init, QueueInv, QueueHoldsPending,
             QueuedTargetRegistered, FreshTargets
<1>2. QueueInv /\ TypeOK' /\ [Next]_vars => QueueInv'
  <2> SUFFICES ASSUME QueueInv, TypeOK', [Next]_vars PROVE QueueInv'
    OBVIOUS
  <2>1. ASSUME NEW g \in Guests, RegisterGuest(g) PROVE QueueInv'
    <3>1. FreshTargets'
      BY <2>1 DEF RegisterGuest, InvalidateRouteAuthorizations, FreshTargets
    <3> QED BY <2>1, <3>1, QueueFrame DEF RegisterGuest
  <2>2. ASSUME NEW g \in Guests, GuestDisconnect(g) PROVE QueueInv'
    BY <2>2, FailQueuedInv DEF GuestDisconnect
  <2>3. ASSUME HostClose PROVE QueueInv'
    <3>1. registered' = registered \ Guests
      BY <2>3 DEF HostClose, QueueInv, TypeOK
    <3> QED BY <2>3, <3>1, FailQueuedInv DEF HostClose
  <2>4. ASSUME NEW l \in Leases, AttachLease(l) PROVE QueueInv'
    <3> DEFINE g == LeaseGuest[l]
    <3>0. g \in Guests
      BY LeasePoolAssumption
    <3>1. CASE HandToWaiter(l)
      <4> DEFINE r == queued[g][1]
      <4>1. queued[g] \in Seq(Requests) /\ queued[g] # <<>>
        BY <3>0, <3>1 DEF HandToWaiter, QueueInv, TypeOK
      <4>2. r \in Requests /\ r \in Elements(queued[g])
        BY <4>1 DEF Elements
      <4>3. request[r] = "queued" /\ Target[r] = g
        BY <3>0, <4>2 DEF QueueInv, QueueHoldsPending
      <4>4. /\ queued' = [queued EXCEPT ![g] = Without(@, r)]
            /\ request' = [request EXCEPT ![r] = "granted"]
            /\ UNCHANGED <<registered, stale>>
        BY <2>4, <3>1 DEF HandToWaiter, ServeFirst, Assign, AttachLease
      <4>5. "granted" \in RequestState \ {"queued", "authorizing"}
        BY DEF RequestState, InFlight
      <4> HIDE DEF r
      <4> QED BY <4>2, <4>3, <4>4, <4>5, LeaveQueueInv
    <3>2. CASE KeepIdle(l)
      <4>1. UNCHANGED <<queued, request, registered, stale>>
        BY <2>4, <3>2 DEF KeepIdle, AttachLease
      <4>2. FreshTargets'
        BY <4>1 DEF QueueInv, FreshTargets
      <4> QED BY <4>1, <4>2, QueueFrame
    <3> QED BY <2>4, <3>1, <3>2 DEF AttachLease, AddIdleLease
  <2>5. ASSUME UNCHANGED <<queued, request, registered, stale>> PROVE QueueInv'
    <3>1. FreshTargets'
      BY <2>5 DEF QueueInv, FreshTargets
    <3> QED BY <2>5, <3>1, QueueFrame
  <2>6. ASSUME NEW l \in Leases, StreamCloseEvent(l) PROVE QueueInv'
    <3>1. \A r \in Requests : /\ request'[r] = "queued" <=> request[r] = "queued"
                              /\ request'[r] = "authorizing" <=> request[r] = "authorizing"
      BY <2>6 DEF StreamCloseEvent
    <3>2. FreshTargets'
      BY <2>6, <3>1 DEF StreamCloseEvent, QueueInv, FreshTargets
    <3> QED BY <2>6, <3>1, <3>2, QueueFrame DEF StreamCloseEvent
  <2>7. ASSUME NEW r \in Requests, RouteRequest(r) \/ HopAllowed(r) PROVE QueueInv'
    <3>1. request[r] # "queued" /\ Target[r] \in registered
      BY <2>7 DEF RouteRequest, HopAllowed, QueueInv, FreshTargets
    <3> QED BY <2>7, <3>1, AcquireQueueInv DEF RouteRequest, HopAllowed
  <2>8. ASSUME NEW r \in Requests, LeaseTimeout(r) PROVE QueueInv'
    <3>1. "timeout" \in RequestState \ {"queued", "authorizing"}
      BY DEF RequestState, Settled
    <3> QED BY <2>8, <3>1, LeaveQueueInv DEF LeaseTimeout
  <2>9. ASSUME NEW r \in Requests, NEW end,
               request[r] # "queued", end # "queued",
               end = "authorizing" => Target[r] \in registered,
               request' = [request EXCEPT ![r] = end],
               UNCHANGED <<queued, registered>>, stale' = stale \/ stale' = stale \ {r},
               stale' # stale => end # "authorizing"
        PROVE  QueueInv'
    <3>1. /\ request'[r] = end
          /\ \A s \in Requests \ {r} : request'[s] = request[s]
      BY <2>9 DEF QueueInv, TypeOK
    <3>2. FreshTargets'
      BY <2>9, <3>1 DEF QueueInv, FreshTargets
    <3> QED BY <2>9, <3>1, <3>2, QueueFrame
  <2>10. ASSUME NEW r \in Requests,
                \/ RouteRequestMissing(r) \/ RouteFederatedRequest(r) \/ HopDenied(r)
         PROVE  QueueInv'
    BY <2>9, <2>10 DEF RouteRequestMissing, RouteFederatedRequest, HopDenied
  <2>11. ASSUME NEW r \in Requests,
                \/ Continue(r) \/ GuestResponds(r) \/ GuestFails(r) \/ ResponseEnds(r)
                \/ BrokerCancelsRunning(r)
         PROVE  QueueInv'
    BY <2>9, <2>11 DEF Continue, ContinueDead, ContinueLive, GuestResponds,
       GuestFails, ResponseEnds, BrokerCancelsRunning
  <2>12. ASSUME NEW r \in Requests, BrokerCancelsWaiting(r) PROVE QueueInv'
    BY <2>5, <2>12 DEF BrokerCancelsWaiting
  <2>13. ASSUME NEW l \in Leases, AttachClosedLease(l) \/ StreamCloses(l) PROVE QueueInv'
    BY <2>5, <2>13 DEF AttachClosedLease, StreamCloses
  <2>14. CASE UNCHANGED vars
    BY <2>5, <2>14 DEF vars
  <2> QED BY <2>1, <2>2, <2>3, <2>4, <2>6, <2>7, <2>8, <2>10, <2>11, <2>12, <2>13,
             <2>14 DEF Next, GuestSteps, LeaseSteps, RequestSteps
<1>3. QueueInv => QueueHoldsPending /\ QueuedTargetRegistered
  BY DEF QueueInv
<1> QED BY <1>1, <1>2, <1>3, TypeCorrect, PTL DEF Spec

-----------------------------------------------------------------------------
(* No request waits next to a usable lease *)

\* A step keeps NoIdleWhileQueued when it neither adds a lease to the idle list
\* of a Guest with waiters nor opens one that is there.
LEMMA NoIdleFrame ==
    ASSUME LeaseInv, NoIdleWhileQueued,
           \A g \in Guests : queued'[g] # <<>> =>
              /\ \/ Elements(idleLeases'[g]) = {}
                 \/ queued[g] # <<>> /\ Elements(idleLeases'[g]) \subseteq Elements(idleLeases[g]),
           \A l \in Leases : stream'[l] = "open" => stream[l] \in {"open", "unopened"}
    PROVE  NoIdleWhileQueued'
<1> SUFFICES ASSUME NEW g \in Guests, queued'[g] # <<>>, NEW l \in Elements(idleLeases'[g])
             PROVE  stream'[l] # "open"
  BY DEF NoIdleWhileQueued
<1>1. queued[g] # <<>> /\ l \in Elements(idleLeases[g])
  OBVIOUS
<1>2. l \in Leases
  BY <1>1 DEF LeaseInv, TypeOK, Elements
<1>3. stream[l] # "open" /\ stream[l] # "unopened"
  BY <1>1 DEF NoIdleWhileQueued, LeaseInv, IdleSound
<1> QED BY <1>2, <1>3

\* Nobody waits next to a usable lease, for any number of Guests, leases and
\* requests: acquireLease queues only after it dropped the whole idle list, and
\* addIdleLease serves a waiter before it keeps a lease idle.
THEOREM NobodyWaitsNextToALease == Spec => []NoIdleWhileQueued
<1>1. Init => NoIdleWhileQueued
  BY DEF Init, NoIdleWhileQueued
<1>2. LeaseInv /\ NoIdleWhileQueued /\ [Next]_vars => NoIdleWhileQueued'
  <2> SUFFICES ASSUME LeaseInv, NoIdleWhileQueued, [Next]_vars PROVE NoIdleWhileQueued'
    OBVIOUS
  <2>0. \A S : \A l \in Leases : Close(S)[l] = "open" => stream[l] = "open"
    BY DEF Close
  <2>1. ASSUME UNCHANGED <<queued, idleLeases>>,
               stream' = stream \/ (\E S : stream' = Close(S))
        PROVE  NoIdleWhileQueued'
    <3>1. \A l \in Leases : stream'[l] = "open" => stream[l] \in {"open", "unopened"}
      BY <2>0, <2>1
    <3> QED BY <2>1, <3>1, NoIdleFrame
  <2>2. ASSUME NEW G \in SUBSET Guests, ForgetLeases(G), FailQueued(G), NEW S,
               stream' = Close(S)
        PROVE  NoIdleWhileQueued'
    <3>1. \A g \in Guests : queued'[g] # <<>> => /\ queued[g] # <<>>
                                                 /\ idleLeases'[g] = idleLeases[g]
      BY <2>2 DEF ForgetLeases, FailQueued
    <3> QED BY <2>0, <2>2, <3>1, NoIdleFrame
  <2>3. ASSUME NEW l \in Leases, AttachLease(l) PROVE NoIdleWhileQueued'
    <3> DEFINE g == LeaseGuest[l]
    <3>0. g \in Guests
      BY LeasePoolAssumption
    <3>1. \A m \in Leases : stream'[m] = "open" => stream[m] \in {"open", "unopened"}
      BY <2>3 DEF AttachLease, LeaseInv, TypeOK
    <3>2. CASE HandToWaiter(l)
      <4>1. /\ idleLeases' = idleLeases
            /\ \A h \in Guests : queued'[h] # <<>> => queued[h] # <<>>
        BY <3>0, <3>2 DEF HandToWaiter, LeaseInv, TypeOK
      <4> QED BY <3>1, <4>1, NoIdleFrame
    <3>3. CASE KeepIdle(l)
      <4>1. \A h \in Guests : queued'[h] # <<>> => /\ queued[h] # <<>>
                                                   /\ idleLeases'[h] = idleLeases[h]
        BY <3>0, <3>3 DEF KeepIdle, HasNoWaiter, LeaseInv, TypeOK
      <4> QED BY <3>1, <4>1, NoIdleFrame
    <3> QED BY <2>3, <3>2, <3>3 DEF AttachLease, AddIdleLease
  <2>4. ASSUME NEW l \in Leases, AttachClosedLease(l) PROVE NoIdleWhileQueued'
    <3>1. \A m \in Leases : stream'[m] = "open" => stream[m] \in {"open", "unopened"}
      BY <2>4 DEF AttachClosedLease, LeaseInv, TypeOK
    <3> QED BY <2>4, <3>1, NoIdleFrame DEF AttachClosedLease
  <2>5. ASSUME NEW l \in Leases, StreamCloseEvent(l) PROVE NoIdleWhileQueued'
    <3> DEFINE g == LeaseGuest[l]
    <3>1. g \in Guests /\ Distinct(idleLeases[g]) /\ idleLeases[g] \in Seq(Leases)
      BY LeasePoolAssumption DEF LeaseInv, IdleSound, TypeOK
    <3>2. /\ idleLeases'[g] = Without(idleLeases[g], l)
          /\ \A h \in Guests \ {g} : idleLeases'[h] = idleLeases[h]
          /\ queued' = queued
          /\ \A m \in Leases : stream'[m] = "open" => stream[m] \in {"open", "unopened"}
      BY <2>5, <3>1 DEF StreamCloseEvent, LeaseInv, TypeOK
    <3>3. Elements(idleLeases'[g]) \subseteq Elements(idleLeases[g])
      BY <3>1, <3>2, WithoutProperties
    <3> QED BY <3>1, <3>2, <3>3, NoIdleFrame
  <2>6. ASSUME NEW r \in Requests, AcquireLease(r), UNCHANGED stream
        PROVE  NoIdleWhileQueued'
    <3> DEFINE g == Target[r]
    <3>0. g \in Guests
      BY LeasePoolAssumption
    <3>1. \A m \in Leases : stream'[m] = "open" => stream[m] \in {"open", "unopened"}
      BY <2>6
    <3>2. CASE TakeIdle(r)
      <4>1. PICK i \in DOMAIN idleLeases[g] :
              /\ idleLeases' = [idleLeases EXCEPT ![g] = SubSeq(@, i + 1, Len(@))]
              /\ queued' = queued
        BY <3>2 DEF TakeIdle, DropThrough
      <4>2. /\ idleLeases'[g] = SubSeq(idleLeases[g], i + 1, Len(idleLeases[g]))
            /\ \A h \in Guests \ {g} : idleLeases'[h] = idleLeases[h]
        BY <3>0, <4>1 DEF LeaseInv, TypeOK
      <4>3. Elements(idleLeases'[g]) \subseteq Elements(idleLeases[g])
        BY <3>0, <4>2, SuffixProperties DEF LeaseInv, TypeOK
      <4> QED BY <3>0, <3>1, <4>1, <4>2, <4>3, NoIdleFrame
    <3>3. CASE Enqueue(r)
      <4>1. /\ Elements(idleLeases'[g]) = {}
            /\ \A h \in Guests \ {g} : idleLeases'[h] = idleLeases[h] /\ queued'[h] = queued[h]
        BY <3>0, <3>3, EmptyProperties DEF Enqueue, LeaseInv, TypeOK
      <4> QED BY <3>0, <3>1, <4>1, NoIdleFrame
    <3> QED BY <2>6, <3>2, <3>3 DEF AcquireLease
  <2>7. ASSUME NEW r \in Requests, LeaseTimeout(r) PROVE NoIdleWhileQueued'
    <3>1. \A g \in Guests : queued'[g] # <<>> => queued[g] # <<>>
      <4> SUFFICES ASSUME NEW g \in Guests, queued[g] = <<>> PROVE queued'[g] = <<>>
        OBVIOUS
      <4>1. Without(<<>>, r) = <<>>
        BY EmptyProperties DEF Without
      <4> QED BY <2>7, <4>1 DEF LeaseTimeout, LeaseInv, TypeOK
    <3> QED BY <2>7, <3>1, NoIdleFrame DEF LeaseTimeout
  <2>8. ASSUME NEW r \in Requests,
               \/ RouteRequestMissing(r) \/ RouteFederatedRequest(r) \/ HopDenied(r)
               \/ GuestResponds(r) \/ BrokerCancelsWaiting(r) \/ Continue(r)
               \/ GuestFails(r) \/ ResponseEnds(r) \/ BrokerCancelsRunning(r)
        PROVE  NoIdleWhileQueued'
    BY <2>1, <2>8 DEF RouteRequestMissing, RouteFederatedRequest, HopDenied,
       GuestResponds, BrokerCancelsWaiting, Continue, ContinueDead, ContinueLive,
       GuestFails, ResponseEnds, BrokerCancelsRunning, CancelLease
  <2>9. ASSUME NEW g \in Guests, RegisterGuest(g) \/ GuestDisconnect(g)
        PROVE  NoIdleWhileQueued'
    BY <2>1, <2>2, <2>9 DEF RegisterGuest, GuestDisconnect
  <2>10. CASE HostClose
    BY <2>2, <2>10 DEF HostClose
  <2>11. ASSUME NEW l \in Leases, StreamCloses(l) PROVE NoIdleWhileQueued'
    BY <2>1, <2>11 DEF StreamCloses
  <2>12. CASE UNCHANGED vars
    BY <2>1, <2>12 DEF vars
  <2> QED BY <2>3, <2>4, <2>5, <2>6, <2>7, <2>8, <2>9, <2>10, <2>11, <2>12
          DEF Next, GuestSteps, LeaseSteps, RequestSteps, RouteRequest, HopAllowed
<1> QED BY <1>1, <1>2, LeaseInvariance, PTL DEF Spec
=============================================================================
