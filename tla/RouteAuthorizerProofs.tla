------------------------- MODULE RouteAuthorizerProofs -------------------------
(***************************************************************************)
(* Proofs about RouteAuthorizer for any number of pairs, calls and policy  *)
(* decisions, any TTLs, and any bounds of the clock and the generation.    *)
(***************************************************************************)
EXTENDS RouteAuthorizer, TLAPS

-----------------------------------------------------------------------------
(* The caches *)

\* Dropping what has expired keeps an expiry table, and changes no live entry.
LEMMA ExpiriesAreNumbers == Expiries \subseteq Nat /\ 0 \in Expiries
  BY RouteAuthorizerAssumption DEF Expiries

LEMMA DropProperties ==
    ASSUME NEW cache \in [Pairs -> Expiries], NEW p \in Pairs, now \in Nat
    PROVE  /\ DropExpired(cache, p) \in [Pairs -> Expiries]
           /\ \A q \in Pairs : /\ IsLive(cache, q) => DropExpired(cache, p)[q] = cache[q]
                               /\ DropExpired(cache, p)[q] \in {0, cache[q]}
  BY ExpiriesAreNumbers DEF DropExpired, IsLive

\* The expiry of a well-formed answer is representable, unless its TTL is the
\* configured one or infinite.
LEMMA ExpiryProperties ==
    ASSUME NEW a \in Answers, now \in 0 .. MaxTime, ~Malformed(a)
    PROVE  /\ ExpiresAt(a) \in Expiries /\ a.verdict \in {"allow", "deny"}
           /\ ExpiresAt(a) <= MaxSafe \/ a.ttl \in {Omitted, Forever}
<1>1. a.verdict \in {"allow", "deny"} /\ a.ttl \in Ttls \cup {Omitted, Forever}
  BY DEF Answers, Malformed
<1>2. ClassTtl(a.verdict) \in {AllowTtl, DenyTtl} /\ ClassTtl(a.verdict) \in Nat
  BY RouteAuthorizerAssumption DEF ClassTtl
<1>3. ASSUME a.ttl \in Ttls \ {0} PROVE a.ttl \in Nat /\ now + a.ttl <= MaxSafe
  <2>1. ~(now + a.ttl > MaxSafe)
    BY <1>3, Zenon DEF Malformed
  <2>2. a.ttl \in Ttls
    BY <1>3
  <2>3. Ttls \subseteq Nat /\ MaxSafe \in Nat /\ MaxTime \in Nat
    BY RouteAuthorizerAssumption
  <2>4. a.ttl \in Nat
    BY <2>2, <2>3
  <2>5. now \in Nat
    BY <2>3
  <2> QED BY <2>1, <2>3, <2>4, <2>5
<1>4. CASE a.ttl = Omitted
  BY <1>1, <1>2, <1>4, RouteAuthorizerAssumption DEF ExpiresAt, Expiries
<1>5. CASE a.ttl # Omitted
  BY <1>1, <1>3, <1>5, RouteAuthorizerAssumption DEF ExpiresAt, Expiries
<1> QED BY <1>1, <1>4, <1>5

\* The tables after a call has looked its pair up.
LEMMA CallTables ==
    ASSUME TypeOK, NEW c \in Calls
    PROVE  /\ DropExpired(allowedPairs, CallPair[c]) \in [Pairs -> Expiries]
           /\ DropExpired(deniedPairs, CallPair[c]) \in [Pairs -> Expiries]
<1>1. /\ CallPair[c] \in Pairs
      /\ now \in Nat
      /\ allowedPairs \in [Pairs -> Expiries]
      /\ deniedPairs \in [Pairs -> Expiries]
  BY RouteAuthorizerAssumption DEF TypeOK
<1> QED BY <1>1, DropProperties

\* A cached answer changes the expiry of its own pair only.
LEMMA InsertProperties ==
    ASSUME NEW cache \in [Pairs -> Expiries], NEW p \in Pairs, NEW e \in Expiries
    PROVE  /\ Insert(cache, p, e) \in [Pairs -> Expiries]
           /\ \A q \in Pairs : q # p => Insert(cache, p, e)[q] = cache[q]
  BY DEF Insert

-----------------------------------------------------------------------------
(* Types, and the map of pending decisions *)

LEMMA FlightInit == Init => FlightInv
<1> SUFFICES ASSUME Init PROVE FlightInv
  OBVIOUS
<1>1. TypeOK
  BY RouteAuthorizerAssumption DEF Init, TypeOK, DecisionRecord, Expiries, NoAnswer
<1>2. DecisionSound
  BY DEF Init, DecisionSound
<1>3. PendingExact
  BY RouteAuthorizerAssumption DEF Init, PendingExact, InFlight
<1> QED BY <1>1, <1>2, <1>3 DEF FlightInv

\* Settling a decision keeps the types.
LEMMA SettleTypes ==
    ASSUME FlightInv, NEW d \in Decisions, Settle(d)
    PROVE  TypeOK'
<1> DEFINE a == decision[d].answer
           p == decision[d].pair
<1>1. /\ a \in Answers
      /\ p \in Pairs
      /\ decision[d] \in DecisionRecord
      /\ now \in 0 .. MaxTime
  BY DEF FlightInv, DecisionSound, TypeOK, Settle
<1>2. decision' \in [Decisions -> DecisionRecord]
  BY <1>1 DEF Settle, FlightInv, TypeOK, DecisionRecord
<1>3. Verdict(d) \in {"true", "false", "rejected"}
  BY DEF Verdict, StaleVerdict
<1>4. call' \in [Calls -> {"new", "waiting", "true", "false", "rejected"}]
  BY <1>3 DEF Settle, Resolve, FlightInv, TypeOK
<1>5. ~Malformed(a) => ExpiresAt(a) \in Expiries
  BY <1>1, ExpiryProperties
<1>6. allowedPairs' \in [Pairs -> Expiries] /\ deniedPairs' \in [Pairs -> Expiries]
  BY <1>1, <1>5, InsertProperties DEF Settle, Cache, FlightInv, TypeOK
<1>7. pendingDecisions' \in [Pairs -> Decisions \cup {None}]
  BY <1>1 DEF Settle, Forget, FlightInv, TypeOK
<1> QED BY <1>2, <1>4, <1>6, <1>7 DEF Settle, FlightInv, TypeOK

LEMMA FlightStep == FlightInv /\ [Next]_vars => FlightInv'
<1> SUFFICES ASSUME FlightInv, [Next]_vars PROVE FlightInv'
  OBVIOUS
<1> USE DEF FlightInv
<1>1. CASE Tick
  <2>1. TypeOK'
    BY <1>1, RouteAuthorizerAssumption DEF Tick, TypeOK
  <2>2. DecisionSound' /\ PendingExact'
    BY <1>1 DEF Tick, DecisionSound, PendingExact, InFlight
  <2> QED BY <2>1, <2>2
<1>2. ASSUME NEW c \in Calls, CallCached(c) PROVE FlightInv'
  <2>1. allowedPairs' \in [Pairs -> Expiries]
    BY <1>2, CallTables DEF CallCached
  <2>3. TypeOK'
    BY <1>2, <2>1 DEF CallCached, TypeOK
  <2>2. DecisionSound' /\ PendingExact'
    BY <1>2 DEF CallCached, DecisionSound, PendingExact, InFlight
  <2> QED BY <2>2, <2>3
<1>3. ASSUME NEW c \in Calls, CallJoins(c) PROVE FlightInv'
  <2>1. allowedPairs' \in [Pairs -> Expiries] /\ deniedPairs' \in [Pairs -> Expiries]
    BY <1>3, CallTables DEF CallJoins, DropBoth
  <2>3. pendingDecisions[CallPair[c]] \in Decisions
    BY <1>3, RouteAuthorizerAssumption DEF CallJoins, TypeOK
  <2>4. TypeOK'
    BY <1>3, <2>1, <2>3 DEF CallJoins, TypeOK
  <2>2. DecisionSound' /\ PendingExact'
    BY <1>3 DEF CallJoins, DecisionSound, PendingExact, InFlight
  <2> QED BY <2>2, <2>4
<1>4. ASSUME NEW c \in Calls, NEW d \in Decisions, CallAsks(c, d) PROVE FlightInv'
  <2> DEFINE p == CallPair[c]
             new == [phase |-> "asked", pair |-> p, generation |-> generation,
                     revoked |-> FALSE, answer |-> NoAnswer]
  <2>1. p \in Pairs /\ d # None /\ generation \in Nat
    BY RouteAuthorizerAssumption DEF TypeOK
  <2>2. new \in DecisionRecord
    BY <2>1 DEF DecisionRecord
  <2>3. /\ decision' = [decision EXCEPT ![d] = new]
        /\ pendingDecisions' = [pendingDecisions EXCEPT ![p] = d]
        /\ decision[d].phase = "unused"
        /\ pendingDecisions[p] = None
        /\ generation' = generation
    BY <1>4 DEF CallAsks, Remember
  <2>4. allowedPairs' \in [Pairs -> Expiries] /\ deniedPairs' \in [Pairs -> Expiries]
    BY <1>4, CallTables DEF CallAsks, Remember, DropBoth
  <2>5. TypeOK'
    <3>1. decision' \in [Decisions -> DecisionRecord]
      BY <2>2, <2>3 DEF TypeOK
    <3>2. pendingDecisions' \in [Pairs -> Decisions \cup {None}]
      BY <2>3 DEF TypeOK
    <3>3. UNCHANGED <<now, generation>>
      BY <1>4 DEF CallAsks, Remember
    <3>4. /\ call' \in [Calls -> {"new", "waiting", "true", "false", "rejected"}]
          /\ awaits' \in [Calls -> Decisions \cup {None}]
          /\ current' \in SUBSET Decisions
      BY <1>4 DEF CallAsks, Remember, TypeOK
    <3> QED BY <2>4, <3>1, <3>2, <3>3, <3>4 DEF TypeOK
  <2>6. DecisionSound'
    BY <2>1, <2>3 DEF DecisionSound, TypeOK
  <2>7. PendingExact'
    <3>1. \A e \in Decisions \ {d} : decision'[e] = decision[e]
      BY <2>3 DEF TypeOK
    <3>2. decision'[d] = new
      BY <2>3 DEF TypeOK
    <3>3. \A q \in Pairs \ {p} : pendingDecisions'[q] = pendingDecisions[q]
      BY <2>3 DEF TypeOK
    <3>4. pendingDecisions'[p] = d
      BY <2>1, <2>3 DEF TypeOK
    <3>5. ~InFlight(d) /\ InFlight(d)'
      BY <2>3, <3>2 DEF InFlight
    <3>6. \A q \in Pairs : pendingDecisions[q] # d
      BY <3>5 DEF PendingExact
    <3>7. ASSUME NEW q \in Pairs, NEW e \in Decisions, pendingDecisions'[q] = e
          PROVE  InFlight(e)' /\ decision'[e].pair = q /\ ~decision'[e].revoked
      <4>1. CASE q = p
        BY <4>1, <3>2, <3>4, <3>5, <3>7
      <4>2. CASE q # p
        <5>1. pendingDecisions[q] = e /\ e # d
          BY <4>2, <3>3, <3>6, <3>7
        <5> QED BY <5>1, <3>1 DEF PendingExact, InFlight
      <4> QED BY <4>1, <4>2
    <3>8. ASSUME NEW e \in Decisions, InFlight(e)', ~decision'[e].revoked
          PROVE  pendingDecisions'[decision'[e].pair] = e
      <4>1. CASE e = d
        BY <4>1, <3>2, <3>4
      <4>2. CASE e # d
        <5>1. InFlight(e) /\ ~decision[e].revoked /\ decision'[e].pair = decision[e].pair
          BY <4>2, <3>1, <3>8 DEF InFlight
        <5>2. pendingDecisions[decision[e].pair] = e /\ decision[e].pair \in Pairs
          BY <5>1 DEF PendingExact, DecisionSound, InFlight
        <5>3. decision[e].pair # p
          BY <5>2, <2>3, RouteAuthorizerAssumption
        <5> QED BY <5>1, <5>2, <5>3, <3>3
      <4> QED BY <4>1, <4>2
    <3> QED BY <3>7, <3>8 DEF PendingExact
  <2> QED BY <2>5, <2>6, <2>7
<1>5. ASSUME NEW d \in Decisions, NEW a \in Answers, CallbackAnswers(d, a) PROVE FlightInv'
  <2>1. /\ \A e \in Decisions \ {d} : decision'[e] = decision[e]
        /\ decision'[d] = [decision[d] EXCEPT !.phase = "answered", !.answer = a]
        /\ decision[d] \in DecisionRecord
        /\ UNCHANGED <<generation, pendingDecisions>>
    BY <1>5 DEF CallbackAnswers, TypeOK
  <2>2. /\ decision'[d].phase = "answered"
        /\ decision'[d].answer = a
        /\ decision'[d].pair = decision[d].pair
        /\ decision'[d].generation = decision[d].generation
        /\ decision'[d].revoked = decision[d].revoked
        /\ decision'[d] \in DecisionRecord
    BY <2>1 DEF DecisionRecord
  <2>3. TypeOK'
    <3>1. decision' = [decision EXCEPT ![d] = decision'[d]]
      BY <1>5 DEF CallbackAnswers, TypeOK
    <3>2. decision' \in [Decisions -> DecisionRecord]
      BY <3>1, <2>2 DEF TypeOK
    <3> QED BY <3>2, <1>5 DEF CallbackAnswers, TypeOK
  <2>4. DecisionSound'
    BY <1>5, <2>1, <2>2 DEF DecisionSound, CallbackAnswers
  <2>5. \A e \in Decisions : /\ InFlight(e)' <=> InFlight(e)
                             /\ decision'[e].pair = decision[e].pair
                             /\ decision'[e].revoked = decision[e].revoked
    BY <1>5, <2>1, <2>2 DEF InFlight, CallbackAnswers
  <2>6. PendingExact'
    BY <2>1, <2>5 DEF PendingExact, TypeOK
  <2> QED BY <2>3, <2>4, <2>6
<1>6. ASSUME NEW d \in Decisions, Settle(d) PROVE FlightInv'
  <2>1. /\ \A e \in Decisions \ {d} : decision'[e] = decision[e]
        /\ decision'[d] = [decision[d] EXCEPT !.phase = "settled"]
        /\ decision[d] \in DecisionRecord
        /\ decision[d].pair \in Pairs
        /\ generation' = generation
    BY <1>6 DEF Settle, TypeOK, DecisionSound
  <2>2. /\ decision'[d].phase = "settled"
        /\ decision'[d].pair = decision[d].pair
        /\ decision'[d].generation = decision[d].generation
    BY <2>1 DEF DecisionRecord
  <2>3. DecisionSound'
    BY <2>1, <2>2 DEF DecisionSound
  <2>4. PendingExact'
    <3> DEFINE p == decision[d].pair
    <3>1. /\ \A q \in Pairs \ {p} : pendingDecisions'[q] = pendingDecisions[q]
          /\ pendingDecisions'[p] = IF pendingDecisions[p] = d THEN None ELSE pendingDecisions[p]
      BY <1>6, <2>1 DEF Settle, Forget, TypeOK
    <3>2. ASSUME NEW q \in Pairs, NEW e \in Decisions, pendingDecisions'[q] = e
          PROVE  InFlight(e)' /\ decision'[e].pair = q /\ ~decision'[e].revoked
      <4>1. pendingDecisions[q] = e
        BY <3>1, <3>2, RouteAuthorizerAssumption
      <4>2. decision[e].pair = q
        BY <4>1 DEF PendingExact
      <4>3. e # d
        BY <3>1, <3>2, <4>1, <4>2, RouteAuthorizerAssumption
      <4> QED BY <4>1, <4>3, <2>1 DEF PendingExact, InFlight
    <3>3. ASSUME NEW e \in Decisions, InFlight(e)', ~decision'[e].revoked
          PROVE  pendingDecisions'[decision'[e].pair] = e
      <4>1. e # d
        BY <2>2, <3>3 DEF InFlight
      <4>2. InFlight(e) /\ ~decision[e].revoked /\ decision'[e] = decision[e]
        BY <4>1, <2>1, <3>3 DEF InFlight
      <4>3. pendingDecisions[decision[e].pair] = e /\ decision[e].pair \in Pairs
        BY <4>2 DEF PendingExact, DecisionSound, InFlight
      <4> QED BY <4>1, <4>2, <4>3, <3>1
    <3> QED BY <3>2, <3>3 DEF PendingExact
  <2> QED BY <1>6, <2>3, <2>4, SettleTypes
<1>7. ASSUME NEW p \in Pairs, RevokePair(p) PROVE FlightInv'
  <2>1. \A e \in Decisions : /\ decision[e] \in DecisionRecord
                             /\ decision'[e] = IF pendingDecisions[p] = e
                                               THEN [decision[e] EXCEPT !.revoked = TRUE]
                                               ELSE decision[e]
    BY <1>7 DEF RevokePair, TypeOK
  <2>2. \A e \in Decisions : /\ decision'[e] \in DecisionRecord
                             /\ decision'[e].phase = decision[e].phase
                             /\ decision'[e].pair = decision[e].pair
                             /\ decision'[e].generation = decision[e].generation
                             /\ decision'[e].answer = decision[e].answer
                             /\ pendingDecisions[p] = e => decision'[e].revoked
                             /\ pendingDecisions[p] # e => decision'[e].revoked = decision[e].revoked
    <3> TAKE e \in Decisions
    <3>1. CASE pendingDecisions[p] = e
      <4>1. decision'[e] = [decision[e] EXCEPT !.revoked = TRUE] /\ decision[e] \in DecisionRecord
        BY <3>1, <2>1
      <4>2. decision'[e] \in DecisionRecord
        BY <4>1 DEF DecisionRecord
      <4>3. /\ decision'[e].phase = decision[e].phase
            /\ decision'[e].pair = decision[e].pair
            /\ decision'[e].generation = decision[e].generation
            /\ decision'[e].answer = decision[e].answer
        BY <4>1 DEF DecisionRecord
      <4>4. decision'[e].revoked
        BY <4>1 DEF DecisionRecord
      <4> QED BY <3>1, <4>2, <4>3, <4>4
    <3>2. CASE pendingDecisions[p] # e
      BY <3>2, <2>1
    <3> QED BY <3>1, <3>2
  <2>3. /\ \A q \in Pairs \ {p} : pendingDecisions'[q] = pendingDecisions[q]
        /\ pendingDecisions'[p] = None
        /\ generation' = generation
    BY <1>7 DEF RevokePair, TypeOK
  <2>4. TypeOK'
    <3>1. decision' \in [Decisions -> DecisionRecord]
      BY <1>7, <2>2 DEF RevokePair
    <3>2. 0 \in Expiries
      BY RouteAuthorizerAssumption DEF Expiries
    <3> QED BY <1>7, <3>1, <3>2 DEF RevokePair, TypeOK
  <2>5. DecisionSound'
    BY <2>2, <2>3 DEF DecisionSound
  <2>6. PendingExact'
    <3>1. ASSUME NEW q \in Pairs, NEW e \in Decisions, pendingDecisions'[q] = e
          PROVE  InFlight(e)' /\ decision'[e].pair = q /\ ~decision'[e].revoked
      <4>1. q # p /\ pendingDecisions[q] = e
        BY <2>3, <3>1, RouteAuthorizerAssumption
      <4>2. InFlight(e) /\ decision[e].pair = q /\ ~decision[e].revoked
        BY <4>1 DEF PendingExact
      <4>3. pendingDecisions[p] # e
        BY <4>1, <4>2 DEF PendingExact
      <4> QED BY <4>2, <4>3, <2>2 DEF InFlight
    <3>2. ASSUME NEW e \in Decisions, InFlight(e)', ~decision'[e].revoked
          PROVE  pendingDecisions'[decision'[e].pair] = e
      <4>1. InFlight(e) /\ ~decision[e].revoked /\ pendingDecisions[p] # e
        BY <2>2, <3>2 DEF InFlight
      <4>2. pendingDecisions[decision[e].pair] = e /\ decision[e].pair \in Pairs
        BY <4>1 DEF PendingExact, DecisionSound, InFlight
      <4> QED BY <4>1, <4>2, <2>2, <2>3
    <3> QED BY <3>1, <3>2 DEF PendingExact
  <2> QED BY <2>4, <2>5, <2>6
<1>8. CASE Invalidate
  <2>1. TypeOK'
    BY <1>8, RouteAuthorizerAssumption DEF Invalidate, TypeOK, Expiries
  <2>2. DecisionSound'
    <3>1. generation \in Nat /\ generation' = generation + 1 /\ decision' = decision
      BY <1>8, RouteAuthorizerAssumption DEF Invalidate, TypeOK
    <3>2. \A d \in Decisions : decision[d].generation \in Nat
      BY DEF TypeOK, DecisionRecord
    <3> QED BY <3>1, <3>2 DEF DecisionSound
  <2>3. PendingExact'
    BY <1>8 DEF Invalidate, PendingExact, InFlight
  <2> QED BY <2>1, <2>2, <2>3
<1>9. CASE UNCHANGED vars
  BY <1>9 DEF vars, TypeOK, DecisionSound, PendingExact, InFlight
<1> QED BY <1>1, <1>2, <1>3, <1>4, <1>5, <1>6, <1>7, <1>8, <1>9
        DEF Next, CallSteps, DecisionSteps

\* The caches and the bookkeeping of callback invocations are well-formed, for any
\* configured TTL: an expiry past MaxSafe can only be that of an answer without a TTL
\* of its own.
THEOREM TypeCorrect == Spec => []TypeOK
<1>1. FlightInv => TypeOK
  BY DEF FlightInv
<1> QED BY <1>1, FlightInit, FlightStep, PTL DEF Spec

\* authorizeHop shares one callback invocation per pair: a second one runs at
\* the same time only after revokePair abandoned the first.
THEOREM FlightIsSingle == Spec => []SingleFlight
<1>1. FlightInv => SingleFlight
  BY DEF FlightInv, PendingExact, SingleFlight, InFlight
<1> QED BY <1>1, FlightInit, FlightStep, PTL DEF Spec

-----------------------------------------------------------------------------
(* What the caches say *)

\* What the policy has said stands while no revocation or invalidation happens.
LEMMA WordStands ==
    ASSUME current \subseteq current',
           \A d \in current : decision[d].phase = "settled" => decision'[d] = decision[d],
           NEW p \in Pairs, NEW v, NEW x, NEW y, x = y, Backed(p, v, x)
    PROVE  \E d \in current' : /\ decision'[d].pair = p
                               /\ decision'[d].phase = "settled"
                               /\ decision'[d].answer.verdict = v
                               /\ y <= MaxSafe \/ decision'[d].answer.ttl \in {Omitted, Forever}
<1>1. PICK d \in current : /\ decision[d].pair = p
                           /\ decision[d].phase = "settled"
                           /\ decision[d].answer.verdict = v
                           /\ y <= MaxSafe \/ decision[d].answer.ttl \in {Omitted, Forever}
  BY DEF Backed
<1>2. d \in current' /\ decision'[d] = decision[d]
  BY <1>1
<1> QED BY <1>1, <1>2

\* So does every entry that is kept.
LEMMA CacheStands ==
    ASSUME CacheIsCurrent, current \subseteq current',
           \A d \in current : decision[d].phase = "settled" => decision'[d] = decision[d],
           \A q \in Pairs : /\ allowedPairs'[q] > 0 => allowedPairs'[q] = allowedPairs[q]
                            /\ deniedPairs'[q] > 0 => deniedPairs'[q] = deniedPairs[q]
    PROVE  CacheIsCurrent'
<1>1. ASSUME NEW q \in Pairs, allowedPairs'[q] > 0 PROVE Backed(q, "allow", allowedPairs[q])'
  <2>1. allowedPairs[q] = allowedPairs'[q] /\ Backed(q, "allow", allowedPairs[q])
    BY <1>1 DEF CacheIsCurrent
  <2> QED BY <2>1, WordStands DEF Backed
<1>2. ASSUME NEW q \in Pairs, deniedPairs'[q] > 0 PROVE Backed(q, "deny", deniedPairs[q])'
  <2>1. deniedPairs[q] = deniedPairs'[q] /\ Backed(q, "deny", deniedPairs[q])
    BY <1>2 DEF CacheIsCurrent
  <2> QED BY <2>1, WordStands DEF Backed
<1> QED BY <1>1, <1>2 DEF CacheIsCurrent

\* A lookup hides no live entry and invents none.
LEMMA LookupKeeps ==
    ASSUME FlightInv, NEW c \in Calls, now' = now,
           allowedPairs' = DropExpired(allowedPairs, CallPair[c]),
           deniedPairs' \in {deniedPairs, DropExpired(deniedPairs, CallPair[c])}
    PROVE  \A q \in Pairs : /\ IsLive(allowedPairs, q)' <=> IsLive(allowedPairs, q)
                            /\ IsLive(deniedPairs, q)' <=> IsLive(deniedPairs, q)
                            /\ allowedPairs'[q] > 0 => allowedPairs'[q] = allowedPairs[q]
                            /\ deniedPairs'[q] > 0 => deniedPairs'[q] = deniedPairs[q]
<1>1. /\ CallPair[c] \in Pairs
      /\ now \in Nat
      /\ allowedPairs \in [Pairs -> Expiries]
      /\ deniedPairs \in [Pairs -> Expiries]
  BY RouteAuthorizerAssumption DEF FlightInv, TypeOK
<1> TAKE q \in Pairs
<1>2. allowedPairs[q] \in Nat /\ deniedPairs[q] \in Nat
  BY <1>1, ExpiriesAreNumbers
<1>3. /\ IsLive(allowedPairs, q) => DropExpired(allowedPairs, CallPair[c])[q] = allowedPairs[q]
      /\ DropExpired(allowedPairs, CallPair[c])[q] \in {0, allowedPairs[q]}
      /\ IsLive(deniedPairs, q) => DropExpired(deniedPairs, CallPair[c])[q] = deniedPairs[q]
      /\ DropExpired(deniedPairs, CallPair[c])[q] \in {0, deniedPairs[q]}
  BY <1>1, DropProperties
<1> HIDE DEF DropExpired
<1>4. /\ allowedPairs'[q] \in {0, allowedPairs[q]}
      /\ IsLive(allowedPairs, q) => allowedPairs'[q] = allowedPairs[q]
  BY <1>3
<1>5. /\ deniedPairs'[q] \in {0, deniedPairs[q]}
      /\ IsLive(deniedPairs, q) => deniedPairs'[q] = deniedPairs[q]
  BY <1>3
<1> QED BY <1>1, <1>2, <1>4, <1>5 DEF IsLive

\* What settling a decision does to the caches: a stale or malformed answer
\* leaves both alone, any other touches one entry of one cache.
LEMMA SettleCaches ==
    ASSUME FlightInv, NEW d \in Decisions, Settle(d)
    PROVE  /\ decision[d].pair \in Pairs
           /\ \A q \in Pairs \ {decision[d].pair} : /\ allowedPairs'[q] = allowedPairs[q]
                                                   /\ deniedPairs'[q] = deniedPairs[q]
           /\ IsStale(d) \/ decision[d].answer.verdict # "allow" => allowedPairs' = allowedPairs
           /\ IsStale(d) \/ decision[d].answer.verdict # "deny" => deniedPairs' = deniedPairs
           /\ \A q \in Pairs :
                 \/ allowedPairs'[q] = allowedPairs[q] \/ allowedPairs'[q] <= MaxSafe
                 \/ decision[d].answer.ttl \in {Omitted, Forever}
           /\ \A q \in Pairs :
                 \/ deniedPairs'[q] = deniedPairs[q] \/ deniedPairs'[q] <= MaxSafe
                 \/ decision[d].answer.ttl \in {Omitted, Forever}
<1> DEFINE a == decision[d].answer
           p == decision[d].pair
<1>1. /\ a \in Answers
      /\ p \in Pairs
      /\ now \in 0 .. MaxTime
      /\ allowedPairs \in [Pairs -> Expiries]
      /\ deniedPairs \in [Pairs -> Expiries]
  BY DEF FlightInv, DecisionSound, TypeOK, Settle
<1>2. ~Malformed(a) => ExpiresAt(a) <= MaxSafe \/ a.ttl \in {Omitted, Forever}
  BY <1>1, ExpiryProperties
<1>3. \A q \in Pairs \ {p} : /\ allowedPairs'[q] = allowedPairs[q]
                             /\ deniedPairs'[q] = deniedPairs[q]
  <2>1. CASE Malformed(a)
    BY <2>1 DEF Settle, Cache
  <2>2. CASE ~Malformed(a)
    <3>1. /\ allowedPairs' = IF ~Malformed(a) /\ ~IsStale(d) /\ a.verdict = "allow"
                             THEN Insert(allowedPairs, p, ExpiresAt(a)) ELSE allowedPairs
          /\ deniedPairs' = IF ~Malformed(a) /\ ~IsStale(d) /\ a.verdict = "deny"
                            THEN Insert(deniedPairs, p, ExpiresAt(a)) ELSE deniedPairs
      BY DEF Settle, Cache
    <3> HIDE DEF a, p
    <3>2. \A q \in Pairs \ {p} : /\ Insert(allowedPairs, p, ExpiresAt(a))[q] = allowedPairs[q]
                                 /\ Insert(deniedPairs, p, ExpiresAt(a))[q] = deniedPairs[q]
      BY <1>1 DEF Insert
    <3> QED BY <3>1, <3>2
  <2> QED BY <2>1, <2>2
<1>4. IsStale(d) \/ a.verdict # "allow" => allowedPairs' = allowedPairs
  BY DEF Settle, Cache
<1>5. IsStale(d) \/ a.verdict # "deny" => deniedPairs' = deniedPairs
  BY DEF Settle, Cache
<1>6. /\ \/ allowedPairs'[p] = allowedPairs[p] \/ allowedPairs'[p] <= MaxSafe
         \/ a.ttl \in {Omitted, Forever}
      /\ \/ deniedPairs'[p] = deniedPairs[p] \/ deniedPairs'[p] <= MaxSafe
         \/ a.ttl \in {Omitted, Forever}
  <2>1. CASE Malformed(a)
    BY <2>1 DEF Settle, Cache
  <2>2. CASE ~Malformed(a)
    <3>1. /\ \/ allowedPairs' = allowedPairs
             \/ allowedPairs' = Insert(allowedPairs, p, ExpiresAt(a))
          /\ \/ deniedPairs' = deniedPairs
             \/ deniedPairs' = Insert(deniedPairs, p, ExpiresAt(a))
      BY DEF Settle, Cache
    <3> HIDE DEF a, p
    <3>2. /\ Insert(allowedPairs, p, ExpiresAt(a))[p] \in {allowedPairs[p], ExpiresAt(a)}
          /\ Insert(deniedPairs, p, ExpiresAt(a))[p] \in {deniedPairs[p], ExpiresAt(a)}
      BY <1>1 DEF Insert
    <3> QED BY <3>1, <3>2, <1>2, <2>2
  <2> QED BY <2>1, <2>2
<1> QED BY <1>1, <1>3, <1>4, <1>5, <1>6

LEMMA AuthorizerInit == Init => AuthorizerInv
<1> SUFFICES ASSUME Init PROVE AuthorizerInv
  OBVIOUS
<1>1. FlightInv
  BY FlightInit
<1>2. PendingIsMiss /\ StaleIsFound /\ AwaitsSound
  BY DEF Init, PendingIsMiss, StaleIsFound, InFlight, AwaitsSound
<1>3. CacheIsCurrent /\ OneVerdict
  BY DEF Init, CacheIsCurrent, OneVerdict, IsLive
<1> QED BY <1>1, <1>2, <1>3 DEF AuthorizerInv

LEMMA AuthorizerStep == AuthorizerInv /\ [Next]_vars => AuthorizerInv'
<1> SUFFICES ASSUME AuthorizerInv, [Next]_vars PROVE AuthorizerInv'
  OBVIOUS
<1> USE DEF AuthorizerInv
<1>0. FlightInv'
  BY FlightStep
<1>a. /\ now \in Nat
      /\ \A q \in Pairs : allowedPairs[q] \in Nat /\ deniedPairs[q] \in Nat
  <2>1. /\ allowedPairs \in [Pairs -> Expiries]
        /\ deniedPairs \in [Pairs -> Expiries]
        /\ now \in 0 .. MaxTime
    BY DEF FlightInv, TypeOK
  <2> QED BY <2>1, RouteAuthorizerAssumption DEF Expiries
<1>1. CASE Tick
  <2>1. \A q \in Pairs : /\ IsLive(allowedPairs, q)' => IsLive(allowedPairs, q)
                         /\ IsLive(deniedPairs, q)' => IsLive(deniedPairs, q)
    BY <1>1, <1>a DEF Tick, IsLive
  <2>2. PendingIsMiss' /\ OneVerdict'
    BY <1>1, <2>1 DEF Tick, PendingIsMiss, OneVerdict, Miss
  <2>3. StaleIsFound' /\ AwaitsSound'
    BY <1>1 DEF Tick, StaleIsFound, InFlight, IsStale, AwaitsSound
  <2>4. CacheIsCurrent'
    BY <1>1, CacheStands DEF Tick
  <2> QED BY <1>0, <2>2, <2>3, <2>4
<1>2. ASSUME NEW c \in Calls, CallCached(c) PROVE AuthorizerInv'
  <2>1. \A q \in Pairs : /\ IsLive(allowedPairs, q)' <=> IsLive(allowedPairs, q)
                         /\ IsLive(deniedPairs, q)' <=> IsLive(deniedPairs, q)
                         /\ allowedPairs'[q] > 0 => allowedPairs'[q] = allowedPairs[q]
                         /\ deniedPairs'[q] > 0 => deniedPairs'[q] = deniedPairs[q]
    BY <1>2, LookupKeeps DEF CallCached
  <2>2. PendingIsMiss' /\ OneVerdict'
    BY <1>2, <2>1 DEF CallCached, PendingIsMiss, OneVerdict, Miss
  <2>3. StaleIsFound' /\ AwaitsSound'
    BY <1>2 DEF CallCached, StaleIsFound, InFlight, IsStale, AwaitsSound, FlightInv, TypeOK
  <2>4. CacheIsCurrent'
    BY <1>2, <2>1, CacheStands DEF CallCached
  <2> QED BY <1>0, <2>2, <2>3, <2>4
<1>3. ASSUME NEW c \in Calls, CallJoins(c) PROVE AuthorizerInv'
  <2>1. \A q \in Pairs : /\ IsLive(allowedPairs, q)' <=> IsLive(allowedPairs, q)
                         /\ IsLive(deniedPairs, q)' <=> IsLive(deniedPairs, q)
                         /\ allowedPairs'[q] > 0 => allowedPairs'[q] = allowedPairs[q]
                         /\ deniedPairs'[q] > 0 => deniedPairs'[q] = deniedPairs[q]
    BY <1>3, LookupKeeps DEF CallJoins, DropBoth
  <2>2. PendingIsMiss' /\ OneVerdict'
    BY <1>3, <2>1 DEF CallJoins, PendingIsMiss, OneVerdict, Miss
  <2>3. StaleIsFound'
    BY <1>3 DEF CallJoins, StaleIsFound, InFlight, IsStale
  <2>4. AwaitsSound'
    <3>1. /\ CallPair[c] \in Pairs
          /\ pendingDecisions[CallPair[c]] \in Decisions
          /\ decision' = decision
          /\ \A e \in Calls \ {c} : call'[e] = call[e] /\ awaits'[e] = awaits[e]
          /\ awaits'[c] = pendingDecisions[CallPair[c]]
      BY <1>3, RouteAuthorizerAssumption DEF CallJoins, FlightInv, TypeOK
    <3>2. /\ decision[pendingDecisions[CallPair[c]]].pair = CallPair[c]
          /\ decision[pendingDecisions[CallPair[c]]].phase # "unused"
      BY <3>1 DEF FlightInv, PendingExact, InFlight
    <3> QED BY <3>1, <3>2 DEF AwaitsSound
  <2>5. CacheIsCurrent'
    BY <1>3, <2>1, CacheStands DEF CallJoins
  <2> QED BY <1>0, <2>2, <2>3, <2>4, <2>5
<1>4. ASSUME NEW c \in Calls, NEW d \in Decisions, CallAsks(c, d) PROVE AuthorizerInv'
  <2>1. \A q \in Pairs : /\ IsLive(allowedPairs, q)' <=> IsLive(allowedPairs, q)
                         /\ IsLive(deniedPairs, q)' <=> IsLive(deniedPairs, q)
                         /\ allowedPairs'[q] > 0 => allowedPairs'[q] = allowedPairs[q]
                         /\ deniedPairs'[q] > 0 => deniedPairs'[q] = deniedPairs[q]
    BY <1>4, LookupKeeps DEF CallAsks, Remember, DropBoth
  <2>2. /\ CallPair[c] \in Pairs
        /\ decision[d].phase = "unused"
        /\ \A e \in Decisions \ {d} : decision'[e] = decision[e]
        /\ decision'[d].phase = "asked"
        /\ decision'[d].pair = CallPair[c]
        /\ current' = current \cup {d}
        /\ generation' = generation
    BY <1>4, RouteAuthorizerAssumption DEF CallAsks, Remember, FlightInv, TypeOK
  <2>3. PendingIsMiss' /\ OneVerdict'
    <3>1. \A q \in Pairs \ {CallPair[c]} : pendingDecisions'[q] = pendingDecisions[q]
      BY <1>4 DEF CallAsks, Remember, FlightInv, TypeOK
    <3>2. Miss(CallPair[c])
      BY <1>4 DEF CallAsks, Remember
    <3> QED BY <2>1, <3>1, <3>2 DEF PendingIsMiss, OneVerdict, Miss
  <2>4. StaleIsFound'
    BY <2>2 DEF StaleIsFound, InFlight, IsStale
  <2>5. AwaitsSound'
    <3>1. /\ \A e \in Calls \ {c} : call'[e] = call[e] /\ awaits'[e] = awaits[e]
          /\ awaits'[c] = d
      BY <1>4 DEF CallAsks, Remember, FlightInv, TypeOK
    <3> QED BY <2>2, <3>1 DEF AwaitsSound
  <2>6. CacheIsCurrent'
    <3>1. ASSUME NEW e \in current, decision[e].phase = "settled" PROVE decision'[e] = decision[e]
      BY <2>2, <3>1 DEF FlightInv, TypeOK
    <3> QED BY <2>1, <2>2, <3>1, CacheStands
  <2> QED BY <1>0, <2>3, <2>4, <2>5, <2>6
<1>5. ASSUME NEW d \in Decisions, NEW a \in Answers, CallbackAnswers(d, a) PROVE AuthorizerInv'
  <2>1. /\ \A e \in Decisions \ {d} : decision'[e] = decision[e]
        /\ decision'[d] = [decision[d] EXCEPT !.phase = "answered", !.answer = a]
        /\ decision[d] \in DecisionRecord
        /\ decision[d].phase = "asked"
    BY <1>5 DEF CallbackAnswers, FlightInv, TypeOK
  <2>2. /\ decision'[d].phase = "answered"
        /\ decision'[d].pair = decision[d].pair
        /\ decision'[d].generation = decision[d].generation
        /\ decision'[d].revoked = decision[d].revoked
    BY <2>1 DEF DecisionRecord
  <2>3. PendingIsMiss' /\ OneVerdict'
    BY <1>5 DEF CallbackAnswers, PendingIsMiss, OneVerdict, Miss, IsLive
  <2>4. StaleIsFound'
    BY <1>5, <2>1, <2>2 DEF CallbackAnswers, StaleIsFound, InFlight, IsStale
  <2>5. AwaitsSound'
    <3>1. \A e \in Decisions : /\ decision'[e].pair = decision[e].pair
                               /\ decision[e].phase # "unused" => decision'[e].phase # "unused"
      BY <2>1, <2>2
    <3> QED BY <1>5, <3>1 DEF CallbackAnswers, AwaitsSound
  <2>6. CacheIsCurrent'
    <3>1. ASSUME NEW e \in current, decision[e].phase = "settled" PROVE decision'[e] = decision[e]
      BY <2>1, <3>1 DEF FlightInv, TypeOK
    <3> QED BY <1>5, <3>1, CacheStands DEF CallbackAnswers
  <2> QED BY <1>0, <2>3, <2>4, <2>5, <2>6
<1>6. ASSUME NEW d \in Decisions, Settle(d) PROVE AuthorizerInv'
  <2> DEFINE a == decision[d].answer
             p == decision[d].pair
  <2>1. /\ \A e \in Decisions \ {d} : decision'[e] = decision[e]
        /\ decision'[d] = [decision[d] EXCEPT !.phase = "settled"]
        /\ decision[d] \in DecisionRecord
        /\ decision[d].phase = "answered"
        /\ UNCHANGED <<now, generation, awaits, current>>
    BY <1>6 DEF Settle, FlightInv, TypeOK
  <2>2. /\ decision'[d].phase = "settled"
        /\ decision'[d].pair = p
        /\ decision'[d].answer = a
    BY <2>1 DEF DecisionRecord
  <2>3. /\ p \in Pairs
        /\ \A q \in Pairs \ {p} : /\ allowedPairs'[q] = allowedPairs[q]
                                  /\ deniedPairs'[q] = deniedPairs[q]
        /\ IsStale(d) \/ a.verdict # "allow" => allowedPairs' = allowedPairs
        /\ IsStale(d) \/ a.verdict # "deny" => deniedPairs' = deniedPairs
        /\ \A q \in Pairs : \/ allowedPairs'[q] = allowedPairs[q] \/ allowedPairs'[q] <= MaxSafe
                            \/ a.ttl \in {Omitted, Forever}
        /\ \A q \in Pairs : \/ deniedPairs'[q] = deniedPairs[q] \/ deniedPairs'[q] <= MaxSafe
                            \/ a.ttl \in {Omitted, Forever}
    BY <1>6, SettleCaches
  <2>4. /\ \A q \in Pairs \ {p} : pendingDecisions'[q] = pendingDecisions[q]
        /\ pendingDecisions'[p] = IF pendingDecisions[p] = d THEN None ELSE pendingDecisions[p]
    BY <1>6, <2>3 DEF Settle, Forget, FlightInv, TypeOK
  <2>5. ~IsStale(d) => pendingDecisions[p] = d /\ d \in current
    BY <2>1 DEF IsStale, FlightInv, PendingExact, InFlight, StaleIsFound
  <2>6. d # None
    BY RouteAuthorizerAssumption
  <2>7. \A q \in Pairs \ {p} : /\ IsLive(allowedPairs, q)' <=> IsLive(allowedPairs, q)
                               /\ IsLive(deniedPairs, q)' <=> IsLive(deniedPairs, q)
    BY <2>1, <2>3 DEF IsLive
  <2>8. PendingIsMiss'
    <3> SUFFICES ASSUME NEW q \in Pairs, pendingDecisions'[q] # None PROVE Miss(q)'
      BY DEF PendingIsMiss
    <3>1. CASE q # p
      BY <3>1, <2>4, <2>7 DEF PendingIsMiss, Miss
    <3>2. CASE q = p
      <4>1. pendingDecisions[p] # d /\ pendingDecisions[p] # None
        BY <3>2, <2>4
      <4>2. allowedPairs' = allowedPairs /\ deniedPairs' = deniedPairs
        BY <4>1, <2>3, <2>5
      <4> QED BY <3>2, <4>1, <4>2, <2>1, <2>3 DEF PendingIsMiss, Miss, IsLive
    <3> QED BY <3>1, <3>2
  <2>9. OneVerdict'
    <3> SUFFICES ASSUME NEW q \in Pairs PROVE ~(IsLive(allowedPairs, q)' /\ IsLive(deniedPairs, q)')
      BY DEF OneVerdict
    <3>1. CASE q # p
      BY <3>1, <2>7 DEF OneVerdict
    <3>2. CASE q = p /\ IsStale(d)
      BY <3>2, <2>1, <2>3 DEF OneVerdict, IsLive
    <3>3. CASE q = p /\ ~IsStale(d)
      <4>1. ~IsLive(allowedPairs, p) /\ ~IsLive(deniedPairs, p)
        BY <3>3, <2>3, <2>5, <2>6 DEF PendingIsMiss, Miss
      <4>2. allowedPairs' = allowedPairs \/ deniedPairs' = deniedPairs
        BY <2>3
      <4> QED BY <3>3, <4>1, <4>2, <2>1 DEF IsLive
    <3> QED BY <3>1, <3>2, <3>3
  <2>10. StaleIsFound'
    BY <2>1, <2>2 DEF StaleIsFound, InFlight, IsStale
  <2>11. AwaitsSound'
    <3>1. \A c \in Calls : call'[c] = "waiting" => call[c] = "waiting"
      BY <1>6 DEF Settle, Resolve, Verdict, StaleVerdict, FlightInv, TypeOK
    <3>2. \A e \in Decisions : /\ decision'[e].pair = decision[e].pair
                               /\ decision[e].phase # "unused" => decision'[e].phase # "unused"
      BY <2>1, <2>2
    <3> QED BY <2>1, <3>1, <3>2 DEF AwaitsSound
  <2>12. CacheIsCurrent'
    <3>1. ASSUME NEW e \in current, decision[e].phase = "settled" PROVE decision'[e] = decision[e]
      BY <2>1, <3>1 DEF FlightInv, TypeOK
    <3>2. current \subseteq current'
      BY <2>1
    <3>3. ASSUME NEW x, x <= MaxSafe \/ a.ttl \in {Omitted, Forever}, ~IsStale(d)
          PROVE  \E e \in current' : /\ decision'[e].pair = p
                                     /\ decision'[e].phase = "settled"
                                     /\ decision'[e].answer.verdict = a.verdict
                                     /\ \/ x <= MaxSafe
                                        \/ decision'[e].answer.ttl \in {Omitted, Forever}
      BY <2>1, <2>2, <2>5, <3>3
    <3>4. ASSUME NEW q \in Pairs, allowedPairs'[q] > 0 PROVE Backed(q, "allow", allowedPairs[q])'
      <4>1. CASE allowedPairs[q] = allowedPairs'[q]
        <5>1. Backed(q, "allow", allowedPairs[q])
          BY <3>4, <4>1 DEF CacheIsCurrent
        <5> QED BY <3>1, <3>2, <4>1, <5>1, WordStands DEF Backed
      <4>2. CASE allowedPairs'[q] # allowedPairs[q]
        <5>1. q = p /\ ~IsStale(d) /\ a.verdict = "allow"
          BY <4>2, <2>3
        <5>2. allowedPairs'[q] <= MaxSafe \/ a.ttl \in {Omitted, Forever}
          BY <4>2, <5>1, <2>3
        <5> QED BY <3>3, <5>1, <5>2 DEF Backed
      <4> QED BY <4>1, <4>2
    <3>5. ASSUME NEW q \in Pairs, deniedPairs'[q] > 0 PROVE Backed(q, "deny", deniedPairs[q])'
      <4>1. CASE deniedPairs[q] = deniedPairs'[q]
        <5>1. Backed(q, "deny", deniedPairs[q])
          BY <3>5, <4>1 DEF CacheIsCurrent
        <5> QED BY <3>1, <3>2, <4>1, <5>1, WordStands DEF Backed
      <4>2. CASE deniedPairs'[q] # deniedPairs[q]
        <5>1. q = p /\ ~IsStale(d) /\ a.verdict = "deny"
          BY <4>2, <2>3
        <5>2. deniedPairs'[q] <= MaxSafe \/ a.ttl \in {Omitted, Forever}
          BY <4>2, <5>1, <2>3
        <5> QED BY <3>3, <5>1, <5>2 DEF Backed
      <4> QED BY <4>1, <4>2
    <3> QED BY <3>4, <3>5 DEF CacheIsCurrent
  <2> QED BY <1>0, <2>8, <2>9, <2>10, <2>11, <2>12
<1>7. ASSUME NEW p \in Pairs, RevokePair(p) PROVE AuthorizerInv'
  <2>1. /\ \A q \in Pairs \ {p} : /\ pendingDecisions'[q] = pendingDecisions[q]
                                  /\ allowedPairs'[q] = allowedPairs[q]
                                  /\ deniedPairs'[q] = deniedPairs[q]
        /\ pendingDecisions'[p] = None /\ allowedPairs'[p] = 0 /\ deniedPairs'[p] = 0
        /\ now' = now /\ generation' = generation
        /\ UNCHANGED <<call, awaits>>
        /\ current' = {d \in current : decision[d].pair # p}
    BY <1>7 DEF RevokePair, FlightInv, TypeOK
  <2>2. ASSUME NEW e \in Decisions
        PROVE  /\ decision'[e].phase = decision[e].phase
               /\ decision'[e].pair = decision[e].pair
               /\ decision'[e].generation = decision[e].generation
               /\ decision'[e].answer = decision[e].answer
               /\ pendingDecisions[p] = e => decision'[e].revoked
               /\ pendingDecisions[p] # e => decision'[e] = decision[e]
    <3>1. decision[e] \in DecisionRecord
      BY DEF FlightInv, TypeOK
    <3>2. CASE pendingDecisions[p] = e
      BY <1>7, <3>1, <3>2 DEF RevokePair, DecisionRecord
    <3>3. CASE pendingDecisions[p] # e
      BY <1>7, <3>3 DEF RevokePair
    <3> QED BY <3>2, <3>3
  <2>3. \A q \in Pairs : /\ IsLive(allowedPairs, q)' => IsLive(allowedPairs, q)
                         /\ IsLive(deniedPairs, q)' => IsLive(deniedPairs, q)
    BY <2>1, <1>a DEF IsLive
  <2>4. PendingIsMiss' /\ OneVerdict'
    BY <2>1, <2>3 DEF PendingIsMiss, OneVerdict, Miss
  <2>5. StaleIsFound'
    <3> SUFFICES ASSUME NEW e \in Decisions, InFlight(e)', ~IsStale(e)' PROVE e \in current'
      BY DEF StaleIsFound
    <3>1. pendingDecisions[p] # e /\ decision'[e] = decision[e]
      BY <2>2 DEF IsStale
    <3>2. InFlight(e) /\ ~IsStale(e)
      BY <3>1, <2>1 DEF InFlight, IsStale
    <3>3. e \in current /\ decision[e].pair # p
      BY <3>1, <3>2 DEF StaleIsFound, IsStale, FlightInv, PendingExact
    <3> QED BY <3>3, <2>1
  <2>6. AwaitsSound'
    BY <2>1, <2>2 DEF AwaitsSound
  <2>7. CacheIsCurrent'
    <3>1. ASSUME NEW q \in Pairs \ {p}, NEW v, NEW x, Backed(q, v, x)
          PROVE  \E d \in current' : /\ decision'[d].pair = q
                                     /\ decision'[d].phase = "settled"
                                     /\ decision'[d].answer.verdict = v
                                     /\ \/ x <= MaxSafe
                                        \/ decision'[d].answer.ttl \in {Omitted, Forever}
      <4>1. PICK d \in current : /\ decision[d].pair = q
                                 /\ decision[d].phase = "settled"
                                 /\ decision[d].answer.verdict = v
                                 /\ x <= MaxSafe \/ decision[d].answer.ttl \in {Omitted, Forever}
        BY <3>1 DEF Backed
      <4>2. d \in Decisions
        BY DEF FlightInv, TypeOK
      <4>3. /\ d \in current' /\ decision'[d].pair = q /\ decision'[d].phase = "settled"
            /\ decision'[d].answer = decision[d].answer
        BY <4>1, <4>2, <2>1, <2>2
      <4> QED BY <4>1, <4>3
    <3>2. ASSUME NEW q \in Pairs, allowedPairs'[q] > 0 PROVE Backed(q, "allow", allowedPairs[q])'
      <4>1. q # p /\ allowedPairs'[q] = allowedPairs[q] /\ Backed(q, "allow", allowedPairs[q])
        BY <3>2, <2>1 DEF CacheIsCurrent
      <4> QED BY <3>1, <4>1 DEF Backed
    <3>3. ASSUME NEW q \in Pairs, deniedPairs'[q] > 0 PROVE Backed(q, "deny", deniedPairs[q])'
      <4>1. q # p /\ deniedPairs'[q] = deniedPairs[q] /\ Backed(q, "deny", deniedPairs[q])
        BY <3>3, <2>1 DEF CacheIsCurrent
      <4> QED BY <3>1, <4>1 DEF Backed
    <3> QED BY <3>2, <3>3 DEF CacheIsCurrent
  <2> QED BY <1>0, <2>4, <2>5, <2>6, <2>7
<1>8. CASE Invalidate
  <2>1. /\ \A q \in Pairs : allowedPairs'[q] = 0 /\ deniedPairs'[q] = 0
        /\ generation \in Nat /\ generation' = generation + 1
        /\ UNCHANGED <<now, pendingDecisions, decision, call, awaits>>
    BY <1>8, RouteAuthorizerAssumption DEF Invalidate, FlightInv, TypeOK
  <2>2. PendingIsMiss' /\ OneVerdict' /\ CacheIsCurrent'
    BY <2>1, <1>a DEF PendingIsMiss, OneVerdict, CacheIsCurrent, Miss, IsLive
  <2>3. StaleIsFound'
    <3>1. \A e \in Decisions : decision[e].generation \in Nat /\ decision[e].generation <= generation
      BY DEF FlightInv, TypeOK, DecisionRecord, DecisionSound
    <3> QED BY <3>1, <2>1 DEF StaleIsFound, IsStale
  <2>4. AwaitsSound'
    BY <2>1 DEF AwaitsSound
  <2> QED BY <1>0, <2>2, <2>3, <2>4
<1>9. CASE UNCHANGED vars
  BY <1>0, <1>9 DEF vars, PendingIsMiss, StaleIsFound, AwaitsSound, CacheIsCurrent, OneVerdict,
                    Miss, IsLive, InFlight, IsStale, Backed
<1> QED BY <1>1, <1>2, <1>3, <1>4, <1>5, <1>6, <1>7, <1>8, <1>9
        DEF Next, CallSteps, DecisionSteps

\* No revoked or invalidated decision (re)populates a cache of the authorizer, no
\* TTL of the policy makes an expiry that cannot be represented, and the two caches
\* never contradict each other.
THEOREM CachesAreCurrent == Spec => [](CacheIsCurrent /\ OneVerdict)
<1>1. AuthorizerInv => CacheIsCurrent /\ OneVerdict
  BY DEF AuthorizerInv
<1> QED BY <1>1, AuthorizerInit, AuthorizerStep, PTL DEF Spec

\* authorizeHop resolves to true only when the policy allowed the pair since it
\* was last revoked and since the routes last changed.
THEOREM AllowsAreCurrent == Spec => AllowedIsCurrent
<1> DEFINE P == \A c \in Calls : call[c] # "true" /\ call'[c] = "true" => Said(CallPair[c], "allow")'
<1>1. AuthorizerInv /\ [Next]_vars => [P]_vars
  <2> SUFFICES ASSUME AuthorizerInv, Next, NEW c \in Calls, call[c] # "true", call'[c] = "true"
               PROVE  Said(CallPair[c], "allow")'
    OBVIOUS
  <2>1. CASE CallCached(c)
    <3>1. /\ CallPair[c] \in Pairs
          /\ IsLive(allowedPairs, CallPair[c])
          /\ UNCHANGED <<decision, current>>
      BY <2>1, RouteAuthorizerAssumption DEF CallCached, AuthorizerInv, FlightInv, TypeOK
    <3>2. allowedPairs[CallPair[c]] > 0
      <4>1. allowedPairs[CallPair[c]] \in Expiries /\ now \in 0 .. MaxTime
        BY <3>1 DEF AuthorizerInv, FlightInv, TypeOK
      <4>2. allowedPairs[CallPair[c]] \in Nat
        BY <4>1, ExpiriesAreNumbers
      <4>3. now \in Nat
        BY <4>1
      <4> QED BY <3>1, <4>2, <4>3 DEF IsLive
    <3> QED BY <3>1, <3>2 DEF AuthorizerInv, CacheIsCurrent, Backed, Said
  <2>2. ASSUME NEW d \in Decisions, Settle(d) PROVE Said(CallPair[c], "allow")'
    <3>1. awaits[c] = d /\ call[c] = "waiting" /\ Verdict(d) = "true"
      BY <2>2 DEF Settle, Resolve, AuthorizerInv, FlightInv, TypeOK
    <3>2. ~IsStale(d) /\ decision[d].answer.verdict = "allow"
      BY <3>1 DEF Verdict, StaleVerdict
    <3>3. d \in current /\ decision[d].pair = CallPair[c]
      BY <2>2, <3>1, <3>2 DEF AuthorizerInv, StaleIsFound, AwaitsSound, Settle, InFlight
    <3>4. /\ decision[d] \in DecisionRecord
          /\ decision'[d] = [decision[d] EXCEPT !.phase = "settled"]
          /\ current' = current
      BY <2>2 DEF Settle, AuthorizerInv, FlightInv, TypeOK
    <3>5. /\ decision'[d].phase = "settled"
          /\ decision'[d].pair = decision[d].pair
          /\ decision'[d].answer = decision[d].answer
      BY <3>4 DEF DecisionRecord
    <3> QED BY <3>2, <3>3, <3>4, <3>5 DEF Said
  <2>3. CASE Tick \/ Invalidate \/ \E p \in Pairs : RevokePair(p)
    BY <2>3 DEF Tick, Invalidate, RevokePair
  <2>4. CASE \E e \in Calls : CallCached(e) /\ e # c
    BY <2>4 DEF CallCached, AuthorizerInv, FlightInv, TypeOK
  <2>5. CASE \E e \in Calls : CallJoins(e) \/ \E d \in Decisions : CallAsks(e, d)
    BY <2>5 DEF CallJoins, CallAsks, Remember, AuthorizerInv, FlightInv, TypeOK
  <2>6. CASE \E d \in Decisions : \E a \in Answers : CallbackAnswers(d, a)
    BY <2>6 DEF CallbackAnswers
  <2> QED BY <2>1, <2>2, <2>3, <2>4, <2>5, <2>6 DEF Next, CallSteps, DecisionSteps
<1> QED BY <1>1, AuthorizerInit, AuthorizerStep, PTL DEF Spec, AllowedIsCurrent
=============================================================================
