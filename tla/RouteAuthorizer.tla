---------------------------- MODULE RouteAuthorizer ----------------------------
(***************************************************************************)
(* FederatedRouteAuthorizer of packages/verser2-host/src/lib/              *)
(* route-authorizer.ts: may a request go from one routed domain to the     *)
(* next?  The policy callback decides; its answers are cached with a TTL,  *)
(* concurrent questions about one pair share a callback invocation, and an *)
(* explicit revocation or a change of the routes must win over a decision  *)
(* that is still pending.                                                  *)
(*                                                                         *)
(* A decision is an invocation of the callback.  It is asked, answered     *)
(* later (or never), and settles when its continuation runs; anything may  *)
(* happen in between.                                                      *)
(***************************************************************************)
EXTENDS Integers

CONSTANTS Pairs,          \* normalized (previous, next) domain pairs
          Calls,          \* calls of authorizeHop
          CallPair,       \* the pair each call asks about
          Decisions,      \* invocations of the policy callback
          None,           \* "undefined"
          AllowTtl,       \* routeAuthorizationCacheTtlMs
          DenyTtl,        \* routeAuthorizationNegativeCacheTtlMs
          Ttls,           \* finite cacheTtlMs values the callback may return
          MaxSafe,        \* Number.MAX_SAFE_INTEGER
          Forever,        \* Number.POSITIVE_INFINITY
          MaxTime,        \* bound: the clock
          MaxGeneration   \* bound: invalidations

ASSUME RouteAuthorizerAssumption ==
    /\ CallPair \in [Calls -> Pairs]
    /\ None \notin Decisions \cup Pairs
    /\ AllowTtl \in Nat /\ DenyTtl \in Nat
    /\ Ttls \subseteq Nat
    /\ MaxSafe \in Nat /\ Forever \in Nat /\ MaxTime \in Nat /\ MaxGeneration \in Nat
    /\ MaxTime <= MaxSafe /\ MaxSafe < Forever /\ Forever \notin Ttls

VARIABLES
    now,               \* Date.now()
    generation,
    allowedPairs,      \* expiry of each cached allow, 0 without
    deniedPairs,       \* expiry of each cached deny, 0 without
    pendingDecisions,  \* the decision a call for the pair joins
    decision,          \* each callback invocation
    call,              \* the promise each call returned
    awaits,            \* the decision that promise belongs to
    current            \* history: decisions asked since the last revocation of
                       \* their pair and the last invalidation

vars == <<now, generation, allowedPairs, deniedPairs, pendingDecisions, decision,
          call, awaits, current>>

-----------------------------------------------------------------------------
(* Types *)

\* cacheTtlMs may be omitted; "error" stands for an exception or a malformed
\* result.
Omitted == -1

Answers == [verdict : {"allow", "deny"}, ttl : Ttls \cup {Omitted, Forever}]
             \cup [verdict : {"error"}, ttl : {Omitted}]

NoAnswer == [verdict |-> "none", ttl |-> Omitted]

\* PendingDecision and the closure around it.
DecisionRecord == [phase : {"unused", "asked", "answered", "settled"},
                   pair : Pairs \cup {None},
                   generation : Nat,
                   revoked : BOOLEAN,
                   answer : Answers \cup {NoAnswer}]

\* validateAuthorizationTtl lets a configured TTL be any integer, so an expiry that
\* comes from one can be past MaxSafe.  (It is rounded then; it is as far off.)
Expiries == 0 .. MaxSafe \cup {Forever}
              \cup {t + ttl : t \in 0 .. MaxTime, ttl \in {AllowTtl, DenyTtl}}

TypeOK ==
    /\ now \in 0 .. MaxTime
    /\ generation \in 0 .. MaxGeneration
    /\ allowedPairs \in [Pairs -> Expiries]
    /\ deniedPairs \in [Pairs -> Expiries]
    /\ pendingDecisions \in [Pairs -> Decisions \cup {None}]
    /\ decision \in [Decisions -> DecisionRecord]
    /\ call \in [Calls -> {"new", "waiting", "true", "false", "rejected"}]
    /\ awaits \in [Calls -> Decisions \cup {None}]
    /\ current \in SUBSET Decisions

-----------------------------------------------------------------------------
(* The caches.  An operator named Faulty... is a wrong variant of the operator *)
(* after it, kept to show which property notices; nothing uses it.           *)

IsLive(cache, p) == cache[p] > now

\* isLive drops what has expired.
DropExpired(cache, p) == [cache EXCEPT ![p] = IF @ > now THEN @ ELSE 0]

Insert(cache, p, expiry) == [cache EXCEPT ![p] = IF expiry = 0 THEN @ ELSE expiry]

-----------------------------------------------------------------------------
(* normalizeAuthorizationResult *)

ClassTtl(verdict) == IF verdict = "allow" THEN AllowTtl ELSE DenyTtl

\* A finite override must have a representable expiry.
Malformed(a) == \/ a.verdict = "error"
                \/ a.ttl \in Ttls \ {0} /\ now + a.ttl > MaxSafe

\* expiresAt, 0 when the result is not to be cached
ExpiresAt(a) ==
    LET ttl == IF a.ttl = Omitted THEN ClassTtl(a.verdict) ELSE a.ttl
    IN  IF ttl \in {0, Forever} THEN ttl ELSE now + ttl

-----------------------------------------------------------------------------
Init ==
    /\ now = 0
    /\ generation = 0
    /\ allowedPairs = [p \in Pairs |-> 0]
    /\ deniedPairs = [p \in Pairs |-> 0]
    /\ pendingDecisions = [p \in Pairs |-> None]
    /\ decision = [d \in Decisions |-> [phase |-> "unused", pair |-> None, generation |-> 0,
                                        revoked |-> FALSE, answer |-> NoAnswer]]
    /\ call = [c \in Calls |-> "new"]
    /\ awaits = [c \in Calls |-> None]
    /\ current = {}

Tick ==
    /\ now < MaxTime
    /\ now' = now + 1
    /\ UNCHANGED <<generation, allowedPairs, deniedPairs, pendingDecisions, decision,
                   call, awaits, current>>

-----------------------------------------------------------------------------
(* authorizeHop *)

\* A live allow answers first, then a live deny.
CallCached(c) ==
    LET p == CallPair[c]
    IN  /\ call[c] = "new"
        /\ IsLive(allowedPairs, p) \/ IsLive(deniedPairs, p)
        /\ allowedPairs' = DropExpired(allowedPairs, p)
        /\ call' = [call EXCEPT ![c] = IF IsLive(allowedPairs, p) THEN "true" ELSE "false"]
        /\ UNCHANGED <<now, generation, deniedPairs, pendingDecisions, decision, awaits, current>>

Miss(p) == ~IsLive(allowedPairs, p) /\ ~IsLive(deniedPairs, p)

DropBoth(p) ==
    /\ allowedPairs' = DropExpired(allowedPairs, p)
    /\ deniedPairs' = DropExpired(deniedPairs, p)

\* Single flight: the call shares the decision that is pending ...
CallJoins(c) ==
    LET p == CallPair[c]
    IN  /\ call[c] = "new"
        /\ Miss(p)
        /\ pendingDecisions[p] # None
        /\ DropBoth(p)
        /\ call' = [call EXCEPT ![c] = "waiting"]
        /\ awaits' = [awaits EXCEPT ![c] = pendingDecisions[p]]
        /\ UNCHANGED <<now, generation, pendingDecisions, decision, current>>

\* ... or invokes the callback.
FaultyRemember(p, d) == UNCHANGED pendingDecisions

Remember(p, d) == pendingDecisions' = [pendingDecisions EXCEPT ![p] = d]

CallAsks(c, d) ==
    LET p == CallPair[c]
    IN  /\ call[c] = "new"
        /\ Miss(p)
        /\ pendingDecisions[p] = None
        /\ decision[d].phase = "unused"
        /\ DropBoth(p)
        /\ Remember(p, d)
        /\ decision' = [decision EXCEPT ![d] = [phase |-> "asked", pair |-> p,
                                                generation |-> generation,
                                                revoked |-> FALSE, answer |-> NoAnswer]]
        /\ call' = [call EXCEPT ![c] = "waiting"]
        /\ awaits' = [awaits EXCEPT ![c] = d]
        /\ current' = current \cup {d}
        /\ UNCHANGED <<now, generation>>

\* The policy callback returns or throws.
CallbackAnswers(d, a) ==
    /\ decision[d].phase = "asked"
    /\ decision' = [decision EXCEPT ![d].phase = "answered", ![d].answer = a]
    /\ UNCHANGED <<now, generation, allowedPairs, deniedPairs, pendingDecisions, call,
                   awaits, current>>

-----------------------------------------------------------------------------
(* The continuation of the callback *)

IsStale(d) == decision[d].revoked \/ decision[d].generation # generation

\* What the shared promise resolves to.
FaultyStaleVerdict(a) == IF a.verdict = "allow" THEN "true" ELSE "false"

StaleVerdict(a) == "false"

Verdict(d) ==
    LET a == decision[d].answer
    IN  IF Malformed(a) THEN "rejected"
        ELSE IF IsStale(d) THEN StaleVerdict(a)
        ELSE IF a.verdict = "allow" THEN "true" ELSE "false"

FaultyResolve(d) ==
    call' = [c \in Calls |-> IF awaits[c] = d /\ call[c] = "waiting" /\ ~IsStale(d)
                             THEN Verdict(d) ELSE call[c]]

Resolve(d) ==
    call' = [c \in Calls |-> IF awaits[c] = d /\ call[c] = "waiting" THEN Verdict(d) ELSE call[c]]

\* Only a well-formed answer that is not stale is cached.
Cache(d) ==
    LET a == decision[d].answer
        p == decision[d].pair
        keep == ~Malformed(a) /\ ~IsStale(d)
    IN  /\ allowedPairs' = IF keep /\ a.verdict = "allow"
                           THEN Insert(allowedPairs, p, ExpiresAt(a)) ELSE allowedPairs
        /\ deniedPairs' = IF keep /\ a.verdict = "deny"
                          THEN Insert(deniedPairs, p, ExpiresAt(a)) ELSE deniedPairs

\* finally: the entry is deleted unless another decision has taken its place.
FaultyForget(d) == pendingDecisions' = [pendingDecisions EXCEPT ![decision[d].pair] = None]

Forget(d) ==
    pendingDecisions' = [pendingDecisions EXCEPT ![decision[d].pair] = IF @ = d THEN None ELSE @]

Settle(d) ==
    /\ decision[d].phase = "answered"
    /\ decision' = [decision EXCEPT ![d].phase = "settled"]
    /\ Resolve(d)
    /\ Cache(d)
    /\ Forget(d)
    /\ UNCHANGED <<now, generation, awaits, current>>

-----------------------------------------------------------------------------
(* Revocation *)

RevokePair(p) ==
    /\ decision' = [d \in Decisions |-> IF pendingDecisions[p] = d
                                        THEN [decision[d] EXCEPT !.revoked = TRUE]
                                        ELSE decision[d]]
    /\ pendingDecisions' = [pendingDecisions EXCEPT ![p] = None]
    /\ allowedPairs' = [allowedPairs EXCEPT ![p] = 0]
    /\ deniedPairs' = [deniedPairs EXCEPT ![p] = 0]
    /\ current' = {d \in current : decision[d].pair # p}
    /\ UNCHANGED <<now, generation, call, awaits>>

\* Every change of routes, imports and links, and Host shutdown.
Invalidate ==
    /\ generation < MaxGeneration
    /\ generation' = generation + 1
    /\ allowedPairs' = [p \in Pairs |-> 0]
    /\ deniedPairs' = [p \in Pairs |-> 0]
    /\ current' = {}
    /\ UNCHANGED <<now, pendingDecisions, decision, call, awaits>>

-----------------------------------------------------------------------------
CallSteps == \E c \in Calls : \/ CallCached(c)
                              \/ CallJoins(c)
                              \/ \E d \in Decisions : CallAsks(c, d)

DecisionSteps == \E d \in Decisions : \/ \E a \in Answers : CallbackAnswers(d, a)
                                      \/ Settle(d)

Next == Tick \/ CallSteps \/ DecisionSteps \/ Invalidate \/ \E p \in Pairs : RevokePair(p)

Spec == Init /\ [][Next]_vars

\* Node runs the continuation of a settled callback; the callback itself may
\* never return.
FairSpec == Spec /\ \A d \in Decisions : WF_vars(Settle(d))

-----------------------------------------------------------------------------
(* Properties *)

\* The policy's current word on p: a decision asked since the last revocation of
\* the pair and the last invalidation.
Said(p, verdict) ==
    \E d \in current : /\ decision[d].pair = p
                       /\ decision[d].phase = "settled"
                       /\ decision[d].answer.verdict = verdict

\* That word allows an entry to live until expiry: one past MaxSafe takes an
\* answer that named no TTL, or the infinite one.
Backed(p, verdict, expiry) ==
    \E d \in current : /\ decision[d].pair = p
                       /\ decision[d].phase = "settled"
                       /\ decision[d].answer.verdict = verdict
                       /\ expiry <= MaxSafe \/ decision[d].answer.ttl \in {Omitted, Forever}

\* Nothing stale is cached: a decision that a revocation or an invalidation
\* overtook never (re)populates either cache; and no TTL of the policy makes an
\* expiry that cannot be represented.
CacheIsCurrent ==
    \A p \in Pairs : /\ allowedPairs[p] > 0 => Backed(p, "allow", allowedPairs[p])
                     /\ deniedPairs[p] > 0 => Backed(p, "deny", deniedPairs[p])

\* The caches never contradict each other.
OneVerdict == \A p \in Pairs : ~(IsLive(allowedPairs, p) /\ IsLive(deniedPairs, p))

\* Single flight: two callback invocations for a pair run at once only when the
\* pair was revoked in between.
SingleFlight ==
    \A d, e \in Decisions :
        /\ decision[d].phase \in {"asked", "answered"} /\ ~decision[d].revoked
        /\ decision[e].phase \in {"asked", "answered"} /\ ~decision[e].revoked
        /\ decision[d].pair = decision[e].pair
        => d = e

\* No hop is authorized by a stale decision, cached or pending: whenever a call
\* resolves to true, the policy has said so since the last revocation and the
\* last invalidation.
AllowedIsCurrent ==
    [][\A c \in Calls : call[c] # "true" /\ call'[c] = "true" => Said(CallPair[c], "allow")']_vars

\* Every call that waits for a decision gets its result once the callback has
\* answered, revoked or not.
AnsweredCallSettles ==
    \A c \in Calls, d \in Decisions :
        call[c] = "waiting" /\ awaits[c] = d /\ decision[d].phase = "answered"
            ~> call[c] # "waiting"

-----------------------------------------------------------------------------
(* Strengthenings the proofs of RouteAuthorizerProofs need *)

InFlight(d) == decision[d].phase \in {"asked", "answered"}

\* Every decision asked has a pair; every answer that is in is well-typed.
DecisionSound ==
    \A d \in Decisions :
        /\ decision[d].phase # "unused" => decision[d].pair \in Pairs
        /\ decision[d].phase = "answered" => decision[d].answer \in Answers
        /\ decision[d].generation <= generation

\* pendingDecisions holds exactly the decisions in flight that nobody revoked.
PendingExact ==
    /\ \A p \in Pairs, d \in Decisions :
          pendingDecisions[p] = d
            => InFlight(d) /\ decision[d].pair = p /\ ~decision[d].revoked
    /\ \A d \in Decisions :
          InFlight(d) /\ ~decision[d].revoked => pendingDecisions[decision[d].pair] = d

\* The callback runs only for pairs without a live cached answer.
PendingIsMiss == \A p \in Pairs : pendingDecisions[p] # None => Miss(p)

\* The code's staleness test finds every decision that was overtaken.
StaleIsFound == \A d \in Decisions : InFlight(d) /\ ~IsStale(d) => d \in current

\* A waiting call waits for a decision about its own pair.
AwaitsSound ==
    \A c \in Calls : call[c] = "waiting" =>
        /\ awaits[c] \in Decisions
        /\ decision[awaits[c]].phase # "unused"
        /\ decision[awaits[c]].pair = CallPair[c]

FlightInv == TypeOK /\ DecisionSound /\ PendingExact

AuthorizerInv == /\ FlightInv
                 /\ PendingIsMiss
                 /\ StaleIsFound
                 /\ AwaitsSound
                 /\ CacheIsCurrent
                 /\ OneVerdict
=============================================================================
