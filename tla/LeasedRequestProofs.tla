-------------------------- MODULE LeasedRequestProofs --------------------------
(***************************************************************************)
(* Proofs about GuestDispatch and LeasedRequest, for any number of chunks   *)
(* and of writes after the end: every step of the Guest, of the Host's     *)
(* relay and of the lease between them keeps RelayInv.  And about NodeGuest *)
(* for any number of streams and any limits: every step of the Guest keeps *)
(* the size of its pool.                                                   *)
(***************************************************************************)
EXTENDS LeasedRequest, NodeGuest, ArrayProofs, FiniteSetTheorems, TLAPS

Parts == {"response", "error", "data"}
LeaseEvents == {"aborted", "error", "close"}
Codes == {"none", "no_error", "cancel", "internal"}

(* GuestInv in two halves: the lease, and what the dispatch knows of it. *)
WellFormed(w) ==
    /\ \A i \in 1..Len(w) : w[i] # "data" <=> i = 1
    /\ w # <<>> /\ w[1] = "error" => Len(w) = 1

LeaseOK ==
    /\ wire \in Seq(Parts) /\ ended \in BOOLEAN /\ rst \in Codes
    /\ events \in Seq(LeaseEvents) /\ selfCancelled \in BOOLEAN
    /\ WellFormed(wire)
    /\ wire # <<>> /\ wire[1] = "response" /\ ended => response.finished
    /\ rst = "none" /\ ~ended => (response.started <=> wire # <<>>)
    /\ ~ended /\ wire # <<>> => wire[1] = "response"
    /\ rst = "none" => \A i \in DOMAIN events : events[i] = "error"
    /\ selfCancelled => rst # "none"

HandlerOK ==
    /\ phase \in Phases
    /\ response \in [started : BOOLEAN, finished : BOOLEAN, destroyed : BOOLEAN,
                     commitFailed : BOOLEAN, errorEmitted : BOOLEAN]
    /\ completed \in BOOLEAN /\ transportTerminated \in BOOLEAN /\ requestFailureNotified \in BOOLEAN
    /\ told \in 0..2 /\ late \in 0..MaxLate
    /\ completed \/ phase \in {"loose", "unhandled"} => ended \/ rst # "none"
    /\ HandlerTold
    /\ phase = "start" => ~response.started /\ ~ended
    /\ transportTerminated => rst # "none"
    /\ ToldCounts

LEMMA GuestInvParts == GuestInv <=> LeaseOK /\ HandlerOK
<1>1. WireTrusted <=> /\ WellFormed(wire)
                      /\ wire # <<>> /\ wire[1] = "response" /\ ended
                            => response.finished
  BY DEF WireTrusted, WellFormed
<1> QED
  BY <1>1 DEF GuestInv, TypeOK, LeaseContract, StartedIsWritten, ClosedIsKnown, NoLeaseLeftOpen,
              Open, LeaseOK, HandlerOK, Parts, LeaseEvents, Codes

LEMMA GuestInvNext == LeaseOK' /\ HandlerOK' => GuestInv'
BY DEF GuestInv, TypeOK, LeaseContract, WireTrusted, StartedIsWritten, ClosedIsKnown,
       NoLeaseLeftOpen, Open, LeaseOK, HandlerOK, Parts, LeaseEvents, Codes, WellFormed

(* What is on the wire stays there, and nothing follows the end. *)
WireKept ==
    /\ ended => ended' /\ wire' = wire
    /\ wire # <<>> => wire' # <<>> /\ wire'[1] = wire[1]
    /\ response.finished => response'.finished
    /\ rst # "none" => rst' = rst /\ ended' = ended

----------------------------------------------------------------------------
(* The lease *)

(* A response may begin on an empty wire and goes on with data. *)
LEMMA WireGrows ==
    ASSUME NEW w \in Seq(Parts), WellFormed(w),
           NEW envelope \in {<<>>, <<"response">>}, NEW x \in {<<>>, <<"data">>},
           envelope = <<>> <=> w # <<>>,
           w # <<>> => w[1] = "response"
    PROVE  /\ w \o (envelope \o x) \in Seq(Parts)
           /\ (w \o envelope) \o x = w \o (envelope \o x)
           /\ WellFormed(w \o (envelope \o x))
           /\ w \o (envelope \o x) # <<>>
           /\ (w \o (envelope \o x))[1] = "response"
<1> DEFINE u == IF w = <<>> THEN <<"response">> ELSE w
<1>1. u \in Seq(Parts) /\ u # <<>> /\ u[1] = "response" /\ WellFormed(u) /\ Len(u) \in Nat \ {0}
  <2>1. <<"response">> \in Seq(Parts) /\ WellFormed(<<"response">>)
    BY DEF Parts, WellFormed
  <2> QED
    BY <2>1
<1>2. w \o (envelope \o x) = u \o x /\ (w \o envelope) \o x = u \o x
  <2>1. CASE w = <<>>
    <3>1. envelope = <<"response">> /\ u = envelope
      BY <2>1
    <3>2. <<>> \o (envelope \o x) = envelope \o x /\ <<>> \o envelope = envelope
      BY <3>1
    <3> QED
      BY <2>1, <3>1, <3>2
  <2>2. CASE w # <<>>
    <3>1. envelope = <<>> /\ u = w
      BY <2>2
    <3>2. <<>> \o x = x /\ w \o <<>> = w
      OBVIOUS
    <3> QED
      BY <3>1, <3>2
  <2> QED
    BY <2>1, <2>2
<1> HIDE DEF u
<1>3. CASE x = <<>>
  <2>1. u \o x = u
    BY <1>1, <1>3
  <2> QED
    BY <1>1, <1>2, <2>1
<1>4. CASE x = <<"data">>
  <2>1. "data" \in Parts
    BY DEF Parts
  <2>2. /\ u \o x = Append(u, "data") /\ Append(u, "data") \in Seq(Parts)
        /\ Len(Append(u, "data")) = Len(u) + 1
        /\ \A i \in 1..Len(u) : Append(u, "data")[i] = u[i]
        /\ Append(u, "data")[Len(u) + 1] = "data"
        /\ Append(u, "data") # <<>>
    BY <1>1, <1>4, <2>1, AppendIndexes
  <2>3. 1 \in 1..Len(u) /\ Append(u, "data")[1] = "response"
    BY <1>1, <2>2
  <2>4. \A i \in 1..(Len(u) + 1) : Append(u, "data")[i] # "data" <=> i = 1
    BY <1>1, <2>2 DEF WellFormed
  <2>5. WellFormed(Append(u, "data"))
    BY <2>2, <2>3, <2>4 DEF WellFormed
  <2> QED
    BY <1>2, <2>2, <2>3, <2>5
<1> QED
  BY <1>3, <1>4

LEMMA EventsOfType ==
    ASSUME NEW code
    PROVE  EventsOf(code) \in Seq(LeaseEvents)
<1>1. /\ <<>> \in Seq(LeaseEvents) /\ <<"aborted">> \in Seq(LeaseEvents)
      /\ <<"error">> \in Seq(LeaseEvents) /\ <<"close">> \in Seq(LeaseEvents)
  BY DEF LeaseEvents
<1>2. \A s, t \in Seq(LeaseEvents) : s \o t \in Seq(LeaseEvents)
  OBVIOUS
<1> QED
  BY <1>1, <1>2 DEF EventsOf

(* A lease that is closed, by whomever, stays as it is. *)
LEMMA CloseKeepsLease ==
    ASSUME LeaseOK, NEW code \in Codes \ {"none"}, CloseWith(code), UNCHANGED <<wire, ended>>,
           selfCancelled' \in BOOLEAN, selfCancelled => selfCancelled',
           response'.finished = response.finished
    PROVE  LeaseOK' /\ rst' # "none" /\ (rst # "none" => rst' = rst)
<1>1. rst' \in Codes /\ rst' # "none" /\ (rst # "none" => rst' = rst)
  BY DEF LeaseOK, CloseWith, Open, Codes
<1>2. events' \in Seq(LeaseEvents)
  <2>1. \A s, t \in Seq(LeaseEvents) : s \o t \in Seq(LeaseEvents)
    OBVIOUS
  <2> QED
    BY <2>1, EventsOfType DEF LeaseOK, CloseWith
<1>3. WellFormed(wire)'
  BY DEF LeaseOK
<1> QED
  BY <1>1, <1>2, <1>3 DEF LeaseOK

(* stream.end() with an error envelope that comes first, or with the rest   *)
(* of a response that is finished by it.                                    *)
LEMMA EndKeepsLease ==
    ASSUME LeaseOK, NEW frames, EndWith(frames), selfCancelled' = selfCancelled,
           \/ /\ frames = <<"error">> /\ ~response.started
              /\ response'.started = response.started /\ response'.finished = response.finished
           \/ /\ \E x \in {<<>>, <<"data">>} : frames = Envelope \o x
              /\ response'.started /\ response'.finished
    PROVE  /\ LeaseOK' /\ (ended' \/ rst' # "none") /\ rst' = rst
           /\ WireKept
<1>1. CASE rst # "none"
  <2>1. UNCHANGED <<wire, ended, rst, events>>
    BY <1>1 DEF EndWith, Open
  <2>2. WellFormed(wire)'
    BY <2>1 DEF LeaseOK
  <2>3. wire' # <<>> /\ wire'[1] = "response" /\ ended' /\ ~selfCancelled' => response'.finished
    BY <2>1 DEF LeaseOK
  <2> QED
    BY <1>1, <2>1, <2>2, <2>3 DEF LeaseOK, WireKept
<1>2. CASE rst = "none" /\ ended
  <2>1. UNCHANGED <<wire, rst>> /\ ended' = TRUE
        /\ (events' = events \/ events' = Append(events, "error"))
    BY <1>2 DEF EndWith, Open
  <2>2. /\ Append(events, "error") \in Seq(LeaseEvents)
        /\ (\A i \in DOMAIN events : events[i] = "error")
             => \A i \in DOMAIN Append(events, "error") : Append(events, "error")[i] = "error"
    BY DEF LeaseOK, LeaseEvents
  <2>3. WellFormed(wire)'
    BY <2>1 DEF LeaseOK
  <2> QED
    BY <1>2, <2>1, <2>2, <2>3 DEF LeaseOK, WireKept
<1>3. CASE rst = "none" /\ ~ended
  <2>1. UNCHANGED <<events, rst>> /\ ended' = TRUE /\ wire' = wire \o frames
    BY <1>3 DEF EndWith, Open
  <2>2. CASE frames = <<"error">> /\ ~response.started
    <3>1. wire = <<>>
      BY <1>3, <2>2 DEF LeaseOK
    <3>2. wire' = <<"error">>
      BY <2>1, <2>2, <3>1
    <3>3. wire' \in Seq(Parts) /\ WellFormed(wire') /\ wire'[1] = "error"
      BY <3>2 DEF WellFormed, Parts
    <3> QED
      BY <1>3, <2>1, <3>1, <3>3 DEF LeaseOK, WireKept
  <2>3. CASE (\E x \in {<<>>, <<"data">>} : frames = Envelope \o x) /\ response'.started
              /\ response'.finished
    <3>1. PICK x \in {<<>>, <<"data">>} : frames = Envelope \o x
      BY <2>3
    <3>2. /\ Envelope \in {<<>>, <<"response">>} /\ (Envelope = <<>> <=> wire # <<>>)
          /\ wire # <<>> => wire[1] = "response"
          /\ wire \in Seq(Parts) /\ WellFormed(wire)
      BY <1>3 DEF LeaseOK, Envelope
    <3>3. LET w == wire \o (Envelope \o x) IN
            w \in Seq(Parts) /\ WellFormed(w) /\ w # <<>> /\ w[1] = "response"
      BY <3>1, <3>2, WireGrows
    <3>4. wire' = wire \o (Envelope \o x)
      BY <2>1, <3>1
    <3>5. wire' \in Seq(Parts) /\ WellFormed(wire') /\ wire' # <<>> /\ wire'[1] = "response"
      BY <3>3, <3>4, Zenon
    <3> QED
      BY <1>3, <2>1, <2>3, <3>2, <3>5 DEF LeaseOK, WireKept
  <2> QED
    BY <2>2, <2>3
<1>4. rst = "none" \/ rst # "none"
  OBVIOUS
<1>5. ended \in BOOLEAN
  BY DEF LeaseOK
<1> QED
  BY <1>1, <1>2, <1>3, <1>4, <1>5

(* Both failure paths leave a lease that is ended or closed. *)
LEMMA AnswerKeepsLease ==
    ASSUME LeaseOK, AnswerFailure, response.started \in BOOLEAN,
           response'.started = response.started, response'.finished = response.finished
    PROVE  /\ LeaseOK' /\ (ended' \/ rst' # "none") /\ (rst # "none" => rst' = rst)
           /\ WireKept /\ (selfCancelled => selfCancelled')
<1>1. CASE response.started
  <2>1. selfCancelled' = TRUE /\ CloseWith("cancel") /\ UNCHANGED <<wire, ended>>
    BY <1>1 DEF AnswerFailure
  <2>2. LeaseOK' /\ rst' # "none" /\ (rst # "none" => rst' = rst)
    BY <2>1, CloseKeepsLease DEF Codes
  <2> QED
    BY <2>1, <2>2 DEF WireKept
<1>2. CASE ~response.started
  <2>1. EndWith(<<"error">>) /\ selfCancelled' = selfCancelled
    BY <1>2 DEF AnswerFailure
  <2> QED
    BY <1>2, <2>1, EndKeepsLease
<1> QED
  BY <1>1, <1>2

----------------------------------------------------------------------------
(* The dispatch *)

(* What the dispatch knows stays right while only the lease moves on. *)
LEMMA HandlerKept ==
    ASSUME HandlerOK, UNCHANGED <<phase, response, completed, transportTerminated>>,
           UNCHANGED <<requestFailureNotified, told, late>>,
           selfCancelled => selfCancelled', ended => ended', rst # "none" => rst' # "none",
           phase = "start" => ended' = ended
    PROVE  HandlerOK'
BY DEF HandlerOK, HandlerTold, ToldCounts

(* The flags of a response that no failure touches. *)
SameResponse ==
    /\ response' \in [started : BOOLEAN, finished : BOOLEAN, destroyed : BOOLEAN,
                      commitFailed : BOOLEAN, errorEmitted : BOOLEAN]
    /\ response'.started = response.started /\ response'.finished = response.finished
    /\ response'.destroyed = response.destroyed /\ response'.errorEmitted = response.errorEmitted

(* The 'error' listener of the response. *)
LEMMA ResponseErrorKeeps ==
    ASSUME GuestInv, ResponseError, SameResponse, UNCHANGED <<requestFailureNotified, told, late>>,
           phase \in {"sync", "async", "loose"}, phase' \in {"sync", "async", "loose"},
           phase' = "loose" => phase = "loose" \/ phase = "async"
    PROVE  GuestInv' /\ WireKept
<1> DEFINE terminated == transportTerminated \/ rst \in {"cancel", "internal"}
<1>1. LeaseOK /\ HandlerOK /\ terminated \in BOOLEAN /\ completed \in BOOLEAN
  BY GuestInvParts DEF HandlerOK
<1>2. transportTerminated' = terminated /\ (terminated => rst # "none")
  BY <1>1 DEF ResponseError, HandlerOK
<1>3. CASE completed \/ terminated
  <2>1. UNCHANGED <<completed, selfCancelled, wire, ended, rst, events>>
    BY <1>3 DEF ResponseError
  <2>2. WellFormed(wire)'
    BY <2>1, <1>1 DEF LeaseOK
  <2>3. LeaseOK'
    BY <2>1, <2>2, <1>1 DEF LeaseOK, SameResponse
  <2>4. ended' \/ rst' # "none"
    BY <1>1, <1>2, <1>3, <2>1 DEF HandlerOK
  <2>5. HandlerOK'
    BY <1>1, <1>2, <2>1, <2>4 DEF HandlerOK, HandlerTold, ToldCounts, SameResponse, Phases
  <2> QED
    BY <2>1, <2>3, <2>5, GuestInvNext DEF WireKept, SameResponse
<1>4. CASE ~(completed \/ terminated)
  <2>1. completed' = TRUE /\ AnswerFailure
    BY <1>4 DEF ResponseError
  <2>2. /\ LeaseOK' /\ (ended' \/ rst' # "none") /\ (rst # "none" => rst' = rst)
        /\ WireKept /\ (selfCancelled => selfCancelled')
    BY <1>1, <2>1, AnswerKeepsLease DEF SameResponse, HandlerOK
  <2>3. HandlerOK'
    BY <1>1, <1>2, <2>1, <2>2 DEF HandlerOK, HandlerTold, ToldCounts, SameResponse, Phases
  <2> QED
    BY <2>2, <2>3, GuestInvNext
<1> QED
  BY <1>1, <1>3, <1>4

LEMMA DispatchKeeps ==
    ASSUME GuestInv, dispatchLeasedRequest
    PROVE  GuestInv' /\ WireKept
<1>1. LeaseOK /\ HandlerOK /\ UNCHANGED <<response, flags, told, late>> /\ phase = "start"
  BY GuestInvParts DEF dispatchLeasedRequest
<1>2. /\ UNCHANGED <<completed, transportTerminated, selfCancelled, requestFailureNotified>>
      /\ ~response.started
  BY <1>1 DEF flags, HandlerOK
<1>3. CASE phase' = "unhandled" /\ EndWith(<<"error">>)
  <2>1. /\ LeaseOK' /\ (ended' \/ rst' # "none") /\ rst' = rst /\ WireKept
    BY <1>1, <1>2, <1>3, EndKeepsLease
  <2>2. HandlerOK'
    BY <1>1, <1>2, <1>3, <2>1 DEF HandlerOK, HandlerTold, ToldCounts, Phases
  <2> QED
    BY <2>1, <2>2, GuestInvNext
<1>4. CASE phase' = "sync" /\ UNCHANGED <<wire, ended, rst, events>>
  <2>1. LeaseOK' /\ WireKept
    BY <1>1, <1>2, <1>4 DEF LeaseOK, WireKept, WellFormed
  <2>2. HandlerOK'
    BY <1>1, <1>2, <1>4 DEF HandlerOK, HandlerTold, ToldCounts, Phases
  <2> QED
    BY <2>1, <2>2, GuestInvNext
<1> QED
  BY <1>3, <1>4 DEF dispatchLeasedRequest

LEMMA CommitFailsKeeps ==
    ASSUME GuestInv, CommitFails
    PROVE  GuestInv' /\ WireKept
<1>1. HandlerOK /\ phase \in {"sync", "async", "loose"} /\ phase' = phase
  BY GuestInvParts DEF CommitFails, Running
<1>2. SameResponse
  BY <1>1 DEF SameResponse, CommitFails, HandlerOK
<1> QED
  BY <1>1, <1>2, ResponseErrorKeeps DEF CommitFails

LEMMA WriteKeeps ==
    ASSUME GuestInv, NEW x \in {<<>>, <<"data">>}, write(x)
    PROVE  GuestInv' /\ WireKept
<1>1. /\ LeaseOK /\ HandlerOK /\ phase \in {"sync", "async", "loose"}
      /\ UNCHANGED <<phase, ended, rst, told>>
      /\ UNCHANGED <<completed, transportTerminated, selfCancelled, requestFailureNotified>>
      /\ response' = [response EXCEPT !.started = TRUE]
  BY GuestInvParts DEF write, Running, flags
<1>2. /\ response' \in [started : BOOLEAN, finished : BOOLEAN, destroyed : BOOLEAN,
                        commitFailed : BOOLEAN, errorEmitted : BOOLEAN]
      /\ response'.started /\ response'.finished = response.finished
      /\ response'.destroyed = response.destroyed /\ response'.errorEmitted = response.errorEmitted
  BY <1>1 DEF HandlerOK
<1>3. late' \in 0..MaxLate
  BY <1>1, DispatchConstants DEF write, HandlerOK
<1>4. HandlerOK'
  BY <1>1, <1>2, <1>3 DEF HandlerOK, HandlerTold, ToldCounts
<1>5. CASE ended
  <2>1. wire' = wire /\ events' = IF rst = "none" THEN Append(events, "error") ELSE events
    BY <1>5 DEF write, Open
  <2>2. /\ Append(events, "error") \in Seq(LeaseEvents)
        /\ (\A i \in DOMAIN events : events[i] = "error")
             => \A i \in DOMAIN Append(events, "error") : Append(events, "error")[i] = "error"
    BY <1>1 DEF LeaseOK, LeaseEvents
  <2>3. LeaseOK'
    BY <1>1, <1>2, <1>5, <2>1, <2>2 DEF LeaseOK, WellFormed
  <2>4. WireKept
    BY <1>1, <1>2, <2>1 DEF WireKept
  <2> QED
    BY <1>4, <2>3, <2>4, GuestInvNext
<1>6. CASE ~ended /\ rst = "none"
  <2>1. wire' = (wire \o Envelope) \o x /\ events' = events
    BY <1>6 DEF write, Open
  <2>2. /\ Envelope \in {<<>>, <<"response">>} /\ (Envelope = <<>> <=> wire # <<>>)
        /\ wire # <<>> => wire[1] = "response"
        /\ wire \in Seq(Parts) /\ WellFormed(wire)
    BY <1>1, <1>6 DEF LeaseOK, Envelope
  <2>3. LET w == wire \o (Envelope \o x) IN
          /\ w \in Seq(Parts) /\ WellFormed(w) /\ w # <<>> /\ w[1] = "response"
          /\ (wire \o Envelope) \o x = w
    BY <2>2, WireGrows
  <2>4. wire' \in Seq(Parts) /\ WellFormed(wire') /\ wire' # <<>> /\ wire'[1] = "response"
    BY <2>1, <2>3, Zenon
  <2>5. LeaseOK'
    BY <1>1, <1>2, <1>6, <2>1, <2>4 DEF LeaseOK
  <2>6. WireKept
    BY <1>1, <1>2, <1>6, <2>2, <2>4 DEF WireKept
  <2> QED
    BY <1>4, <2>5, <2>6, GuestInvNext
<1>7. CASE ~ended /\ rst # "none"
  <2>1. wire' = wire /\ events' = events
    BY <1>7 DEF write, Open
  <2>2. LeaseOK'
    BY <1>1, <1>2, <1>7, <2>1 DEF LeaseOK, WellFormed
  <2>3. WireKept
    BY <1>1, <1>2, <2>1 DEF WireKept
  <2> QED
    BY <1>4, <2>2, <2>3, GuestInvNext
<1> QED
  BY <1>5, <1>6, <1>7

LEMMA EndKeeps ==
    ASSUME GuestInv, NEW x \in {<<>>, <<"data">>}, end(x)
    PROVE  GuestInv' /\ WireKept
<1>1. /\ LeaseOK /\ HandlerOK /\ phase \in {"sync", "async", "loose"} /\ phase' = phase
      /\ UNCHANGED <<transportTerminated, selfCancelled, requestFailureNotified, told, late>>
      /\ completed' = TRUE /\ EndWith(Envelope \o x)
      /\ response' = [response EXCEPT !.started = TRUE, !.finished = TRUE]
  BY GuestInvParts DEF end, Running
<1>2. /\ response' \in [started : BOOLEAN, finished : BOOLEAN, destroyed : BOOLEAN,
                        commitFailed : BOOLEAN, errorEmitted : BOOLEAN]
      /\ response'.started /\ response'.finished
      /\ response'.destroyed = response.destroyed /\ response'.errorEmitted = response.errorEmitted
  BY <1>1 DEF HandlerOK
<1>3. /\ LeaseOK' /\ (ended' \/ rst' # "none") /\ rst' = rst /\ WireKept
  BY <1>1, <1>2, EndKeepsLease
<1>4. HandlerOK'
  BY <1>1, <1>2, <1>3 DEF HandlerOK, HandlerTold, ToldCounts
<1> QED
  BY <1>3, <1>4, GuestInvNext

LEMMA HandlerEndsKeep ==
    ASSUME GuestInv, HandlerReturns \/ HandlerThrows \/ HandlerRejects
    PROVE  GuestInv' /\ WireKept
<1>1. LeaseOK /\ HandlerOK
  BY GuestInvParts
<1>2. CASE HandlerReturns
  <2>1. /\ phase = "sync" /\ phase' = "async"
        /\ UNCHANGED <<response, wire, ended, rst, events, told, late>>
        /\ UNCHANGED <<completed, transportTerminated, selfCancelled, requestFailureNotified>>
    BY <1>2 DEF HandlerReturns, flags
  <2>2. LeaseOK' /\ WireKept
    BY <1>1, <2>1 DEF LeaseOK, WireKept, WellFormed
  <2>3. HandlerOK'
    BY <1>1, <2>1 DEF HandlerOK, HandlerTold, ToldCounts, Phases
  <2> QED
    BY <2>2, <2>3, GuestInvNext
<1>3. CASE HandlerThrows
  <2>1. /\ phase' = "loose" /\ AnswerFailure /\ phase = "sync"
        /\ UNCHANGED <<response, completed, transportTerminated, requestFailureNotified, told, late>>
    BY <1>3 DEF HandlerThrows
  <2>2. /\ LeaseOK' /\ (ended' \/ rst' # "none") /\ (rst # "none" => rst' = rst)
        /\ WireKept /\ (selfCancelled => selfCancelled')
    BY <1>1, <2>1, AnswerKeepsLease DEF HandlerOK
  <2>3. HandlerOK'
    BY <1>1, <2>1, <2>2 DEF HandlerOK, HandlerTold, ToldCounts, Phases
  <2> QED
    BY <2>2, <2>3, GuestInvNext
<1>4. CASE HandlerRejects
  <2>1. /\ phase = "async" /\ phase' = "loose" /\ ResponseError
        /\ UNCHANGED <<response, requestFailureNotified, told, late>>
    BY <1>4 DEF HandlerRejects
  <2>2. SameResponse
    BY <1>1, <2>1 DEF SameResponse, HandlerOK
  <2> QED
    BY <2>1, <2>2, ResponseErrorKeeps
<1> QED
  BY <1>2, <1>3, <1>4

(* The next event of the stream: an open lease has only errors to tell. *)
LEMMA NextEvent ==
    ASSUME LeaseOK, NEW e, Event(e)
    PROVE  /\ events # <<>> /\ Tail(events) \in Seq(LeaseEvents)
           /\ rst = "none" => /\ e = "error"
                              /\ \A i \in DOMAIN Tail(events) : Tail(events)[i] = "error"
<1>1. events \in Seq(LeaseEvents) /\ events # <<>> /\ Head(events) = e
  BY DEF LeaseOK, Event
<1>2. Tail(events) \in Seq(LeaseEvents)
  BY <1>1
<1>3. ASSUME rst = "none"
      PROVE  e = "error" /\ \A i \in DOMAIN Tail(events) : Tail(events)[i] = "error"
  <2>1. \A i \in DOMAIN events : events[i] = "error"
    BY <1>3 DEF LeaseOK
  <2> QED
    BY <1>1, <2>1
<1> QED
  BY <1>1, <1>2, <1>3

LEMMA AbortedKeeps ==
    ASSUME GuestInv, AbortedEvent
    PROVE  GuestInv' /\ WireKept
<1>1. /\ LeaseOK /\ HandlerOK /\ Event("aborted") /\ events' = Tail(events)
      /\ UNCHANGED <<phase, response, completed, selfCancelled, wire, ended, rst, late>>
  BY GuestInvParts DEF AbortedEvent
<1>2. Tail(events) \in Seq(LeaseEvents) /\ rst # "none"
  BY <1>1, NextEvent
<1>3. LeaseOK' /\ WireKept
  BY <1>1, <1>2 DEF LeaseOK, WireKept, WellFormed
<1>4. CASE selfCancelled \/ requestFailureNotified
  <2>1. UNCHANGED <<transportTerminated, requestFailureNotified, told>>
    BY <1>4 DEF AbortedEvent
  <2> QED
    BY <1>1, <1>3, <2>1, HandlerKept, GuestInvNext
<1>5. CASE ~(selfCancelled \/ requestFailureNotified)
  <2>1. /\ transportTerminated' = TRUE /\ requestFailureNotified' = (rst # "no_error")
        /\ told' = IF rst # "no_error" THEN told + 1 ELSE told
    BY <1>5 DEF AbortedEvent
  <2>2. told <= IF response.errorEmitted THEN 1 ELSE 0
    BY <1>1, <1>5 DEF HandlerOK, ToldCounts
  <2>3. told' \in 0..2
    BY <1>1, <2>1, <2>2 DEF HandlerOK
  <2>4. requestFailureNotified' \in BOOLEAN
    BY <2>1
  <2>5. ToldCounts'
    <3>1. CASE rst = "no_error"
      <4>1. requestFailureNotified' = FALSE /\ told' = told
        BY <2>1, <3>1
      <4> QED
        BY <1>1, <2>2, <4>1 DEF ToldCounts, HandlerOK
    <3>2. CASE rst # "no_error"
      <4>1. requestFailureNotified' = TRUE /\ told' = told + 1
        BY <2>1, <3>2
      <4> QED
        BY <1>1, <2>2, <4>1 DEF ToldCounts, HandlerOK
    <3> QED
      BY <3>1, <3>2
  <2>6. HandlerTold'
    BY <1>1, <2>1 DEF HandlerTold, HandlerOK
  <2>7. HandlerOK'
    BY <1>1, <1>2, <2>1, <2>3, <2>4, <2>5, <2>6 DEF HandlerOK
  <2> QED
    BY <1>3, <2>7, GuestInvNext
<1> QED
  BY <1>4, <1>5

LEMMA ErrorKeeps ==
    ASSUME GuestInv, ErrorEvent
    PROVE  GuestInv' /\ WireKept
<1>1. /\ LeaseOK /\ HandlerOK /\ Event("error")
      /\ UNCHANGED <<phase, requestFailureNotified, late, wire, ended>>
      /\ response' = [response EXCEPT !.errorEmitted = TRUE]
      /\ told' \in {told, IF response.errorEmitted THEN told ELSE told + 1}
  BY GuestInvParts DEF ErrorEvent
<1>2. /\ response' \in [started : BOOLEAN, finished : BOOLEAN, destroyed : BOOLEAN,
                        commitFailed : BOOLEAN, errorEmitted : BOOLEAN]
      /\ response'.started = response.started /\ response'.finished = response.finished
      /\ response'.destroyed = response.destroyed /\ response'.errorEmitted
  BY <1>1 DEF HandlerOK
<1>3. /\ Tail(events) \in Seq(LeaseEvents)
      /\ rst = "none" => \A i \in DOMAIN Tail(events) : Tail(events)[i] = "error"
  BY <1>1, NextEvent
<1>4. /\ told' \in 0..2 /\ told' >= told
      /\ told' <= (IF requestFailureNotified THEN 1 ELSE 0) + 1
  BY <1>1 DEF HandlerOK, ToldCounts
<1>5. ToldCounts'
  BY <1>1, <1>2, <1>4 DEF HandlerOK, ToldCounts
<1>6. WireKept
  <2>1. rst # "none" => rst' = rst
    BY DEF ErrorEvent, Open
  <2> QED
    BY <1>1, <1>2, <2>1 DEF WireKept
<1>7. CASE response.errorEmitted \/ completed \/ transportTerminated \/ rst \in {"cancel", "internal"}
  <2>1. /\ events' = Tail(events)
        /\ transportTerminated' = (transportTerminated
                                   \/ (~response.errorEmitted /\ rst \in {"cancel", "internal"}))
        /\ UNCHANGED <<completed, selfCancelled, wire, ended, rst>>
    BY <1>7 DEF ErrorEvent
  <2>2. LeaseOK'
    BY <1>1, <1>2, <1>3, <2>1 DEF LeaseOK, WellFormed
  <2>3. HandlerTold'
    BY <1>1, <1>2, <1>4, <2>1 DEF HandlerTold, HandlerOK
  <2>4. transportTerminated' \in BOOLEAN /\ (transportTerminated' => rst' # "none")
    BY <1>1, <2>1 DEF HandlerOK
  <2>5. HandlerOK'
    BY <1>1, <1>2, <1>4, <1>5, <2>1, <2>3, <2>4 DEF HandlerOK
  <2> QED
    BY <1>6, <2>2, <2>5, GuestInvNext
<1>8. CASE ~(response.errorEmitted \/ completed \/ transportTerminated
             \/ rst \in {"cancel", "internal"})
  <2>1. /\ completed' = TRUE /\ selfCancelled' = TRUE
        /\ rst' = IF rst = "none" THEN "cancel" ELSE rst
        /\ events' = Tail(events) \o (IF rst = "none" THEN EventsOf("cancel") ELSE <<>>)
        /\ transportTerminated' = transportTerminated
    BY <1>8 DEF ErrorEvent, Open
  <2>2. events' \in Seq(LeaseEvents)
    <3>1. \A s, u \in Seq(LeaseEvents) : s \o u \in Seq(LeaseEvents)
      OBVIOUS
    <3>2. <<>> \in Seq(LeaseEvents)
      OBVIOUS
    <3> QED
      BY <1>3, <2>1, <3>1, <3>2, EventsOfType
  <2>3. rst' \in Codes /\ rst' # "none"
    BY <1>1, <2>1 DEF LeaseOK, Codes
  <2>4. LeaseOK'
    BY <1>1, <1>2, <2>1, <2>2, <2>3 DEF LeaseOK, WellFormed
  <2>5. HandlerTold'
    BY <2>1 DEF HandlerTold
  <2>6. HandlerOK'
    BY <1>1, <1>2, <1>4, <1>5, <2>1, <2>3, <2>5 DEF HandlerOK
  <2> QED
    BY <1>6, <2>4, <2>6, GuestInvNext
<1> QED
  BY <1>7, <1>8

LEMMA CloseEventKeeps ==
    ASSUME GuestInv, CloseEvent
    PROVE  GuestInv' /\ WireKept
<1>1. /\ LeaseOK /\ HandlerOK /\ Event("close") /\ events' = Tail(events) /\ TellClosed
      /\ completed' = TRUE
      /\ UNCHANGED <<phase, selfCancelled, wire, ended, rst, late>>
      /\ response' = [response EXCEPT !.destroyed = TRUE,
                        !.errorEmitted = @ \/ (~response.finished /\ rst # "no_error")]
  BY GuestInvParts DEF CloseEvent
<1>2. /\ response' \in [started : BOOLEAN, finished : BOOLEAN, destroyed : BOOLEAN,
                        commitFailed : BOOLEAN, errorEmitted : BOOLEAN]
      /\ response'.started = response.started /\ response'.finished = response.finished
      /\ response.errorEmitted => response'.errorEmitted
  BY <1>1 DEF HandlerOK
<1>3. Tail(events) \in Seq(LeaseEvents) /\ rst # "none"
  BY <1>1, NextEvent
<1>4. LeaseOK' /\ WireKept
  BY <1>1, <1>2, <1>3 DEF LeaseOK, WireKept, WellFormed
<1>5. CASE response.finished \/ selfCancelled
  <2>1. UNCHANGED <<transportTerminated, requestFailureNotified, told>>
    BY <1>1, <1>5 DEF TellClosed
  <2>2. HandlerTold'
    BY <1>1, <1>2, <1>5 DEF HandlerTold
  <2>3. ToldCounts'
    BY <1>1, <1>2, <2>1 DEF ToldCounts, HandlerOK
  <2>4. HandlerOK'
    BY <1>1, <1>2, <1>3, <2>1, <2>2, <2>3 DEF HandlerOK
  <2> QED
    BY <1>4, <2>4, GuestInvNext
<1>6. CASE ~(response.finished \/ selfCancelled)
  <2>1. /\ transportTerminated' = TRUE /\ requestFailureNotified' = TRUE
        /\ told' = IF requestFailureNotified THEN told ELSE told + 1
    BY <1>1, <1>6 DEF TellClosed
  <2>2. told' \in 0..2 /\ told' >= 1
        /\ told' <= 1 + (IF response.errorEmitted THEN 1 ELSE 0)
    BY <1>1, <2>1 DEF HandlerOK, ToldCounts
  <2>3. HandlerTold'
    BY <2>2 DEF HandlerTold
  <2>4. ToldCounts'
    BY <1>1, <1>2, <2>1, <2>2 DEF ToldCounts, HandlerOK
  <2>5. HandlerOK'
    BY <1>1, <1>2, <1>3, <2>1, <2>2, <2>3, <2>4 DEF HandlerOK
  <2> QED
    BY <1>4, <2>5, GuestInvNext
<1> QED
  BY <1>5, <1>6

(* Every step of the Guest keeps its contract and what it has written. *)
LEMMA GuestStepKeeps ==
    ASSUME GuestInv, GuestStep
    PROVE  GuestInv' /\ WireKept
BY DispatchKeeps, CommitFailsKeeps, WriteKeeps, EndKeeps, HandlerEndsKeep, AbortedKeeps, ErrorKeeps,
   CloseEventKeeps DEF GuestStep

(* And so does whoever else closes the lease. *)
LEMMA OutsideCloseKeeps ==
    ASSUME GuestInv, NEW code \in Codes \ {"none"}, CloseWith(code),
           UNCHANGED <<phase, response, flags, wire, ended, told, late>>
    PROVE  GuestInv' /\ WireKept
<1>1. /\ LeaseOK /\ HandlerOK
      /\ UNCHANGED <<phase, response, wire, ended, told, late>>
      /\ UNCHANGED <<completed, transportTerminated, selfCancelled, requestFailureNotified>>
      /\ selfCancelled \in BOOLEAN
  BY GuestInvParts DEF flags, LeaseOK
<1>2. LeaseOK' /\ rst' # "none"
  BY <1>1, CloseKeepsLease
<1>3. HandlerOK'
  BY <1>1, <1>2, HandlerKept
<1>4. WireKept
  BY <1>1 DEF WireKept, CloseWith, Open
<1> QED
  BY <1>2, <1>3, <1>4, GuestInvNext

----------------------------------------------------------------------------
(* The relay *)

(* The relay's half of the invariant *)
HostInv == RelayTypeOK /\ RelayInStep /\ EndedIsFinal /\ AbortHeard

(* It does not mind what the Guest goes on to write. *)
LEMMA GuestMoves ==
    ASSUME HostInv, WireKept, UNCHANGED <<relay, read, done, armed, broker>>,
           lease' = lease, cancel' \in BOOLEAN
    PROVE  HostInv'
<1>1. RelayTypeOK'
  BY DEF HostInv, RelayTypeOK
<1>2. RelayInStep'
  BY DEF HostInv, RelayInStep, WireKept
<1>3. EndedIsFinal'
  BY DEF HostInv, RelayInStep, EndedIsFinal, CutShort, WireKept
<1>4. AbortHeard'
  BY DEF HostInv, AbortHeard
<1> QED
  BY <1>1, <1>2, <1>3, <1>4 DEF HostInv

(* The envelope: a wire that is not empty starts with it. *)
LEMMA MetadataKeeps ==
    ASSUME GuestInv, HostInv, ReadMetadata \/ MetadataFails
    PROVE  HostInv'
<1>1. /\ LeaseOK /\ RelayTypeOK /\ RelayInStep /\ EndedIsFinal /\ AbortHeard
      /\ UNCHANGED <<wire, ended, response, rst>> /\ UNCHANGED <<lease, done, armed, cancel>>
      /\ relay = "meta"
  BY GuestInvParts DEF HostInv, ReadMetadata, MetadataFails, guestVars, vars
<1>2. /\ broker.state \in {"open", "gone"} /\ broker.head = "none" /\ broker.data = 0
      /\ broker \in [state : {"open", "ended", "internal", "gone"},
                     head : {"none", "error", "response"}, data : Nat]
  BY <1>1 DEF RelayInStep, RelayTypeOK
<1>3. ASSUME relay' = "over", sendError, read' \in Nat
      PROVE  HostInv'
  <2>1. /\ broker' \in [state : {"open", "ended", "internal", "gone"},
                        head : {"none", "error", "response"}, data : Nat]
        /\ broker'.head # "response"
    BY <1>2, <1>3 DEF sendError
  <2>2. RelayTypeOK'
    BY <1>1, <1>3, <2>1 DEF RelayTypeOK
  <2>3. RelayInStep' /\ EndedIsFinal' /\ AbortHeard'
    BY <1>1, <1>3, <2>1 DEF RelayInStep, EndedIsFinal, CutShort, AbortHeard
  <2> QED
    BY <2>2, <2>3 DEF HostInv
<1>4. CASE MetadataFails
  BY <1>1, <1>3, <1>4 DEF MetadataFails, RelayTypeOK
<1>5. CASE ReadMetadata
  <2>1. CASE wire[1] = "error"
    BY <1>3, <1>5, <2>1 DEF ReadMetadata
  <2>2. CASE wire[1] # "error"
    <3>1. /\ relay' = IF lease = "open" THEN "piping" ELSE "late"
          /\ broker' = [broker EXCEPT !.head = "response"]
          /\ read' = 1 /\ wire # <<>>
      BY <1>5, <2>2 DEF ReadMetadata, respondToRemoteBroker
    <3>2. wire[1] = "response"
      <4>1. 1 \in 1..Len(wire) /\ wire[1] \in Parts
        BY <1>1, <3>1 DEF LeaseOK
      <4> QED
        BY <1>1, <2>2, <4>1 DEF LeaseOK, WellFormed, Parts
    <3>3. /\ broker' \in [state : {"open", "ended", "internal", "gone"},
                          head : {"none", "error", "response"}, data : Nat]
          /\ broker'.head = "response" /\ broker'.state = broker.state /\ broker'.data = 0
      BY <1>2, <3>1
    <3>4. RelayTypeOK'
      BY <1>1, <3>1, <3>3 DEF RelayTypeOK
    <3>5. ~done
      BY <1>1 DEF RelayInStep
    <3>6. RelayInStep'
      BY <1>1, <1>2, <3>1, <3>2, <3>3, <3>5 DEF RelayInStep
    <3>7. EndedIsFinal' /\ AbortHeard'
      BY <1>1, <1>2, <3>1, <3>3, <3>5 DEF EndedIsFinal, CutShort, AbortHeard
    <3> QED
      BY <3>4, <3>6, <3>7 DEF HostInv
  <2> QED
    BY <2>1, <2>2
<1> QED
  BY <1>4, <1>5

(* The pipe: what the Broker has is what was read, and the end comes last. *)
LEMMA PipeKeeps ==
    ASSUME GuestInv, HostInv, RelayData \/ RelayEnd
    PROVE  HostInv'
<1>1. /\ LeaseOK /\ RelayTypeOK /\ RelayInStep /\ EndedIsFinal /\ AbortHeard
      /\ UNCHANGED <<wire, ended, response, rst>> /\ UNCHANGED <<lease, cancel>>
      /\ relay = "piping" /\ lease = "open"
  BY GuestInvParts DEF HostInv, RelayData, RelayEnd, guestVars, vars
<1>2. /\ broker.state \in {"open", "gone"} /\ broker.head = "response" /\ ~done
      /\ wire # <<>> /\ wire[1] = "response"
      /\ broker.state = "open" => broker.data + 1 = read
      /\ broker \in [state : {"open", "ended", "internal", "gone"},
                     head : {"none", "error", "response"}, data : Nat]
      /\ read \in Nat
  BY <1>1 DEF RelayInStep, RelayTypeOK
<1>3. CASE RelayData
  <2>1. /\ read' = read + 1 /\ UNCHANGED <<relay, done, armed>>
        /\ broker' = IF broker.state = "open" THEN [broker EXCEPT !.data = @ + 1] ELSE broker
    BY <1>3 DEF RelayData
  <2>2. /\ broker' \in [state : {"open", "ended", "internal", "gone"},
                        head : {"none", "error", "response"}, data : Nat]
        /\ broker'.state = broker.state /\ broker'.head = "response"
        /\ broker.state = "open" => broker'.data = broker.data + 1
    BY <1>2, <2>1
  <2>3. RelayTypeOK'
    BY <1>1, <1>2, <2>1, <2>2 DEF RelayTypeOK
  <2>4. RelayInStep'
    BY <1>1, <1>2, <2>1, <2>2 DEF RelayInStep
  <2>5. EndedIsFinal' /\ AbortHeard'
    BY <1>1, <1>2, <2>1, <2>2 DEF EndedIsFinal, CutShort, AbortHeard
  <2> QED
    BY <2>3, <2>4, <2>5 DEF HostInv
<1>4. CASE RelayEnd
  <2>1. /\ relay' = "over" /\ done' = TRUE /\ armed' = FALSE /\ read' = read
        /\ ended /\ rst = "none" /\ read = Len(wire)
        /\ broker' = [broker EXCEPT !.state = IF @ = "open" THEN "ended" ELSE @]
    BY <1>4 DEF RelayEnd, Closes, Open
  <2>2. response.finished
    BY <1>1, <1>2, <2>1 DEF LeaseOK
  <2>3. /\ broker' \in [state : {"open", "ended", "internal", "gone"},
                        head : {"none", "error", "response"}, data : Nat]
        /\ broker'.data = broker.data
        /\ broker'.state = "ended" => broker.state = "open"
    BY <1>2, <2>1
  <2>4. RelayTypeOK'
    BY <1>1, <2>1, <2>3 DEF RelayTypeOK
  <2>5. EndedIsFinal'
    BY <1>1, <1>2, <2>1, <2>2, <2>3 DEF EndedIsFinal, CutShort
  <2>6. RelayInStep' /\ AbortHeard'
    BY <1>1, <2>1 DEF RelayInStep, AbortHeard
  <2> QED
    BY <2>4, <2>5, <2>6 DEF HostInv
<1> QED
  BY <1>3, <1>4

(* The Host's end of the lease is reset, under the pipe or not. *)
LEMMA ResetKeeps ==
    ASSUME GuestInv, HostInv, NEW code \in {"cancel", "internal"}, LeaseCloses(code), lease = "open",
           WireKept, UNCHANGED <<read, cancel>>
    PROVE  HostInv'
<1>1. RelayTypeOK /\ RelayInStep /\ EndedIsFinal /\ AbortHeard /\ lease' = code
  BY DEF HostInv, LeaseCloses
<1>2. CASE relay = "piping"
  <2>1. /\ relay' = "over" /\ done' = TRUE /\ armed' = FALSE
        /\ \/ code = "internal" /\ broker' = Closes("internal")
           \/ code = "cancel" /\ broker' \in {Closes("ended"), broker}
    BY <1>2 DEF LeaseCloses
  <2>2. /\ broker \in [state : {"open", "ended", "internal", "gone"},
                       head : {"none", "error", "response"}, data : Nat]
        /\ broker.state # "ended"
    BY <1>1, <1>2 DEF RelayInStep, RelayTypeOK
  <2>3. /\ broker' \in [state : {"open", "ended", "internal", "gone"},
                        head : {"none", "error", "response"}, data : Nat]
        /\ code = "internal" => broker'.state # "ended"
    BY <2>1, <2>2 DEF Closes
  <2>4. RelayTypeOK'
    BY <1>1, <2>1, <2>3 DEF RelayTypeOK
  <2>5. RelayInStep' /\ EndedIsFinal' /\ AbortHeard'
    BY <1>1, <2>1, <2>3 DEF RelayInStep, EndedIsFinal, CutShort, AbortHeard
  <2> QED
    BY <2>4, <2>5 DEF HostInv
<1>3. CASE relay # "piping"
  <2>1. UNCHANGED <<relay, done, armed, broker>>
    BY <1>3 DEF LeaseCloses
  <2>2. RelayTypeOK'
    BY <1>1, <2>1 DEF RelayTypeOK
  <2>3. RelayInStep'
    BY <1>1, <1>3, <2>1 DEF RelayInStep
  <2>4. EndedIsFinal'
    BY <1>1, <2>1 DEF EndedIsFinal, CutShort, WireKept
  <2>5. AbortHeard'
    BY <1>1, <2>1 DEF AbortHeard
  <2> QED
    BY <2>2, <2>3, <2>4, <2>5 DEF HostInv
<1> QED
  BY <1>2, <1>3

(* The Broker aborts: cancelLease resets the lease unless there is nothing  *)
(* left to reset.                                                           *)
LEMMA AbortKeeps ==
    ASSUME HostInv, BrokerAborts
    PROVE  HostInv'
<1>1. /\ RelayTypeOK /\ RelayInStep /\ EndedIsFinal /\ AbortHeard
      /\ UNCHANGED <<wire, ended, response, rst>> /\ UNCHANGED <<read, done>>
      /\ broker' = [broker EXCEPT !.state = "gone"] /\ cancelLease
      /\ relay' = IF relay = "piping" /\ lease' = "host" THEN "over" ELSE relay
  BY DEF HostInv, BrokerAborts, guestVars, vars
<1>2. /\ broker' \in [state : {"open", "ended", "internal", "gone"},
                      head : {"none", "error", "response"}, data : Nat]
      /\ broker'.state = "gone" /\ broker'.head = broker.head /\ broker'.data = broker.data
  BY <1>1 DEF RelayTypeOK
<1>3. CASE armed /\ ~done /\ lease = "open"
  <2>1. armed' = FALSE /\ lease' = "host" /\ cancel' = TRUE
    BY <1>1, <1>3 DEF cancelLease
  <2>2. RelayTypeOK'
    BY <1>1, <1>2, <2>1 DEF RelayTypeOK
  <2>3. RelayInStep' /\ EndedIsFinal' /\ AbortHeard'
    BY <1>1, <1>2, <2>1 DEF RelayInStep, EndedIsFinal, CutShort, AbortHeard
  <2> QED
    BY <2>2, <2>3 DEF HostInv
<1>4. CASE ~(armed /\ ~done /\ lease = "open")
  <2>1. UNCHANGED <<armed, lease, cancel>>
    BY <1>1, <1>4 DEF cancelLease
  <2>2. done \/ lease # "open"
    BY <1>1, <1>4 DEF AbortHeard
  <2>3. RelayTypeOK'
    BY <1>1, <1>2, <2>1 DEF RelayTypeOK
  <2>4. RelayInStep' /\ EndedIsFinal' /\ AbortHeard'
    BY <1>1, <1>2, <2>1, <2>2 DEF RelayInStep, EndedIsFinal, CutShort, AbortHeard
  <2> QED
    BY <2>3, <2>4 DEF HostInv
<1> QED
  BY <1>3, <1>4

(* close() of the Guest is the end of the lease: a response the handler has *)
(* ended is read to its end first, any other is cut short.                  *)
LEMMA GuestGoneKeeps ==
    ASSUME GuestInv, HostInv, GuestGone
    PROVE  HostInv'
<1>1. /\ LeaseOK /\ RelayTypeOK /\ RelayInStep /\ EndedIsFinal /\ AbortHeard
      /\ UNCHANGED <<wire, ended, response, rst>> /\ UNCHANGED <<read, cancel>>
      /\ lease = "open" /\ lease' = "no_error" /\ relay' = "over" /\ rst = "no_error"
      /\ ended => read = Len(wire)
  BY GuestInvParts DEF HostInv, GuestGone, guestVars, vars
<1>2. broker \in [state : {"open", "ended", "internal", "gone"},
                  head : {"none", "error", "response"}, data : Nat]
  BY <1>1 DEF RelayTypeOK
<1>3. ASSUME {done', armed'} \subseteq BOOLEAN, EndedIsFinal',
             broker' \in [state : {"open", "ended", "internal", "gone"},
                          head : {"none", "error", "response"}, data : Nat]
      PROVE  HostInv'
  <2>1. RelayTypeOK'
    BY <1>1, <1>3 DEF RelayTypeOK
  <2>2. RelayInStep' /\ AbortHeard'
    BY <1>1 DEF RelayInStep, AbortHeard, Open
  <2> QED
    BY <1>3, <2>1, <2>2 DEF HostInv
<1>4. CASE relay = "meta"
  <2>1. sendError /\ UNCHANGED <<done, armed>> /\ broker.head = "none"
    BY <1>1, <1>4 DEF GuestGone, RelayInStep
  <2>2. /\ broker' \in [state : {"open", "ended", "internal", "gone"},
                        head : {"none", "error", "response"}, data : Nat]
        /\ broker'.head # "response"
    BY <1>2, <2>1 DEF sendError
  <2> QED
    BY <1>1, <1>3, <2>1, <2>2 DEF EndedIsFinal, RelayTypeOK
<1>5. CASE relay = "piping"
  <2>1. /\ broker' = [broker EXCEPT !.state = IF @ = "open" THEN "ended" ELSE @]
        /\ done' = TRUE /\ armed' = FALSE
    BY <1>5 DEF GuestGone, Closes
  <2>2. /\ broker.state \in {"open", "gone"} /\ wire # <<>> /\ wire[1] = "response"
        /\ broker.state = "open" => broker.data + 1 = read
    BY <1>1, <1>5 DEF RelayInStep
  <2>3. /\ broker' \in [state : {"open", "ended", "internal", "gone"},
                        head : {"none", "error", "response"}, data : Nat]
        /\ broker'.data = broker.data
        /\ broker'.state = "ended" => broker.state = "open"
    BY <1>2, <2>1, <2>2
  <2>4. ended => response.finished
    BY <1>1, <2>2 DEF LeaseOK
  <2>5. EndedIsFinal'
    BY <1>1, <2>2, <2>3, <2>4 DEF EndedIsFinal, CutShort
  <2> QED
    BY <1>3, <2>1, <2>3, <2>5
<1>6. CASE relay = "over"
  <2>1. UNCHANGED <<broker, done, armed>>
    BY <1>6 DEF GuestGone
  <2>2. EndedIsFinal'
    BY <1>1, <2>1 DEF EndedIsFinal, CutShort
  <2> QED
    BY <1>1, <1>2, <1>3, <2>1, <2>2 DEF RelayTypeOK
<1> QED
  BY <1>4, <1>5, <1>6 DEF GuestGone

----------------------------------------------------------------------------
(* The theorems *)

LEMMA InitRelayInv == LeasedInit => RelayInv
<1> SUFFICES ASSUME LeasedInit
             PROVE  RelayInv
  OBVIOUS
<1>1. <<>> \in Seq(Parts) /\ <<>> \in Seq(LeaseEvents) /\ WellFormed(<<>>)
      /\ \A i \in DOMAIN <<>> : FALSE
  BY DEF WellFormed
<1>2. LeaseOK
  BY <1>1 DEF LeasedInit, Init, LeaseOK, Codes
<1>3. HandlerOK
  <2>1. /\ response \in [started : BOOLEAN, finished : BOOLEAN, destroyed : BOOLEAN,
                         commitFailed : BOOLEAN, errorEmitted : BOOLEAN]
        /\ ~response.started /\ ~response.destroyed /\ ~response.errorEmitted
    BY DEF LeasedInit, Init
  <2>2. /\ phase = "start" /\ told = 0 /\ late = 0 /\ ended = FALSE
        /\ completed = FALSE /\ transportTerminated = FALSE /\ requestFailureNotified = FALSE
    BY DEF LeasedInit, Init
  <2>3. HandlerTold /\ ToldCounts
    BY <2>1, <2>2 DEF HandlerTold, ToldCounts
  <2>4. told \in 0..2 /\ late \in 0..MaxLate
    BY <2>2, DispatchConstants
  <2>5. /\ phase \in Phases /\ completed \in BOOLEAN
        /\ transportTerminated \in BOOLEAN /\ requestFailureNotified \in BOOLEAN
    BY <2>2 DEF Phases
  <2>6. ~(completed \/ phase \in {"loose", "unhandled"})
    BY <2>2
  <2> QED
    BY <2>1, <2>2, <2>3, <2>4, <2>5, <2>6 DEF HandlerOK
<1>4. RelayTypeOK
  BY DEF LeasedInit, RelayTypeOK
<1>5. RelayInStep /\ EndedIsFinal /\ AbortHeard
  BY DEF LeasedInit, RelayInStep, EndedIsFinal, CutShort, AbortHeard
<1> QED
  BY <1>2, <1>3, <1>4, <1>5, GuestInvParts DEF RelayInv

LEMMA NextRelayInv == RelayInv /\ [LeasedNext]_allVars => RelayInv'
<1> SUFFICES ASSUME RelayInv, [LeasedNext]_allVars
             PROVE  GuestInv' /\ HostInv'
  BY DEF RelayInv, HostInv
<1>1. GuestInv /\ HostInv /\ cancel \in BOOLEAN
  BY DEF RelayInv, HostInv, RelayTypeOK
<1>2. ASSUME UNCHANGED guestVars
      PROVE  GuestInv' /\ WireKept
  <2>1. LeaseOK /\ HandlerOK
        /\ UNCHANGED <<phase, response, wire, ended, rst, events, told, late>>
        /\ UNCHANGED <<completed, transportTerminated, selfCancelled, requestFailureNotified>>
    BY <1>1, <1>2, GuestInvParts DEF guestVars, vars, flags
  <2>2. LeaseOK' /\ WireKept
    BY <2>1 DEF LeaseOK, WellFormed, WireKept
  <2>3. HandlerOK'
    BY <2>1, HandlerKept
  <2> QED
    BY <2>2, <2>3, GuestInvNext
<1>3. CASE GuestStep /\ UNCHANGED hostVars
  <2>1. GuestInv' /\ WireKept
    BY <1>1, <1>3, GuestStepKeeps
  <2>2. UNCHANGED <<relay, read, done, armed, broker>> /\ lease' = lease /\ cancel' = cancel
    BY <1>3 DEF hostVars
  <2> QED
    BY <1>1, <2>1, <2>2, GuestMoves
<1>4. CASE ReadMetadata \/ MetadataFails
  <2>1. UNCHANGED guestVars
    BY <1>4 DEF ReadMetadata, MetadataFails
  <2> QED
    BY <1>1, <1>2, <1>4, <2>1, MetadataKeeps
<1>5. CASE RelayData \/ RelayEnd
  <2>1. UNCHANGED guestVars
    BY <1>5 DEF RelayData, RelayEnd
  <2> QED
    BY <1>1, <1>2, <1>5, <2>1, PipeKeeps
<1>6. CASE GuestCancels
  <2>1. UNCHANGED guestVars /\ LeaseCloses("cancel") /\ lease = "open" /\ UNCHANGED <<read, cancel>>
    BY <1>6 DEF GuestCancels
  <2> QED
    BY <1>1, <1>2, <2>1, ResetKeeps
<1>7. CASE BrokerAborts
  <2>1. UNCHANGED guestVars
    BY <1>7 DEF BrokerAborts
  <2> QED
    BY <1>1, <1>2, <1>7, <2>1, AbortKeeps
<1>8. CASE CancelArrives
  <2>1. /\ CloseWith("cancel") /\ UNCHANGED <<phase, response, flags, wire, ended, told, late>>
        /\ UNCHANGED <<relay, read, done, armed, broker>> /\ lease' = lease /\ cancel' = FALSE
    BY <1>8 DEF CancelArrives
  <2>2. GuestInv' /\ WireKept
    BY <1>1, <2>1, OutsideCloseKeeps DEF Codes
  <2> QED
    BY <1>1, <2>1, <2>2, GuestMoves
<1>9. CASE SessionLost
  <2>1. PICK code \in {"cancel", "internal"} : CloseWith(code) /\ LeaseCloses(code)
    BY <1>9 DEF SessionLost
  <2>2. /\ UNCHANGED <<phase, response, flags, wire, ended, told, late>> /\ lease = "open"
        /\ UNCHANGED <<read, cancel>>
    BY <1>9 DEF SessionLost
  <2>3. GuestInv' /\ WireKept
    BY <1>1, <2>1, <2>2, OutsideCloseKeeps DEF Codes
  <2> QED
    BY <1>1, <2>1, <2>2, <2>3, ResetKeeps
<1>10. CASE LeaseDone
  <2>1. /\ CloseWith("no_error") /\ UNCHANGED <<phase, response, flags, wire, ended, told, late>>
        /\ lease = "open" /\ (done \/ relay = "over") /\ lease' = "done"
        /\ UNCHANGED <<relay, read, done, armed, cancel, broker>>
    BY <1>10 DEF LeaseDone, StreamDone
  <2>2. GuestInv' /\ WireKept
    BY <1>1, <2>1, OutsideCloseKeeps DEF Codes
  <2>3. RelayTypeOK'
    BY <1>1, <2>1 DEF HostInv, RelayTypeOK
  <2>4. RelayInStep' /\ EndedIsFinal' /\ AbortHeard'
    BY <1>1, <2>1, <2>2 DEF HostInv, RelayInStep, EndedIsFinal, CutShort, AbortHeard, WireKept
  <2> QED
    BY <2>2, <2>3, <2>4 DEF HostInv
<1>11. CASE closeLeaseStreams
  <2>1. /\ CloseWith("no_error") /\ UNCHANGED <<phase, response, flags, wire, ended, told, late>>
        /\ UNCHANGED <<relay, read, done, armed, broker>> /\ lease' = lease /\ cancel' = cancel
    BY <1>11 DEF closeLeaseStreams, hostVars
  <2>2. GuestInv' /\ WireKept
    BY <1>1, <2>1, OutsideCloseKeeps DEF Codes
  <2> QED
    BY <1>1, <2>1, <2>2, GuestMoves
<1>12. CASE GuestGone
  <2>1. UNCHANGED guestVars
    BY <1>12 DEF GuestGone
  <2> QED
    BY <1>1, <1>2, <1>12, <2>1, GuestGoneKeeps
<1>13. CASE UNCHANGED allVars
  <2>1. UNCHANGED guestVars /\ UNCHANGED <<relay, read, done, armed, broker>>
        /\ lease' = lease /\ cancel' = cancel
    BY <1>13 DEF allVars, hostVars
  <2> QED
    BY <1>1, <1>2, <2>1, GuestMoves
<1> QED
  BY <1>3, <1>4, <1>5, <1>6, <1>7, <1>8, <1>9, <1>10, <1>11, <1>12, <1>13 DEF LeasedNext

(* Guest, relay and lease stay in step, whoever fails, aborts or closes     *)
(* first.                                                                   *)
THEOREM LeasesInStep == LeasedSpec => []RelayInv
BY InitRelayInv, NextRelayInv, PTL DEF LeasedSpec

(* dispatchLeasedRequest keeps its side of the lease: what the Host reads   *)
(* can be trusted, a dispatch that is over leaves no lease open, and a      *)
(* handler whose stream is gone is told.                                    *)
THEOREM GuestKeepsContract == LeasedSpec => []LeaseContract
<1>1. RelayInv => LeaseContract
  BY DEF RelayInv, GuestInv
<1> QED
  BY <1>1, LeasesInStep, PTL

(* routeBrokerRequestOverLease ends a response only when the handler ended  *)
(* it and all of it was relayed, or when CANCEL or close() of the Guest cut  *)
(* the lease short.                                                          *)
THEOREM ResponsesAreWhole == LeasedSpec => []EndMeansWholeUnlessCut
<1>1. RelayInv => EndMeansWholeUnlessCut
  BY DEF RelayInv, EndedIsFinal, CutShort, EndMeansWholeUnlessCut
<1> QED
  BY <1>1, LeasesInStep, PTL

(* An abort of the Broker leaves no lease open behind it. *)
THEOREM AbortsReachLeases == LeasedSpec => []AbortReachesLease
<1>1. RelayInv => AbortReachesLease
  BY DEF RelayInv, AbortHeard, AbortReachesLease
<1> QED
  BY <1>1, LeasesInStep, PTL

--------------------------------------------------------------------------------
(* NodeGuest: the pool of lease streams the Guest keeps open *)

(* What maintainLeasePool makes of a pool, a set of leases that have a      *)
(* stream: a pool of the wanted size, if the Guest is connected.            *)
LEMMA GuestMaintainFills ==
    ASSUME PoolTypeOK,
           NEW pool \in SUBSET Leases,
           NEW states \in [Leases -> {"opening", "waiting", "active"}],
           NEW streams \in [Leases -> {"unused", "open", "closed"}],
           \A l \in pool : streams[l] # "unused",
           MaintainLeasePool(pool, states, streams)
    PROVE  /\ leaseStreams' \in SUBSET Leases
           /\ state' \in [Leases -> {"opening", "waiting", "active"}]
           /\ stream' \in [Leases -> {"unused", "open", "closed"}]
           /\ on' \in [Leases -> Sessions \cup {None}]
           /\ MapHoldsStreams'
           /\ Connected /\ ~closing =>
                 \/ Cardinality(leaseStreams') >= MinWaiting
                 \/ Cardinality(leaseStreams') >= MaxOpen
<1>1. CASE closing \/ ~Connected
  BY <1>1 DEF MaintainLeasePool, PoolTypeOK, MapHoldsStreams
<1>2. CASE ~(closing \/ ~Connected)
  <2>1. PICK new \in SUBSET {l \in Leases : streams[l] = "unused"} :
           /\ Cardinality(new) = Missing(pool, states)
           /\ leaseStreams' = pool \cup new
           /\ state' = [l \in Leases |-> IF l \in new THEN "opening" ELSE states[l]]
           /\ stream' = [l \in Leases |-> IF l \in new THEN "open" ELSE streams[l]]
           /\ on' = [l \in Leases |-> IF l \in new THEN current ELSE on[l]]
    BY <1>2 DEF MaintainLeasePool
  <2>2. /\ leaseStreams' \in SUBSET Leases
        /\ state' \in [Leases -> {"opening", "waiting", "active"}]
        /\ stream' \in [Leases -> {"unused", "open", "closed"}]
        /\ on' \in [Leases -> Sessions \cup {None}]
        /\ MapHoldsStreams'
    BY <2>1 DEF PoolTypeOK, MapHoldsStreams
  <2> DEFINE ready == {l \in pool : states[l] \in {"opening", "waiting"}}
  <2>3. /\ IsFiniteSet(pool) /\ IsFiniteSet(new)
        /\ Cardinality(ready) <= Cardinality(pool)
        /\ Cardinality(pool) \in Nat /\ Cardinality(ready) \in Nat
    <3>1. IsFiniteSet(Leases) BY NodeGuestAssumption
    <3>2. IsFiniteSet(pool) /\ IsFiniteSet(new)
      BY <3>1, <2>1, FS_Subset
    <3>3. ready \subseteq pool OBVIOUS
    <3>4. IsFiniteSet(ready) /\ Cardinality(ready) <= Cardinality(pool)
      BY <3>2, <3>3, FS_Subset
    <3> QED BY <3>2, <3>4, FS_CardinalityType
  <2>4. Cardinality(pool \cup new) = Cardinality(pool) + Cardinality(new)
    <3>1. pool \cap new = {} OBVIOUS
    <3>2. Cardinality(pool \cap new) = 0 BY <3>1, FS_EmptySet
    <3>3. Cardinality(pool \cup new) =
             Cardinality(pool) + Cardinality(new) - Cardinality(pool \cap new)
      BY <2>3, FS_Union
    <3>4. Cardinality(new) \in Nat BY <2>3, FS_CardinalityType
    <3> QED BY <3>2, <3>3, <3>4, <2>3
  <2>5. Missing(pool, states) =
          LET wanted == MinWaiting - Cardinality(ready)
              room == MaxOpen - Cardinality(pool)
          IN  IF wanted <= 0 \/ room <= 0 THEN 0 ELSE IF wanted <= room THEN wanted ELSE room
    BY DEF Missing, Ready
  <2>6. Cardinality(pool \cup new) >= MinWaiting \/ Cardinality(pool \cup new) >= MaxOpen
    <3> HIDE DEF ready
    <3> QED BY <2>1, <2>3, <2>4, <2>5, NodeGuestAssumption
  <2> QED BY <2>1, <2>2, <2>6
<1> QED BY <1>1, <1>2

(* A step that leaves the leases alone keeps the size of the pool unless    *)
(* the Guest becomes connected or registered by it.                         *)
LEMMA GuestPoolSizeKept ==
    ASSUME PoolKeepsItsSize, leaseStreams' = leaseStreams,
           Connected' /\ ~closing' /\ call'[current'] = "registered"
             => Connected /\ ~closing /\ call[current] = "registered"
    PROVE  PoolKeepsItsSize'
BY DEF PoolKeepsItsSize

(* connect() and register(). *)
LEMMA GuestConnectingKeeps ==
    ASSUME PoolInv, NEW s \in Sessions,
           \/ Connect(s) \/ SessionConnects(s)
           \/ HostRegisters(s) \/ RegistrationFails(s)
    PROVE  PoolInv'
<1> USE DEF PoolInv
<1>1. CASE Connect(s)
  <2>1. PoolTypeOK' /\ MapHoldsStreams' BY <1>1 DEF Connect, leaseVars,
     PoolTypeOK, MapHoldsStreams
  <2>2. call'[current'] = "connecting" BY <1>1 DEF Connect, PoolTypeOK
  <2>3. leaseStreams' = leaseStreams BY <1>1 DEF Connect, leaseVars
  <2> QED BY <2>1, <2>2, <2>3, GuestPoolSizeKept
<1>2. CASE SessionConnects(s)
  <2>1. PoolTypeOK' /\ MapHoldsStreams'
    BY <1>2 DEF SessionConnects, leaseVars, PoolTypeOK, MapHoldsStreams
  <2>2. leaseStreams' = leaseStreams /\ UNCHANGED <<current, closing>>
    BY <1>2 DEF SessionConnects, leaseVars
  <2>3. Connected' => Connected
    BY <1>2, <2>2 DEF SessionConnects, Connected, PoolTypeOK
  <2>4. ASSUME current # None PROVE call'[current] = "registered" => call[current] = "registered"
    BY <2>4, <1>2 DEF SessionConnects, PoolTypeOK
  <2> QED BY <2>1, <2>2, <2>3, <2>4, GuestPoolSizeKept DEF Connected
<1>3. CASE HostRegisters(s)
  <2>1. MaintainLeasePool(leaseStreams, state, stream) /\ UNCHANGED <<session,
     current, closing, via>>
        /\ call' = [call EXCEPT ![s] = "registered"]
    BY <1>3 DEF HostRegisters
  <2>2. /\ leaseStreams' \in SUBSET Leases
        /\ state' \in [Leases -> {"opening", "waiting", "active"}]
        /\ stream' \in [Leases -> {"unused", "open", "closed"}]
        /\ on' \in [Leases -> Sessions \cup {None}]
        /\ MapHoldsStreams'
        /\ Connected /\ ~closing =>
              \/ Cardinality(leaseStreams') >= MinWaiting
              \/ Cardinality(leaseStreams') >= MaxOpen
    BY <2>1, GuestMaintainFills DEF PoolTypeOK, MapHoldsStreams
  <2>3. PoolTypeOK' BY <2>1, <2>2 DEF PoolTypeOK
  <2>4. Connected' = Connected BY <2>1 DEF Connected
  <2> QED BY <2>1, <2>2, <2>3, <2>4 DEF PoolKeepsItsSize
<1>4. CASE RegistrationFails(s)
  <2>1. PoolTypeOK' /\ MapHoldsStreams'
    BY <1>4 DEF RegistrationFails, leaseVars, PoolTypeOK, MapHoldsStreams
  <2>2. leaseStreams' = leaseStreams /\ UNCHANGED <<session, current, closing>>
    BY <1>4 DEF RegistrationFails, leaseVars
  <2>3. Connected' = Connected BY <2>2 DEF Connected
  <2>4. ASSUME current # None PROVE call'[current] = "registered" => call[current] = "registered"
    BY <2>4, <1>4 DEF RegistrationFails, PoolTypeOK
  <2> QED BY <2>1, <2>2, <2>3, <2>4, GuestPoolSizeKept DEF Connected
<1> QED BY <1>1, <1>2, <1>3, <1>4

(* Sessions that close, and close(). *)
LEMMA GuestClosingKeeps ==
    ASSUME PoolInv,
           \/ \E s \in Sessions : SessionCloses(s) \/ SessionCloseEvent(s)
           \/ GuestClose
    PROVE  PoolInv'
<1> USE DEF PoolInv
<1>1. ASSUME NEW s \in Sessions, SessionCloses(s) PROVE PoolInv'
  <2>1. PoolTypeOK' /\ MapHoldsStreams'
    BY <1>1 DEF SessionCloses, Close, PoolTypeOK, MapHoldsStreams
  <2>2. leaseStreams' = leaseStreams /\ UNCHANGED <<current, closing>>
    BY <1>1 DEF SessionCloses
  <2>3. Connected' => Connected
    BY <1>1, <2>2 DEF SessionCloses, Connected, PoolTypeOK
  <2>4. ASSUME current # None PROVE call'[current] = "registered" => call[current] = "registered"
    BY <2>4, <1>1 DEF SessionCloses, PoolTypeOK
  <2> QED BY <2>1, <2>2, <2>3, <2>4, GuestPoolSizeKept DEF Connected
<1>2. ASSUME NEW s \in Sessions, SessionCloseEvent(s) PROVE PoolInv'
  BY <1>2 DEF SessionCloseEvent, ForgetLeases, PoolTypeOK, MapHoldsStreams,
     PoolKeepsItsSize, Connected
<1>3. CASE GuestClose
  BY <1>3 DEF GuestClose, ForgetLeases, Close, PoolTypeOK,
     MapHoldsStreams, PoolKeepsItsSize
<1> QED BY <1>1, <1>2, <1>3

(* The events of one lease stream. *)
LEMMA GuestLeaseStepsKeep ==
    ASSUME PoolInv, LeaseSteps
    PROVE  PoolInv'
<1> USE DEF PoolInv
<1>1. PICK l \in Leases :
         \/ LeaseAccepted(l) \/ LeaseRefused(l) \/ RequestArrives(l)
         \/ LeaseStreamCloses(l) \/ LeaseCloseEvent(l)
  BY DEF LeaseSteps
<1>2. UNCHANGED sessionVars
  BY <1>1 DEF LeaseAccepted, LeaseRefused, RequestArrives,
     LeaseStreamCloses, LeaseCloseEvent
<1>3. UNCHANGED <<session, current, closing, call, via>> /\ (Connected' = Connected)
  BY <1>2 DEF sessionVars, Connected
<1>4. CASE LeaseRefused(l) \/ RequestArrives(l) \/ LeaseStreamCloses(l)
  <2>1. leaseStreams' = leaseStreams
    BY <1>4 DEF LeaseRefused, RequestArrives, LeaseStreamCloses
  <2>2. PoolTypeOK' /\ MapHoldsStreams'
    BY <1>3, <1>4 DEF LeaseRefused, RequestArrives, LeaseStreamCloses,
       Mark, Close, PoolTypeOK, MapHoldsStreams
  <2> QED BY <1>3, <2>1, <2>2, GuestPoolSizeKept
<1>5. CASE LeaseAccepted(l) \/ LeaseCloseEvent(l)
  <2>1. PICK pool \in SUBSET Leases,
             states \in [Leases -> {"opening", "waiting", "active"}],
             streams \in [Leases -> {"unused", "open", "closed"}] :
           /\ \A k \in pool : streams[k] # "unused"
           /\ MaintainLeasePool(pool, states, streams)
    <3>1. CASE LeaseAccepted(l)
      <4>1. Mark(l, "waiting") \in [Leases -> {"opening", "waiting", "active"}]
        BY DEF Mark, PoolTypeOK
      <4> QED BY <3>1, <4>1 DEF LeaseAccepted, PoolTypeOK, MapHoldsStreams
    <3>2. CASE LeaseCloseEvent(l)
      <4> DEFINE streams == [stream EXCEPT ![l] = "unused"]
      <4>1. Mark(l, "opening") \in [Leases -> {"opening", "waiting", "active"}]
        BY DEF Mark, PoolTypeOK
      <4>2. /\ streams \in [Leases -> {"unused", "open", "closed"}]
            /\ leaseStreams \ {l} \in SUBSET Leases
            /\ \A k \in leaseStreams \ {l} : streams[k] # "unused"
        BY DEF PoolTypeOK, MapHoldsStreams
      <4>3. MaintainLeasePool(leaseStreams \ {l}, Mark(l, "opening"), streams)
        BY <3>2 DEF LeaseCloseEvent, Refill
      <4> HIDE DEF streams
      <4> QED BY <4>1, <4>2, <4>3
    <3> QED BY <1>5, <3>1, <3>2
  <2>2. /\ leaseStreams' \in SUBSET Leases
        /\ state' \in [Leases -> {"opening", "waiting", "active"}]
        /\ stream' \in [Leases -> {"unused", "open", "closed"}]
        /\ on' \in [Leases -> Sessions \cup {None}]
        /\ MapHoldsStreams'
        /\ Connected /\ ~closing =>
              \/ Cardinality(leaseStreams') >= MinWaiting
              \/ Cardinality(leaseStreams') >= MaxOpen
    BY <2>1, GuestMaintainFills
  <2>3. PoolTypeOK' BY <1>3, <2>2 DEF PoolTypeOK
  <2> QED BY <1>3, <2>2, <2>3 DEF PoolKeepsItsSize
<1> QED BY <1>1, <1>4, <1>5

\* maintainLeasePool and the events that end in it keep a registered, connected
\* Guest at minWaitingStreams leases, or at maxOpenStreams: no order of accepted,
\* refused, used and closed streams, of sessions and of close() loses a place.
THEOREM GuestPoolKeepsItsSize == PoolSpec => []PoolKeepsItsSize
<1>1. PoolInit => PoolInv
  <2> SUFFICES ASSUME PoolInit PROVE PoolInv
    OBVIOUS
  <2>1. PoolTypeOK /\ MapHoldsStreams
    BY DEF PoolInit, PoolTypeOK, MapHoldsStreams
  <2>2. ~Connected
    BY DEF PoolInit, Connected
  <2> QED BY <2>1, <2>2 DEF PoolInv, PoolKeepsItsSize
<1>2. PoolInv /\ [PoolNext]_poolVars => PoolInv'
  <2> SUFFICES ASSUME PoolInv, [PoolNext]_poolVars PROVE PoolInv'
    OBVIOUS
  <2>1. CASE SessionSteps
    BY <2>1, GuestConnectingKeeps, GuestClosingKeeps DEF SessionSteps
  <2>2. CASE UNCHANGED poolVars
    BY <2>2 DEF poolVars, sessionVars, leaseVars, PoolInv, PoolTypeOK,
       MapHoldsStreams, PoolKeepsItsSize, Connected
  <2> QED BY <2>1, <2>2, GuestClosingKeeps, GuestLeaseStepsKeep DEF PoolNext
<1>3. PoolInv => PoolKeepsItsSize
  BY DEF PoolInv
<1> QED BY <1>1, <1>2, <1>3, PTL DEF PoolSpec
================================================================================
