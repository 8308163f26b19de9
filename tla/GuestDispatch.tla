------------------------------ MODULE GuestDispatch ------------------------------
(***************************************************************************)
(* One request on a lease stream of the Node Guest, from the dispatch to    *)
(* the last event of the stream: the handler of the application answers     *)
(* through MinimalServerResponse, throws or rejects, at once or later, and  *)
(* the Host may reset the stream at any time.                               *)
(*                                                                          *)
(* While the handler runs synchronously nothing else does; afterwards its   *)
(* calls interleave with the events of the stream, which come in order.     *)
(* HTTP/2 streams do not destroy themselves on a write after the end: they  *)
(* emit 'error'.                                                            *)
(***************************************************************************)
EXTENDS Integers, Sequences

CONSTANTS MaxData,      \* chunks the handler writes (bound)
          MaxLate       \* writes that come after the end (bound)

ASSUME DispatchConstants == MaxData \in Nat /\ MaxLate \in Nat

VARIABLES
    phase,              \* of the handler
    response,           \* flags of MinimalServerResponse
    completed, transportTerminated, selfCancelled, requestFailureNotified,
    wire,               \* what was written to the lease stream
    ended,              \* and whether it was ended
    rst,                \* the code the stream was closed with, or "none"
    events,             \* events of the lease stream still to come
    told,               \* 'error' events of the request of the handler
    late

flags == <<completed, transportTerminated, selfCancelled, requestFailureNotified>>
vars == <<phase, response, flags, wire, ended, rst, events, told, late>>

(* "sync": the listener is on the stack; "async": its promise is pending;   *)
(* "loose": it threw or rejected, and callbacks it left behind may go on;   *)
(* "unhandled": there is no listener.                                       *)
Phases == {"start", "sync", "async", "loose", "unhandled"}
Running == phase \in {"sync", "async", "loose"}
Open == rst = "none"

(* The events a stream emits when it is closed with a code: 'aborted' while *)
(* its writable side is open, 'error' unless the code is NO_ERROR or CANCEL.*)
EventsOf(code) ==
    (IF ended THEN <<>> ELSE <<"aborted">>)
    \o (IF code = "internal" THEN <<"error">> ELSE <<>>)
    \o <<"close">>

CloseWith(code) ==
    IF Open THEN rst' = code /\ events' = events \o EventsOf(code)
            ELSE UNCHANGED <<rst, events>>

(* stream.end(envelope): an error when the stream was ended before *)
EndWith(frames) ==
    IF ~Open THEN UNCHANGED <<wire, ended, rst, events>>
    ELSE /\ ended' = TRUE
         /\ wire' = IF ended THEN wire ELSE wire \o frames
         /\ events' = IF ended /\ frames # <<>> THEN Append(events, "error") ELSE events
         /\ UNCHANGED rst

----------------------------------------------------------------------------
(* Failures *)

(* The end of both failure paths: a response that has started is cancelled, *)
(* else an error envelope is the answer.                                    *)
AnswerFailure ==
    IF response.started
    THEN selfCancelled' = TRUE /\ CloseWith("cancel") /\ UNCHANGED <<wire, ended>>
    ELSE EndWith(<<"error">>) /\ UNCHANGED selfCancelled

(* The 'error' listener of the response: the first failure of a request     *)
(* whose transport is up is answered.                                       *)
ResponseError ==
    LET terminated == transportTerminated \/ rst \in {"cancel", "internal"}
    IN  /\ transportTerminated' = terminated
        /\ IF completed \/ terminated
           THEN UNCHANGED <<completed, selfCancelled, wire, ended, rst, events>>
           ELSE completed' = TRUE /\ AnswerFailure

----------------------------------------------------------------------------
(* The handler *)

(* dispatchLeasedRequest without a listener, or up to the call of it *)
dispatchLeasedRequest ==
    /\ phase = "start"
    /\ \/ phase' = "unhandled" /\ EndWith(<<"error">>)
       \/ phase' = "sync" /\ UNCHANGED <<wire, ended, rst, events>>
    /\ UNCHANGED <<response, flags, told, late>>

(* commitResponse fails on headers that cannot be sent. *)
CommitFails ==
    /\ Running
    /\ ~response.destroyed /\ ~response.finished /\ ~response.commitFailed /\ ~response.started
    /\ response' = [response EXCEPT !.commitFailed = TRUE]
    /\ ResponseError
    /\ UNCHANGED <<phase, requestFailureNotified, told, late>>

Envelope == IF response.started THEN <<>> ELSE <<"response">>

(* write and flushHeaders *)
write(frames) ==
    /\ Running
    /\ ~response.destroyed /\ ~response.finished /\ ~response.commitFailed
    /\ response' = [response EXCEPT !.started = TRUE]
    /\ IF ended
       THEN /\ late < MaxLate /\ late' = late + 1
            /\ events' = IF Open THEN Append(events, "error") ELSE events
            /\ UNCHANGED wire
       ELSE /\ Len(wire) <= MaxData
            /\ wire' = IF Open THEN wire \o Envelope \o frames ELSE wire
            /\ UNCHANGED <<events, late>>
    /\ UNCHANGED <<phase, flags, ended, rst, told>>

(* end, with or without a last chunk: the response is finished, which       *)
(* completes the dispatch.                                                  *)
end(frames) ==
    /\ Running
    /\ ~response.destroyed /\ ~response.finished /\ ~response.commitFailed
    /\ response' = [response EXCEPT !.started = TRUE, !.finished = TRUE]
    /\ EndWith(Envelope \o frames)
    /\ completed' = TRUE
    /\ UNCHANGED <<phase, transportTerminated, selfCancelled, requestFailureNotified, told, late>>

HandlerReturns ==
    /\ phase = "sync"
    /\ phase' = "async"
    /\ UNCHANGED <<response, flags, wire, ended, rst, events, told, late>>

(* The catch around the listener: it looks at nothing but the headers, and  *)
(* does not set completed.                                                  *)
HandlerThrows ==
    /\ phase = "sync"
    /\ phase' = "loose"
    /\ AnswerFailure
    /\ UNCHANGED <<response, completed, transportTerminated, requestFailureNotified, told, late>>

(* observeListenerResult: a rejected promise is an 'error' of the response. *)
HandlerRejects ==
    /\ phase = "async"
    /\ phase' = "loose"
    /\ ResponseError
    /\ UNCHANGED <<response, requestFailureNotified, told, late>>

----------------------------------------------------------------------------
(* The stream *)

(* The stream was ended by the Guest and the Host has answered its end. *)
StreamDone ==
    /\ phase \in {"async", "loose"} /\ Open /\ ended
    /\ CloseWith("no_error")
    /\ UNCHANGED <<phase, response, flags, wire, ended, told, late>>

Event(e) ==
    /\ phase # "sync" /\ events # <<>> /\ Head(events) = e

(* 'aborted': the request of the handler fails. *)
AbortedEvent ==
    /\ Event("aborted")
    /\ events' = Tail(events)
    /\ IF selfCancelled \/ requestFailureNotified
       THEN UNCHANGED <<transportTerminated, requestFailureNotified, told>>
       ELSE /\ transportTerminated' = TRUE
            /\ requestFailureNotified' = (rst # "no_error")
            /\ told' = IF rst # "no_error" THEN told + 1 ELSE told
    /\ UNCHANGED <<phase, response, completed, selfCancelled, wire, ended, rst, late>>

(* 'error': the request is destroyed with it, which says nothing when the   *)
(* request has ended before, and the response emits it once. The last case  *)
(* is ResponseError for a response that has started: the error is that of a *)
(* write after the end.                                                     *)
ErrorEvent ==
    /\ Event("error")
    /\ told' \in {told, IF response.errorEmitted THEN told ELSE told + 1}
    /\ response' = [response EXCEPT !.errorEmitted = TRUE]
    /\ IF response.errorEmitted \/ completed \/ transportTerminated \/ rst \in {"cancel", "internal"}
       THEN /\ events' = Tail(events)
            /\ transportTerminated' = (transportTerminated
                                       \/ (~response.errorEmitted /\ rst \in {"cancel", "internal"}))
            /\ UNCHANGED <<completed, selfCancelled, wire, ended, rst>>
       ELSE /\ completed' = TRUE
            /\ selfCancelled' = TRUE
            /\ rst' = IF Open THEN "cancel" ELSE rst
            /\ events' = Tail(events) \o (IF Open THEN EventsOf("cancel") ELSE <<>>)
            /\ UNCHANGED <<transportTerminated, wire, ended>>
    /\ UNCHANGED <<phase, requestFailureNotified, late>>

(* Mutant: the handler is not told that the transport is gone. *)
FaultyTellClosed == UNCHANGED <<transportTerminated, requestFailureNotified, told>>

(* What the 'close' listener of the dispatch tells the request *)
TellClosed ==
    IF response.finished \/ selfCancelled
    THEN UNCHANGED <<transportTerminated, requestFailureNotified, told>>
    ELSE /\ transportTerminated' = TRUE
         /\ requestFailureNotified' = TRUE
         /\ told' = IF requestFailureNotified THEN told ELSE told + 1

(* 'close', for the response and for the dispatch, which it completes. *)
CloseEvent ==
    /\ Event("close")
    /\ events' = Tail(events)
    /\ response' = [response EXCEPT !.destroyed = TRUE,
                      !.errorEmitted = @ \/ (~response.finished /\ rst # "no_error")]
    /\ TellClosed
    /\ completed' = TRUE
    /\ UNCHANGED <<phase, selfCancelled, wire, ended, rst, late>>

----------------------------------------------------------------------------
Init ==
    /\ phase = "start"
    /\ response = [started |-> FALSE, finished |-> FALSE, destroyed |-> FALSE,
                   commitFailed |-> FALSE, errorEmitted |-> FALSE]
    /\ completed = FALSE /\ transportTerminated = FALSE
    /\ selfCancelled = FALSE /\ requestFailureNotified = FALSE
    /\ wire = <<>> /\ ended = FALSE /\ rst = "none" /\ events = <<>>
    /\ told = 0 /\ late = 0

(* The steps of the Guest; what closes the lease from outside is left to the *)
(* module that has its other end.                                           *)
GuestStep ==
    \/ dispatchLeasedRequest
    \/ CommitFails
    \/ \E frames \in {<<>>, <<"data">>} : write(frames) \/ end(frames)
    \/ HandlerReturns \/ HandlerThrows \/ HandlerRejects
    \/ AbortedEvent \/ ErrorEvent \/ CloseEvent

----------------------------------------------------------------------------
(* Type correctness, and a handler hears of a failure at most twice: once   *)
(* from the dispatch and once from the stream its request reads.            *)
TypeOK ==
    /\ phase \in Phases
    /\ response \in [started : BOOLEAN, finished : BOOLEAN, destroyed : BOOLEAN,
                     commitFailed : BOOLEAN, errorEmitted : BOOLEAN]
    /\ {completed, transportTerminated, selfCancelled, requestFailureNotified, ended} \subseteq BOOLEAN
    /\ wire \in Seq({"response", "error", "data"})
    /\ rst \in {"none", "no_error", "cancel", "internal"}
    /\ events \in Seq({"aborted", "error", "close"})
    /\ told \in 0..2 /\ late \in 0..MaxLate

(* What the Host reads off a lease can be trusted: one envelope comes       *)
(* first, an error envelope stands alone, and a response that ends without  *)
(* a reset is one the handler ended, never one that a failure cut short.    *)
WireTrusted ==
    /\ \A i \in 1..Len(wire) : (wire[i] # "data") = (i = 1)
    /\ wire # <<>> /\ wire[1] = "error" => Len(wire) = 1
    /\ wire # <<>> /\ wire[1] = "response" /\ ended => response.finished

(* A dispatch that is over leaves no lease open: its stream was ended or    *)
(* closed, so that the Host is not left waiting on it.                      *)
NoLeaseLeftOpen ==
    completed \/ phase \in {"loose", "unhandled"} => ended \/ ~Open

(* A handler whose stream is gone before it has answered is told so through *)
(* its request, unless the Guest itself had cancelled the stream.           *)
HandlerTold ==
    response.destroyed /\ ~response.finished /\ ~selfCancelled => told >= 1

(* What the Host and the handler may rely on, whenever and by whom the      *)
(* lease is closed.                                                         *)
LeaseContract == WireTrusted /\ NoLeaseLeftOpen /\ HandlerTold

----------------------------------------------------------------------------
(* The inductive invariant: what keeps the contract *)

(* A handler that has not been called has answered nothing, and the answer  *)
(* has started when it is on an open lease.                                 *)
StartedIsWritten ==
    /\ phase = "start" => ~response.started /\ ~ended
    /\ Open /\ ~ended => (response.started <=> wire # <<>>)
    /\ ~ended /\ wire # <<>> => wire[1] = "response"

(* Only a lease that is closed tells of an abort or its end, and it is      *)
(* closed when the dispatch takes the transport for terminated or has       *)
(* cancelled the lease itself.                                              *)
ClosedIsKnown ==
    /\ Open => \A i \in DOMAIN events : events[i] = "error"
    /\ transportTerminated \/ selfCancelled => ~Open

(* The dispatch and the stream tell the handler once each. *)
ToldCounts ==
    /\ requestFailureNotified => told >= 1
    /\ told <= (IF requestFailureNotified THEN 1 ELSE 0) + (IF response.errorEmitted THEN 1 ELSE 0)

GuestInv == TypeOK /\ LeaseContract /\ StartedIsWritten /\ ClosedIsKnown /\ ToldCounts
================================================================================
