------------------------------ MODULE LeasedRequest ------------------------------
(***************************************************************************)
(* A request of a Broker end to end: the Host relays between the stream of  *)
(* the Broker and the lease it has acquired, at whose other end             *)
(* GuestDispatch runs the handler.                                          *)
(*                                                                          *)
(* The lease carries what the Guest writes in order; its end, or the code   *)
(* it was reset with, may overtake nothing but what was not yet read.  An   *)
(* HTTP/2 stream that is reset with CANCEL emits no 'error': when it flows  *)
(* it emits 'end' and 'close', when it is held back only 'close'.  A session*)
(* whose socket is gone resets its streams with CANCEL.  A stream closed    *)
(* with NO_ERROR emits 'end' behind what has got through.                   *)
(***************************************************************************)
EXTENDS GuestDispatch

VARIABLES
    relay,      \* what routeBrokerRequestOverLease waits for
    read,       \* how much of the wire the Host has read
    lease,      \* the Host's end of the lease: open, or why it is closed
    done,       \* completed of the Host
    armed,      \* cancelLease listens to the stream of the Broker
    cancel,     \* a reset is on its way to the Guest
    broker      \* the stream of the Broker: state, head and chunks it was sent

hostVars == <<relay, read, lease, done, armed, cancel, broker>>
guestVars == vars
allVars == <<guestVars, hostVars>>

----------------------------------------------------------------------------
(* The stream of the Broker *)

(* stream.end(), close(code): no effect on a stream that is gone *)
Closes(state) == [broker EXCEPT !.state = IF @ = "open" THEN state ELSE @]

(* sendError: the error is the answer, or the last chunk of the answer. *)
sendError ==
    broker' = IF broker.state # "open" THEN broker
              ELSE [broker EXCEPT !.state = "ended", !.head = IF @ = "none" THEN "error" ELSE @]

(* The head of the answer *)
respondToRemoteBroker == broker' = [broker EXCEPT !.head = "response"]

----------------------------------------------------------------------------
(* The relay *)

(* Mutant: the error of a Guest ends the relay and tells nobody. *)
SilentMetadata ==
    /\ relay = "meta" /\ lease # "host" /\ read = 0 /\ wire # <<>>
    /\ read' = 1
    /\ IF wire[1] = "error"
       THEN relay' = "over" /\ UNCHANGED broker
       ELSE /\ relay' = IF lease = "open" THEN "piping" ELSE "late"
            /\ respondToRemoteBroker
    /\ UNCHANGED <<lease, done, armed, cancel, guestVars>>

(* readLeaseResponseMetadataFromStream has read an envelope: an error is    *)
(* thrown, a response answered and its body piped.  When the lease was      *)
(* reset meanwhile the listeners come too late, and nothing is piped and    *)
(* nobody ends the stream of the Broker ("late").                           *)
ReadMetadata ==
    /\ relay = "meta" /\ lease # "host" /\ read = 0 /\ wire # <<>>
    /\ read' = 1
    /\ IF wire[1] = "error"
       THEN relay' = "over" /\ sendError
       ELSE /\ relay' = IF lease = "open" THEN "piping" ELSE "late"
            /\ respondToRemoteBroker
    /\ UNCHANGED <<lease, done, armed, cancel, guestVars>>

(* The lease ended or closed before its envelope was read. *)
MetadataFails ==
    /\ relay = "meta" /\ lease # "open"
    /\ relay' = "over"
    /\ sendError
    /\ UNCHANGED <<read, lease, done, armed, cancel, guestVars>>

(* The pipe from the lease to the stream of the Broker *)
RelayData ==
    /\ relay = "piping" /\ lease = "open" /\ read < Len(wire)
    /\ read' = read + 1
    /\ broker' = IF broker.state = "open" THEN [broker EXCEPT !.data = @ + 1] ELSE broker
    /\ UNCHANGED <<relay, lease, done, armed, cancel, guestVars>>

(* Mutant: the end of the lease overtakes what it carried. *)
EarlyEnd ==
    /\ relay = "piping" /\ lease = "open" /\ ended /\ Open
    /\ relay' = "over" /\ done' = TRUE /\ armed' = FALSE
    /\ broker' = Closes("ended")
    /\ UNCHANGED <<read, lease, cancel, guestVars>>

(* 'end' of the lease ends the stream of the Broker, whose 'finish'         *)
(* completes the relay.                                                     *)
RelayEnd ==
    /\ relay = "piping" /\ lease = "open" /\ ended /\ Open /\ read = Len(wire)
    /\ relay' = "over" /\ done' = TRUE /\ armed' = FALSE
    /\ broker' = Closes("ended")
    /\ UNCHANGED <<read, lease, cancel, guestVars>>

(* What the Host does when its end of the lease is reset with a code *)
LeaseCloses(code) ==
    /\ lease' = code
    /\ IF relay = "piping"
       THEN /\ relay' = "over" /\ done' = TRUE /\ armed' = FALSE
            /\ IF code = "internal" THEN broker' = Closes("internal")
               ELSE broker' \in {Closes("ended"), broker}
       ELSE UNCHANGED <<relay, done, armed, broker>>

(* The Guest has cancelled the lease. *)
GuestCancels ==
    /\ lease = "open" /\ ~cancel /\ rst = "cancel"
    /\ LeaseCloses("cancel")
    /\ UNCHANGED <<read, cancel, guestVars>>

(* The close() of the Guest has reached the Host: 'end' of the lease.  It   *)
(* is behind all that was written when the response was ended before, else  *)
(* behind what has got through.  An envelope that is missing is an error.   *)
GuestGone ==
    /\ lease = "open" /\ ~cancel /\ rst = "no_error"
    /\ ended => read = Len(wire)
    /\ lease' = "no_error"
    /\ relay' = "over"
    /\ \/ relay = "meta" /\ sendError /\ UNCHANGED <<done, armed>>
       \/ relay = "piping" /\ broker' = Closes("ended") /\ done' = TRUE /\ armed' = FALSE
       \/ relay = "over" /\ UNCHANGED <<broker, done, armed>>
    /\ UNCHANGED <<read, cancel, guestVars>>

(* Mutant: only a response that has started is cancelled. *)
FaultyCancelLease ==
    IF armed /\ ~done /\ lease = "open" /\ relay = "piping"
    THEN armed' = FALSE /\ lease' = "host" /\ cancel' = TRUE
    ELSE UNCHANGED <<armed, lease, cancel>>

(* cancelLease: the lease is closed with CANCEL. *)
cancelLease ==
    IF armed /\ ~done /\ lease = "open"
    THEN armed' = FALSE /\ lease' = "host" /\ cancel' = TRUE
    ELSE UNCHANGED <<armed, lease, cancel>>

(* The Broker aborts its request, or its session goes. *)
BrokerAborts ==
    /\ broker.state = "open"
    /\ broker' = [broker EXCEPT !.state = "gone"]
    /\ cancelLease
    /\ relay' = IF relay = "piping" /\ lease' = "host" THEN "over" ELSE relay
    /\ UNCHANGED <<read, done, guestVars>>

----------------------------------------------------------------------------
(* The lease between them *)

(* The reset of the Host reaches the Guest. *)
CancelArrives ==
    /\ cancel /\ phase \in {"async", "loose"}
    /\ cancel' = FALSE
    /\ CloseWith("cancel")
    /\ UNCHANGED <<relay, read, lease, done, armed, broker, phase, response, flags, wire, ended,
                   told, late>>

(* close() of the Guest: closeLeaseStreams closes the active leases too.    *)
closeLeaseStreams ==
    /\ phase \in {"async", "loose"} /\ Open
    /\ CloseWith("no_error")
    /\ UNCHANGED <<hostVars, phase, response, flags, wire, ended, told, late>>

(* The session of the Guest is lost, on both sides. *)
SessionLost ==
    /\ phase \in {"async", "loose"} /\ Open /\ lease = "open"
    /\ \E code \in {"cancel", "internal"} : CloseWith(code) /\ LeaseCloses(code)
    /\ UNCHANGED <<read, cancel, phase, response, flags, wire, ended, told, late>>

(* Both sides have ended. *)
LeaseDone ==
    /\ lease = "open" /\ (done \/ relay = "over")
    /\ StreamDone
    /\ lease' = "done"
    /\ UNCHANGED <<relay, read, done, armed, cancel, broker>>

LeasedInit ==
    /\ Init
    /\ relay = "meta" /\ read = 0 /\ lease = "open" /\ done = FALSE
    /\ armed = TRUE /\ cancel = FALSE
    /\ broker = [state |-> "open", head |-> "none", data |-> 0]

LeasedNext ==
    \/ GuestStep /\ UNCHANGED hostVars
    \/ ReadMetadata \/ MetadataFails
    \/ RelayData \/ RelayEnd
    \/ GuestCancels \/ BrokerAborts
    \/ CancelArrives \/ SessionLost \/ LeaseDone
    \/ closeLeaseStreams \/ GuestGone

LeasedSpec == LeasedInit /\ [][LeasedNext]_allVars

(* What the lease carries arrives at the Host.  Nothing is assumed of the   *)
(* handler or the Broker.                                                   *)
LeasedFairSpec ==
    /\ LeasedSpec
    /\ WF_allVars(ReadMetadata) /\ WF_allVars(MetadataFails)
    /\ WF_allVars(RelayData) /\ WF_allVars(RelayEnd) /\ WF_allVars(GuestCancels)
    /\ WF_allVars(GuestGone)

----------------------------------------------------------------------------
(* Properties *)

(* A Broker whose response ends has all that the handler wrote, and the     *)
(* handler has ended it: whatever fails on the way does not look like a     *)
(* whole response.  Two exceptions are in the code: a lease reset with      *)
(* CANCEL under the pipe, and one that close() of the Guest closes before   *)
(* its response is ended, end the Broker's stream like a complete response. *)
CutShort == lease = "cancel" \/ (lease = "no_error" /\ ~ended)

EndMeansWholeUnlessCut ==
    broker.state = "ended" /\ broker.head = "response" /\ ~CutShort =>
        response.finished /\ broker.data + 1 = Len(wire)

(* No Guest works for a Broker that is gone: its lease is reset, was reset  *)
(* or has ended, whichever await the Host was in.                           *)
AbortReachesLease ==
    broker.state = "gone" => lease # "open" \/ done \/ relay = "over" \/ ended

(* The two ways in which the code leaves the Broker with a response that    *)
(* never ends: the lease was reset while the envelope was handed over, or   *)
(* with CANCEL under a pipe that was held back.                             *)
LeftOpen == relay = "late" \/ (broker.head = "response" /\ lease = "cancel")

(* Once the Guest has ended, closed or reset the lease, or the lease is     *)
(* lost, the relay comes to an end, and with it the stream of the Broker:   *)
(* one without an envelope gets an error.  Only LeftOpen is excepted.       *)
BrokerSettles ==
    ended \/ ~Open \/ lease # "open" ~>
        relay \in {"over", "late"} /\ (broker.state # "open" \/ LeftOpen)

----------------------------------------------------------------------------
(* The inductive invariant *)

RelayTypeOK ==
    /\ relay \in {"meta", "piping", "over", "late"}
    /\ read \in Nat
    /\ lease \in {"open", "no_error", "cancel", "internal", "host", "done"}
    /\ {done, armed, cancel} \subseteq BOOLEAN
    /\ broker \in [state : {"open", "ended", "internal", "gone"},
                   head : {"none", "error", "response"}, data : Nat]

(* Until the envelope is read the Broker has nothing, and under the pipe it *)
(* has what was read.                                                       *)
RelayInStep ==
    /\ relay = "meta" => broker.state \in {"open", "gone"} /\ broker.head = "none"
                          /\ broker.data = 0 /\ ~done
    /\ relay = "piping" =>
          /\ lease = "open" /\ ~done
          /\ broker.state \in {"open", "gone"} /\ broker.head = "response"
          /\ wire # <<>> /\ wire[1] = "response"
          /\ broker.state = "open" => broker.data + 1 = read
    /\ relay = "late" => lease # "open"
    /\ lease = "no_error" => rst = "no_error"

(* A response that was ended is final. *)
EndedIsFinal ==
    broker.state = "ended" /\ broker.head = "response" /\ ~CutShort =>
        ended /\ response.finished /\ broker.data + 1 = Len(wire)

(* cancelLease no longer listens when there is nothing left to cancel. *)
AbortHeard ==
    /\ ~armed => done \/ lease # "open"
    /\ broker.state = "gone" => lease # "open" \/ done \/ relay = "over"

RelayInv == GuestInv /\ RelayTypeOK /\ RelayInStep /\ EndedIsFinal /\ AbortHeard
================================================================================
