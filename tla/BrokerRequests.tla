----------------------------- MODULE BrokerRequests -----------------------------
(***************************************************************************)
(* One request through the Dispatcher of the Node Broker: the upload is     *)
(* teed into a replay buffer, the answer of the first target may be an      *)
(* internal redirect that is followed with the buffered body, and the       *)
(* controller tells the handler how it ended.                               *)
(*                                                                          *)
(* A step is what runs between two awaits or two events.  The target, its   *)
(* Host and the HTTP/2 transport are external: they read the upload, answer,*)
(* or reset the stream with an error code or with CANCEL, for which Node    *)
(* emits no 'error': the body that flows ends like a whole one, one that is *)
(* paused only closes.                                                      *)
(***************************************************************************)
EXTENDS Integers, Sequences

CONSTANTS MaxChunks,      \* chunks of the longest upload (bound)
          ReplayLimit,    \* internalRedirectReplayBufferBytes, in chunks
          TeeLimit,       \* high water mark of the tee, in chunks
          MaxRedirects,   \* maxInternalRedirects
          MaxData         \* chunks of the longest response (bound)

ASSUME BrokerConstants ==
    /\ MaxChunks \in Nat /\ ReplayLimit \in Nat /\ TeeLimit \in Nat \ {0}
    /\ MaxRedirects \in Nat /\ MaxData \in Nat

VARIABLES
    session,    \* the Broker has a session
    pc,         \* what the dispatch waits for
    hop,        \* redirects followed
    ctl,        \* terminalState of the controller
    calls,      \* the callbacks of the handler, in order
    source,     \* the upload of the caller
    total,      \* its chunks, all told
    taken,      \* those the tee was given
    tee,        \* the PassThrough piped to the stream of the first hop
    decision,   \* replayDecision
    buffered,   \* replayChunks
    stream,     \* the stream of this hop
    resp,       \* its response headers
    replayed    \* chunks sent with each followed redirect

vars == <<session, pc, hop, ctl, calls, source, total, taken, tee, decision, buffered,
          stream, resp, replayed>>

body == <<source, total, taken, tee, decision, buffered>>

Aborted == ctl = "failed"
Attached == stream # "none"      \* attachRequestBody has run, and requestOnce
Settled(d) == IF decision = "open" THEN d ELSE decision

----------------------------------------------------------------------------
(* Ends *)

(* cleanupBodyPipe and abortSource: the tee is destroyed, and with it a     *)
(* source that has not ended.                                               *)
DropBody ==
    /\ tee' = [tee EXCEPT !.st = "gone", !.buf = 0]
    /\ source' = IF source = "open" THEN "gone" ELSE source
    /\ decision' = IF source = "open" THEN Settled("none") ELSE decision
    /\ UNCHANGED <<total, taken, buffered>>

(* Mutant: a dispatch that is over can fail again. *)
FaultyFail(tell) ==
    /\ ctl' = "failed" /\ calls' = calls \o tell \o <<"error">>
    /\ stream' = "gone"
    /\ DropBody

(* VerserDispatchController.abort: the first terminal state wins, and the   *)
(* handler is told.                                                         *)
Terminal(tell) ==
    IF ctl = "active"
    THEN ctl' = "failed" /\ calls' = calls \o tell \o <<"error">>
    ELSE UNCHANGED ctl /\ calls' = calls \o tell

(* abort with the bodies attached: the signal destroys the stream, and the  *)
(* bodies are destroyed.                                                    *)
Fail(tell) ==
    /\ Terminal(tell)
    /\ stream' = "gone"
    /\ DropBody

----------------------------------------------------------------------------
(* The dispatch *)

(* requestOnce up to the wait for the headers *)
requestOnce(s) == IF s THEN pc' = "headers" /\ stream' = "open"
                       ELSE pc' = "reject" /\ stream' = "gone"

(* dispatch and dispatchAsync: a handler that throws or aborts, an upgrade, *)
(* a missing route, or a request.  All but the last fail before the body is *)
(* attached to the controller: abort finds nothing to destroy.              *)
dispatch ==
    /\ pc = "start"
    /\ \/ Terminal(<<>>) /\ pc' = "over" /\ UNCHANGED <<stream, body>>
       \/ /\ calls' = calls
          /\ requestOnce(session)
          /\ UNCHANGED <<ctl, body>>
    /\ UNCHANGED <<session, hop, resp, replayed>>

(* The handler, the caller or the fetch signal aborts, or the source fails. *)
abort ==
    /\ pc \notin {"start", "over"} /\ ctl = "active"
    /\ Fail(<<>>)
    /\ pc' = CASE pc = "headers" -> "reject"
               [] pc \in {"body", "lost"} -> "over"
               [] OTHER -> pc
    /\ UNCHANGED <<session, hop, resp, replayed>>

(* Mutant: past the limit the buffer just stops growing. *)
FaultyOnData ==
    /\ taken' = taken + 1
    /\ buffered' = IF buffered < ReplayLimit THEN buffered + 1 ELSE buffered
    /\ tee' = [tee EXCEPT !.buf = @ + 1, !.paused = tee.buf + 1 >= TeeLimit]

(* onData: past the limit the buffer is dropped for good; a full tee pauses *)
(* the source.                                                              *)
onData ==
    /\ taken' = taken + 1
    /\ buffered' = IF taken + 1 > ReplayLimit THEN -1 ELSE buffered + 1
    /\ tee' = [tee EXCEPT !.buf = @ + 1, !.paused = tee.buf + 1 >= TeeLimit]

SourceData ==
    /\ Attached /\ source = "open" /\ tee.st = "open" /\ ~tee.paused
    /\ taken < total
    /\ onData
    /\ UNCHANGED <<session, pc, hop, ctl, calls, source, total, decision, stream, resp,
                   replayed>>

(* Mutant: the end of the source does not decide about the replay. *)
FaultyOnEnd ==
    /\ source' = "ended"
    /\ tee' = [tee EXCEPT !.st = "ending"]
    /\ UNCHANGED decision

onEnd ==
    /\ source' = "ended"
    /\ tee' = [tee EXCEPT !.st = "ending"]
    /\ decision' = Settled(IF buffered >= 0 THEN "chunks" ELSE "none")

SourceEnd ==
    /\ Attached /\ source = "open" /\ tee.st = "open" /\ ~tee.paused
    /\ taken = total
    /\ onEnd
    /\ UNCHANGED <<session, pc, hop, ctl, calls, total, taken, buffered, stream, resp, replayed>>

(* The target reads the upload of the first hop; a tee that was full has    *)
(* drained when it is empty, and resumes the source.                        *)
TargetReads ==
    /\ stream = "open" /\ hop = 0
    /\ \/ tee.buf > 0 /\ tee' = [tee EXCEPT !.buf = @ - 1, !.paused = @ /\ tee.buf > 1]
       \/ tee.buf = 0 /\ tee.st = "ending" /\ tee' = [tee EXCEPT !.st = "ended"]
    /\ UNCHANGED <<session, pc, hop, ctl, calls, source, total, taken, decision, buffered, stream,
                   resp, replayed>>

(* What an application response is: a 307 or 308 whose Location names a     *)
(* route the Broker knows is a redirect, anything else is the answer.       *)
resolveInternalRedirect == {"final", "redirect"}

(* The 'response' event: an application response resolves the promise of    *)
(* requestOnce, an error response or unreadable metadata rejects it.        *)
TargetResponds ==
    /\ pc = "headers" /\ stream = "open"
    /\ \/ \E kind \in resolveInternalRedirect : resp' = kind /\ pc' = "resolved" /\ UNCHANGED stream
       \/ pc' = "reject" /\ stream' \in {"open", "gone"} /\ UNCHANGED resp
    /\ IF stream' = "gone" THEN DropBody ELSE UNCHANGED body
    /\ UNCHANGED <<session, hop, ctl, calls, replayed>>

(* requestWithInternalRedirects, when requestOnce has resolved *)
Resolved ==
    /\ pc = "resolved"
    /\ \/ /\ Aborted
          /\ pc' = "reject" /\ stream' = "gone"
          /\ DropBody
       \/ /\ ~Aborted /\ resp = "final"
          /\ pc' = "handoff"
          /\ UNCHANGED <<stream, body>>
       \/ /\ ~Aborted /\ resp = "redirect" /\ hop >= MaxRedirects
          /\ pc' = "reject" /\ stream' = "gone"
          /\ DropBody
       \/ /\ ~Aborted /\ resp = "redirect" /\ hop < MaxRedirects
          /\ pc' = "replay"
          /\ UNCHANGED <<stream, body>>
    /\ UNCHANGED <<session, hop, ctl, calls, resp, replayed>>

(* awaitReplayOrAbort and the rest of requestWithInternalRedirects: without *)
(* a body to replay the redirect is the answer.                             *)
Replay ==
    /\ pc = "replay"
    /\ \/ /\ Aborted
          /\ pc' = "reject"
          /\ UNCHANGED <<hop, stream, resp, replayed, body>>
       \/ /\ ~Aborted /\ decision = "none"
          /\ pc' = "handoff"
          /\ UNCHANGED <<hop, stream, resp, replayed, body>>
       \/ /\ ~Aborted /\ decision = "chunks"
          /\ hop' = hop + 1
          /\ replayed' = Append(replayed, buffered)
          /\ resp' = "none"
          /\ requestOnce(session)
          /\ DropBody
    /\ UNCHANGED <<session, ctl, calls>>

(* The promise of request() is rejected: the replay body is aborted and     *)
(* failFromUnknown called.                                                  *)
Reject ==
    /\ pc = "reject"
    /\ Fail(<<>>)
    /\ pc' = "over"
    /\ UNCHANGED <<session, hop, resp, replayed>>

(* dispatchAsync, when request() has resolved: the handler gets the headers *)
(* and may throw; the listeners of the body come too late when the stream   *)
(* is gone.                                                                 *)
Handoff ==
    /\ pc = "handoff"
    /\ \/ Aborted /\ pc' = "over" /\ stream' = "gone" /\ DropBody /\ UNCHANGED <<ctl, calls>>
       \/ ~Aborted /\ pc' = "over" /\ Fail(<<"start">>)
       \/ /\ ~Aborted
          /\ calls' = Append(calls, "start")
          /\ pc' = IF stream = "open" THEN "body" ELSE "lost"
          /\ UNCHANGED <<ctl, stream, body>>
    /\ UNCHANGED <<session, hop, resp, replayed>>

(* 'data' of the response body, to a handler that may throw *)
ResponseData ==
    /\ pc = "body" /\ stream = "open"
    /\ Len(SelectSeq(calls, LAMBDA c : c = "data")) < MaxData
    /\ \/ calls' = Append(calls, "data") /\ UNCHANGED <<pc, ctl, stream, body>>
       \/ Fail(<<"data">>) /\ pc' = "over"
    /\ UNCHANGED <<session, hop, resp, replayed>>

(* 'end' of the response body: success is committed before the handler is   *)
(* told; a handler that throws is told of its error.                        *)
EndOfBody ==
    /\ ctl' = "completed"
    /\ \E thrown \in {<<>>, <<"error">>} : calls' = calls \o <<"end">> \o thrown
    /\ pc' = "over" /\ stream' = "gone"
    /\ DropBody

ResponseEnd ==
    /\ pc = "body" /\ stream = "open"
    /\ EndOfBody
    /\ UNCHANGED <<session, hop, resp, replayed>>

(* The stream is reset.  Before the headers requestOnce rejects.  A response*)
(* body fails with an error; with CANCEL it ends, when nothing pauses it,   *)
(* or just closes.                                                          *)
Reset(error) ==
    /\ stream = "open"
    /\ \/ pc = "body" /\ error /\ Fail(<<>>) /\ pc' = "over"
       \/ pc = "body" /\ ~error /\ EndOfBody
       \/ /\ ~(pc = "body" /\ error)
          /\ stream' = "gone" /\ DropBody /\ UNCHANGED <<ctl, calls>>
          /\ pc' = CASE pc = "headers" -> "reject"
                     [] pc = "body" -> "lost"
                     [] OTHER -> pc
    /\ UNCHANGED <<hop, resp, replayed>>

StreamReset == \E error \in BOOLEAN : Reset(error) /\ UNCHANGED session

(* close(), or the session is lost *)
close ==
    /\ session /\ session' = FALSE
    /\ IF stream = "open" THEN Reset(FALSE)
       ELSE UNCHANGED <<pc, hop, ctl, calls, body, stream, resp, replayed>>

connect ==
    /\ ~session /\ session' = TRUE
    /\ UNCHANGED <<pc, hop, ctl, calls, body, stream, resp, replayed>>

----------------------------------------------------------------------------
(* The upload is a stream, teed as it is read, or a list of chunks: that is *)
(* written at once, and whether it can be replayed is known beforehand.     *)
createReplayableRequestBody ==
    \/ /\ source = "open" /\ taken = 0 /\ buffered = 0 /\ decision = "open"
       /\ tee = [st |-> "open", buf |-> 0, paused |-> FALSE]
    \/ /\ source = "ended" /\ taken = total
       /\ buffered = IF total > ReplayLimit THEN -1 ELSE total
       /\ decision = IF total > ReplayLimit THEN "none" ELSE "chunks"
       /\ tee = [st |-> "ended", buf |-> 0, paused |-> FALSE]

Init ==
    /\ session = TRUE
    /\ pc = "start" /\ hop = 0 /\ ctl = "active" /\ calls = <<>>
    /\ total \in 0 .. MaxChunks
    /\ createReplayableRequestBody
    /\ stream = "none" /\ resp = "none" /\ replayed = <<>>

Next ==
    \/ dispatch \/ abort
    \/ SourceData \/ SourceEnd
    \/ TargetReads \/ TargetResponds \/ StreamReset
    \/ Resolved \/ Replay \/ Reject \/ Handoff \/ ResponseData \/ ResponseEnd
    \/ close \/ connect

Spec == Init /\ [][Next]_vars

(* The source produces, the target reads and answers, and what was queued   *)
(* runs; nobody has to abort, reset, close or connect.                      *)
FairSpec ==
    /\ Spec
    /\ WF_vars(dispatch)
    /\ WF_vars(SourceData) /\ WF_vars(SourceEnd)
    /\ WF_vars(TargetReads) /\ WF_vars(TargetResponds)
    /\ WF_vars(Resolved) /\ WF_vars(Replay) /\ WF_vars(Reject) /\ WF_vars(Handoff)
    /\ WF_vars(ResponseEnd)

----------------------------------------------------------------------------
(* Properties *)

(* Every variable has its type; no more redirects are followed than allowed *)
(* and the tee holds no more than its mark.                                 *)
TypeOK ==
    /\ session \in BOOLEAN
    /\ pc \in {"start", "headers", "resolved", "replay", "reject", "handoff", "body", "lost", "over"}
    /\ hop \in 0 .. MaxRedirects
    /\ ctl \in {"active", "failed", "completed"}
    /\ source \in {"open", "ended", "gone"}
    /\ total \in 0 .. MaxChunks /\ taken \in 0 .. total
    /\ tee \in [st : {"open", "ending", "ended", "gone"}, buf : 0 .. TeeLimit, paused : BOOLEAN]
    /\ decision \in {"open", "chunks", "none"}
    /\ buffered \in -1 .. ReplayLimit
    /\ stream \in {"none", "open", "gone"}
    /\ resp \in {"none", "final", "redirect"}

Ends == {"end", "error"}

(* The handler hears of one end, at most once, whatever aborts, resets and  *)
(* exceptions race: the headers come first, nothing follows an error, and   *)
(* only the error of a handler that threw follows an end.                   *)
CallbackOrder ==
    \A i \in 1 .. Len(calls) :
        /\ calls[i] = "start" => i = 1
        /\ calls[i] \in {"data", "end"} => calls[1] = "start"
        /\ calls[i] = "error" => i = Len(calls)
        /\ calls[i] = "end" => /\ \A j \in 1 .. i - 1 : calls[j] # "end"
                               /\ \A j \in i + 1 .. Len(calls) : calls[j] = "error"

(* A redirect is followed with the whole upload or not at all: the source   *)
(* had ended, and the buffer held every chunk of it.                        *)
ReplayWhole == \A i \in 1 .. Len(replayed) : replayed[i] = total

(* When a dispatch with a body attached is over its stream is closed and    *)
(* the upload ended or destroyed, the source of the caller included.  One   *)
(* that failed before leaves the source to the caller, open and untouched.  *)
NothingLeft ==
    /\ pc = "start" => ~Attached
    /\ pc = "over" => ctl # "active"
    /\ pc = "over" /\ Attached => stream = "gone" /\ source # "open" /\ tee.st # "open"
    /\ ~Attached => /\ source # "gone"
                    /\ source = "open" => taken = 0

(* However a dispatch ends, it ends once and leaves nothing behind that it  *)
(* had taken.                                                               *)
EndsOnce == CallbackOrder /\ NothingLeft

(* Every dispatch ends with a callback, unless the stream was reset between *)
(* the headers and the end of the body without an error the listeners see.  *)
DispatchEnds == <>(ctl # "active" \/ pc = "lost")

----------------------------------------------------------------------------
(* The inductive invariant *)

Callbacks == {"start", "data", "end", "error"}

(* A handler is told nothing before the hand-off but an abort; from then on *)
(* it has its headers, and an end as soon as the controller has one.        *)
CallsInStep ==
    /\ calls \in Seq(Callbacks)
    /\ ctl = "active" =>
          /\ (pc \in {"body", "lost"}) <=> (calls # <<>>)
          /\ \A i \in 1 .. Len(calls) : calls[i] = IF i = 1 THEN "start" ELSE "data"
    /\ pc \in {"body", "lost"} => ctl = "active"
    /\ ctl = "completed" => pc = "over"

(* While the source is read the buffer has all of it or is given up, and    *)
(* the decision to replay is made with the whole of it.                     *)
BufferExact ==
    /\ source = "open" => /\ decision = "open"
                          /\ buffered = IF taken > ReplayLimit THEN -1 ELSE taken
    /\ decision = "chunks" => buffered = total
    /\ replayed \in Seq(Int)

(* Room in the tee, and for one more redirect. *)
LimitsKept ==
    /\ ~tee.paused => tee.buf < TeeLimit
    /\ pc = "replay" => hop < MaxRedirects

DispatchInv ==
    TypeOK /\ CallsInStep /\ BufferExact /\ LimitsKept /\ CallbackOrder /\ NothingLeft /\ ReplayWhole
================================================================================
