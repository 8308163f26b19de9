------------------------------ MODULE BrokerSocket ------------------------------
(***************************************************************************)
(* One HTTP/1 request through the Agent of the Node Broker: the Duplex that *)
(* Node's HTTP client takes for its connection, which cuts the head off the *)
(* bytes it is written, decodes the body into a stream for                  *)
(* broker.request(), and pushes the answer back as HTTP/1 bytes.            *)
(*                                                                          *)
(* Bytes are counted in units.  A head is HeadUnits long.  A chunk is two   *)
(* units of body; with Transfer-Encoding: chunked a size line of two units  *)
(* precedes it and the closing line is two more, so a write can end in the  *)
(* middle of anything.  The HTTP client, the streams of Node and            *)
(* broker.request() are external: a PassThrough passes what it is given to  *)
(* its readable side while that is below the high water mark, refuses more  *)
(* (write() returns false) when its writable side reaches the mark, and     *)
(* says 'drain' when the writable side is empty again, unless it is ending. *)
(***************************************************************************)
EXTENDS Integers

CONSTANTS HeadUnits,     \* the length of the head
          HeadLimit,     \* maxRequestHeaderBytes
          PendingLimit,  \* maxChunkDecoderPendingBytes
          BodyMark,      \* high water mark of either side of the body stream
          ReadMark,      \* high water mark of the socket's readable side
          MaxBodyChunks, \* chunks of the longest request body (bound)
          MaxResponse    \* units of the longest response body (bound)

ASSUME SocketConstants ==
    /\ HeadUnits \in Nat \ {0} /\ HeadLimit \in Nat /\ PendingLimit \in Nat
    /\ BodyMark \in Nat \ {0} /\ ReadMark \in Nat \ {0}
    /\ MaxBodyChunks \in Nat /\ MaxResponse \in Nat

VARIABLES
    request,    \* its body: how many chunks, and whether it has
                \* Transfer-Encoding: chunked or else Content-Length
    sent,       \* units the client has written
    waiting,    \* its last write waits for 'drain' of the body stream
    head,       \* requestBuffer
    bodyStream, \* its state, what was written to it, and its two sides
    decoder,    \* ChunkedBodyDecoder: pending, expectedChunkBytes is known
    call,       \* the promise of broker.request()
    aborted,    \* the signal given to it
    response,   \* response.body
    produced,   \* units it has produced
    held,       \* pendingResponseWriteCallback
    writable,   \* the socket's writable side, from end() to _final
    unread,     \* the socket's readable buffer
    finished,   \* responseFinished
    ending,     \* the destroy() of process.nextTick
    gone        \* destroyed, and with an error or without

socketVars == <<request, sent, waiting, head, bodyStream, decoder, call, aborted, response,
                produced, held, unread, writable, finished, ending, gone>>

upload == <<sent, waiting, head, decoder>>
download == <<produced, unread, writable>>

Alive == gone = "no"
Chunked == request.chunked
Whole == 2 * request.chunks
Length == HeadUnits + (IF Chunked THEN 4 * request.chunks + 2 ELSE Whole)

----------------------------------------------------------------------------
(* The body stream *)

(* PassThrough.write of n units. *)
Passed(b, n) ==
    LET through == b.out < BodyMark
    IN  [st |-> b.st, given |-> b.given + n,
         in |-> IF through THEN b.in ELSE b.in + n,
         out |-> IF through THEN b.out + n ELSE b.out,
         full |-> b.in + n >= BodyMark]

Ended(b) == IF b.st = "open" THEN [b EXCEPT !.st = "ended"] ELSE b
Destroyed(b) == IF b.st = "none" THEN b ELSE [b EXCEPT !.st = "gone"]

(* The reader takes a unit, and the writable side moves on.  An ending      *)
(* stream does not say 'drain'.                                             *)
Taken(b) ==
    LET moves == b.out - 1 < BodyMark
    IN  [b EXCEPT !.out = @ - 1 + (IF moves THEN b.in ELSE 0),
                  !.in = IF moves THEN 0 ELSE @]

----------------------------------------------------------------------------
(* destroy() *)

(* _destroy: a request without a whole answer is aborted, both bodies end,  *)
(* the held response write is let go.                                       *)
Destroy(b, how) ==
    /\ gone' = how
    /\ aborted' = (aborted \/ ~finished)
    /\ bodyStream' = IF how = "error" THEN Destroyed(b) ELSE Ended(b)
    /\ response' = IF response = "open" THEN "gone" ELSE response
    /\ held' = FALSE /\ ending' = FALSE

----------------------------------------------------------------------------
(* The request *)

(* One turn of the loop of ChunkedBodyDecoder.flush: a size line, the       *)
(* closing line, or a chunk that is all there.                              *)
FlushTurn(s) ==
    IF s.pending < 2 THEN [s EXCEPT !.done = TRUE]
    ELSE IF s.sized
         THEN LET b == Passed(s.body, 2)
              IN  [pending |-> s.pending - 2, sized |-> FALSE, body |-> b, done |-> b.full]
         ELSE IF s.body.given = Whole
              THEN [pending |-> 0, sized |-> FALSE, body |-> Ended(s.body), done |-> TRUE]
              ELSE [pending |-> s.pending - 2, sized |-> TRUE, body |-> s.body, done |-> FALSE]

(* Mutant: the chunk a refused write took is flushed as if it were still    *)
(* pending.                                                                 *)
FaultyFlush(b, pending, sized) ==
    LET turns == 1 + pending \div 2
        after[n \in 0..turns] ==
            IF n = 0 THEN [pending |-> pending, sized |-> sized, body |-> b, done |-> FALSE]
            ELSE LET s == after[n - 1] IN IF s.done THEN s ELSE FlushTurn(s)
        end == after[turns]
    IN  IF end.body.full /\ ~b.full THEN [end EXCEPT !.pending = @ + 2, !.sized = TRUE] ELSE end

(* ChunkedBodyDecoder.flush: turns until a write is refused, the body ends, *)
(* or what is pending is too short.                                         *)
flush(b, pending, sized) ==
    LET turns == 1 + pending \div 2
        after[n \in 0..turns] ==
            IF n = 0 THEN [pending |-> pending, sized |-> sized, body |-> b, done |-> FALSE]
            ELSE LET s == after[n - 1] IN IF s.done THEN s ELSE FlushTurn(s)
    IN  after[turns]

(* writeBodyBytes with a decoder.  The line and number checks of the        *)
(* decoder reject nothing that Node's HTTP client writes.                   *)
WriteChunked(b, n) ==
    LET s == flush(b, decoder.pending + n, decoder.sized)
    IN  IF decoder.pending + n > PendingLimit
        THEN Destroy(b, "error") /\ UNCHANGED <<waiting, decoder>>
        ELSE /\ bodyStream' = s.body
             /\ decoder' = [pending |-> s.pending, sized |-> s.sized]
             /\ waiting' = s.body.full
             /\ UNCHANGED <<gone, aborted, response, held, ending>>

(* writeBodyBytes with a Content-Length: a refused write returns before the *)
(* count is compared.                                                       *)
WriteCounted(b, n) ==
    LET p == IF n > 0 THEN Passed(b, n) ELSE b
    IN  /\ bodyStream' = IF ~p.full /\ p.given >= Whole THEN Ended(p) ELSE p
        /\ waiting' = p.full
        /\ UNCHANGED <<gone, aborted, response, held, ending, decoder>>

writeBodyBytes(b, n) == IF Chunked THEN WriteChunked(b, n) ELSE WriteCounted(b, n)

(* consumeRequestBytes until the head is whole.  The limit on the head is   *)
(* compared with all that was written with it.  The rest opens the body and *)
(* starts broker.request().                                                 *)
ConsumeHead(n) ==
    IF head + n > HeadLimit
    THEN /\ Destroy(bodyStream, "error")
         /\ head' = head + n
         /\ UNCHANGED <<waiting, decoder, call>>
    ELSE IF head + n < HeadUnits
         THEN /\ head' = head + n
              /\ UNCHANGED <<waiting, decoder, call, bodyStream, gone, aborted, response, held, ending>>
         ELSE LET open == [bodyStream EXCEPT !.st = "open"]
              IN  /\ head' = 0 /\ call' = "pending"
                  /\ writeBodyBytes(open, head + n - HeadUnits)

(* _write of the next n units; Node writes again when the callback is run.  *)
Write(n) ==
    /\ Alive /\ ~waiting /\ ~ending /\ writable = "open" /\ n \in 1..(Length - sent)
    /\ sent' = sent + n
    /\ IF bodyStream.st = "none" THEN ConsumeHead(n)
       ELSE writeBodyBytes(bodyStream, n) /\ UNCHANGED <<head, call>>
    /\ UNCHANGED <<request, download, finished>>

(* 'drain' of the body stream: waitForBodyDrain flushes the decoder, waits  *)
(* again when it is refused, and otherwise runs the callback of the write.  *)
waitForBodyDrain ==
    LET b == [bodyStream EXCEPT !.full = FALSE]
        s == flush(b, decoder.pending, decoder.sized)
    IN  /\ bodyStream.st = "open" /\ bodyStream.full /\ bodyStream.in = 0
        /\ IF Chunked
           THEN /\ bodyStream' = s.body
                /\ decoder' = [pending |-> s.pending, sized |-> s.sized]
                /\ waiting' = s.body.full
           ELSE bodyStream' = b /\ waiting' = FALSE /\ UNCHANGED decoder
        /\ UNCHANGED <<request, sent, head, call, aborted, response, download, held,
                       finished, ending, gone>>

(* The Broker sends a unit of the body (external). *)
TargetReadsBody ==
    /\ call \in {"pending", "answered"} /\ ~aborted /\ bodyStream.st \in {"open", "ended"}
    /\ bodyStream.out > 0
    /\ bodyStream' = Taken(bodyStream)
    /\ UNCHANGED <<request, upload, call, aborted, response, download, held, finished, ending,
                   gone>>

----------------------------------------------------------------------------
(* The answer *)

(* forwardRequest past its await: the head is pushed and the body piped; an *)
(* answer for a socket that is gone is destroyed.  A body whose stream was  *)
(* reset in the meantime is piped too, and says nothing any more ("lost").  *)
Answer ==
    /\ call = "pending"
    /\ call' = "answered"
    /\ IF Alive
       THEN response' \in {"open", "lost"} /\ unread' = unread + 1
       ELSE response' = "gone" /\ UNCHANGED unread
    /\ UNCHANGED <<request, upload, bodyStream, aborted, produced, held, writable, finished,
                   ending, gone>>

(* broker.request() rejects, of itself or for the signal. *)
RequestRejects ==
    /\ call = "pending"
    /\ call' = "failed"
    /\ IF Alive THEN Destroy(bodyStream, "error")
       ELSE UNCHANGED <<gone, aborted, bodyStream, response, held, ending>>
    /\ UNCHANGED <<request, upload, download, finished>>

(* The sink pushes a unit and holds the callback when the socket is full. *)
SinkWrite ==
    /\ response = "open" /\ ~held /\ produced < MaxResponse
    /\ produced' = produced + 1
    /\ unread' = unread + 1
    /\ held' = (unread + 1 >= ReadMark)
    /\ UNCHANGED <<request, upload, bodyStream, call, aborted, response, writable, finished,
                   ending, gone>>

(* The sink is final: the upload ends, and the socket one tick later. *)
SinkFinal ==
    /\ response = "open" /\ ~held
    /\ response' = "ended"
    /\ bodyStream' = Ended(bodyStream)
    /\ finished' = TRUE /\ ending' = TRUE
    /\ UNCHANGED <<request, upload, call, aborted, download, held, gone>>

(* The response body fails. *)
ResponseError ==
    /\ response = "open"
    /\ Destroy(bodyStream, "error")
    /\ UNCHANGED <<request, upload, call, download, finished>>

(* The stream of a response body that the sink has paused is reset without  *)
(* an error, by close() of the Broker or by CANCEL: it closes, and neither  *)
(* 'end' nor 'error' is emitted.                                            *)
ResponseLost ==
    /\ response = "open" /\ held
    /\ response' = "lost"
    /\ UNCHANGED <<request, upload, bodyStream, call, aborted, download, held, finished, ending,
                   gone>>

(* Mutant: a read does not continue the response. *)
ReadOnly ==
    /\ Alive /\ unread > 0
    /\ unread' = unread - 1
    /\ UNCHANGED <<request, upload, bodyStream, call, aborted, response, produced, held, writable,
                   finished, ending, gone>>

(* The HTTP client reads; below the mark _read lets the held callback go. *)
ClientReads ==
    /\ Alive /\ unread > 0
    /\ unread' = unread - 1
    /\ held' = (held /\ unread - 1 >= ReadMark)
    /\ UNCHANGED <<request, upload, bodyStream, call, aborted, response, produced, writable,
                   finished, ending, gone>>

(* The client has read an answer to the end its headers give it: the Agent  *)
(* keeps no connection alive, so it calls end() on the socket, whatever is  *)
(* left of the upload.                                                      *)
ClientEnds ==
    /\ Alive /\ call = "answered" /\ unread = 0 /\ writable = "open"
    /\ writable' = "ending"
    /\ UNCHANGED <<request, upload, bodyStream, call, aborted, response, produced, unread, held,
                   finished, ending, gone>>

(* _final, once the last write has had its callback: the upload ends. *)
Final ==
    /\ Alive /\ writable = "ending" /\ ~waiting
    /\ writable' = "finished"
    /\ bodyStream' = Ended(bodyStream)
    /\ UNCHANGED <<request, upload, call, aborted, response, produced, unread, held, finished,
                   ending, gone>>

(* The destroy() of process.nextTick. *)
Tick ==
    /\ Alive /\ ending
    /\ Destroy(bodyStream, "clean")
    /\ UNCHANGED <<request, upload, call, download, finished>>

(* The client destroys its request, or its Agent. *)
ClientAborts ==
    /\ Alive
    /\ \E how \in {"clean", "error"} : Destroy(bodyStream, how)
    /\ UNCHANGED <<request, upload, call, download, finished>>

----------------------------------------------------------------------------
SocketInit ==
    /\ request \in [chunks : 0..MaxBodyChunks, chunked : BOOLEAN]
    /\ sent = 0 /\ waiting = FALSE /\ head = 0
    /\ bodyStream = [st |-> "none", given |-> 0, in |-> 0, out |-> 0, full |-> FALSE]
    /\ decoder = [pending |-> 0, sized |-> FALSE]
    /\ call = "none" /\ aborted = FALSE
    /\ response = "none" /\ produced = 0 /\ held = FALSE /\ unread = 0
    /\ writable = "open" /\ finished = FALSE /\ ending = FALSE /\ gone = "no"

SocketNext ==
    \/ \E n \in 1..(HeadUnits + 4 * MaxBodyChunks + 2) : Write(n)
    \/ waitForBodyDrain
    \/ TargetReadsBody
    \/ Answer
    \/ RequestRejects
    \/ SinkWrite
    \/ SinkFinal
    \/ ResponseError
    \/ ResponseLost
    \/ ClientReads
    \/ ClientEnds
    \/ Final
    \/ Tick
    \/ ClientAborts

SocketSpec == SocketInit /\ [][SocketNext]_socketVars

(* The client writes its request and reads the answer, the target reads the *)
(* body and answers when it has it all, timers and events arrive.           *)
SocketFairSpec ==
    /\ SocketSpec
    /\ WF_socketVars(\E n \in 1..(HeadUnits + 4 * MaxBodyChunks + 2) : Write(n))
    /\ WF_socketVars(waitForBodyDrain)
    /\ WF_socketVars(TargetReadsBody)
    /\ WF_socketVars(bodyStream.st = "ended" /\ bodyStream.out = 0 /\ (Answer \/ RequestRejects))
    /\ WF_socketVars(SinkFinal)
    /\ WF_socketVars(ClientReads)
    /\ WF_socketVars(Final)
    /\ WF_socketVars(Tick)

----------------------------------------------------------------------------
(* Properties *)

SocketTypeOK ==
    /\ request \in [chunks : 0..MaxBodyChunks, chunked : BOOLEAN] /\ sent \in 0..Length /\ waiting \in BOOLEAN
    /\ head \in 0..Length
    /\ bodyStream \in [st : {"none", "open", "ended", "gone"}, given : 0..Whole,
                       in : 0..Whole, out : 0..Whole, full : BOOLEAN]
    /\ decoder \in [pending : 0..PendingLimit, sized : BOOLEAN]
    /\ call \in {"none", "pending", "answered", "failed"} /\ aborted \in BOOLEAN
    /\ response \in {"none", "open", "ended", "lost", "gone"} /\ produced \in 0..MaxResponse
    /\ held \in BOOLEAN /\ unread \in 0..(MaxResponse + 1)
    /\ writable \in {"open", "ending", "finished"}
    /\ finished \in BOOLEAN /\ ending \in BOOLEAN /\ gone \in {"no", "clean", "error"}

(* However the request was cut into writes and however often the body       *)
(* stream refused one, a target that sees the body end has had the whole    *)
(* body, unless the answer was over, the client had read it or was gone     *)
(* first, and one that is still open has been given no byte twice and none  *)
(* that was not sent.                                                       *)
BodyExact ==
    /\ bodyStream.st = "ended" /\ Alive /\ ~finished /\ writable # "finished"
          => bodyStream.given = Whole
    /\ bodyStream.given + (IF Chunked THEN bodyStream.given ELSE 0) <= sent

(* The last write of a Content-Length body was refused: writeBodyBytes      *)
(* returns before it compares the count, and waitForBodyDrain ends nothing. *)
CountForgotten == ~Chunked /\ bodyStream.st = "open" /\ bodyStream.given = Whole

(* A client whose last byte was taken has its body ended: nothing else will *)
(* ever come to end it.  Only a Content-Length body can be forgotten.       *)
BodyEnds ==
    Alive /\ sent = Length /\ ~waiting => bodyStream.st = "ended" \/ CountForgotten

(* A socket that is gone leaves nothing behind: the request it made is      *)
(* aborted or answered, its body is over, and no response body flows.       *)
NothingLeftOpen ==
    ~Alive => /\ bodyStream.st # "open"
              /\ call = "pending" => aborted
              /\ response # "open"

(* What Node's HTTP client and the target may rely on. *)
SocketSound == BodyExact /\ BodyEnds /\ NothingLeftOpen

(* Backpressure of either direction is let go: a request whose target reads *)
(* the body to its end and whose client reads the answer is over.  Two      *)
(* kinds are not, unless the client gives up: a Content-Length body whose   *)
(* end was forgotten, and an answer whose body was lost, for which nothing  *)
(* finishes the sink.                                                       *)
RequestSettles == <>(gone # "no" \/ CountForgotten \/ response = "lost")

----------------------------------------------------------------------------
(* The inductive invariant *)

(* What the body stream was given is in its two sides or was read, and a    *)
(* decoder gives it whole chunks.                                           *)
StreamShape ==
    /\ bodyStream.in + bodyStream.out <= bodyStream.given
    /\ Chunked => \E k \in 0..request.chunks : bodyStream.given = 2 * k

(* Every unit the client has written is in the head, in the decoder or in   *)
(* the body: none is lost and none counted twice, whenever the body stream  *)
(* refused.  A write that does not wait leaves less than a line or a chunk. *)
BytesAddUp ==
    Alive =>
        /\ bodyStream.st # "gone"
        /\ bodyStream.st = "none" =>
             /\ head = sent /\ sent < HeadUnits /\ ~waiting /\ ~bodyStream.full
             /\ bodyStream.given = 0 /\ decoder.pending = 0 /\ ~decoder.sized
        /\ bodyStream.st = "open" =>
             /\ waiting = bodyStream.full
             /\ Chunked => /\ sent = HeadUnits + 2 * bodyStream.given + decoder.pending
                                     + (IF decoder.sized THEN 2 ELSE 0)
                           /\ decoder.sized => bodyStream.given < Whole
                           /\ ~waiting => decoder.pending < 2
             /\ ~Chunked => sent = HeadUnits + bodyStream.given
        /\ bodyStream.st = "ended" /\ ~finished /\ writable # "finished" => sent = Length

(* broker.request() is called with the body and answered before a response  *)
(* flows; a response that is over ends the socket with the next tick.       *)
CallInStep ==
    /\ bodyStream.st = "none" <=> call = "none"
    /\ response # "none" => call = "answered"
    /\ finished => response = "ended" /\ bodyStream.st # "open"
    /\ ending => finished
    /\ finished /\ Alive => ending
    /\ unread <= produced + (IF call = "answered" THEN 1 ELSE 0)

SocketInv ==
    SocketTypeOK /\ StreamShape /\ BytesAddUp /\ CallInStep /\ BodyExact /\ NothingLeftOpen
=================================================================================
