--------------------------- MODULE WebSocketEndpoint ---------------------------
(***************************************************************************)
(* One VWS/1 WebSocket: the VerserWebSocket of the Guest, in front of the   *)
(* accept frame, and the one of the Broker, made when the Host answers 200. *)
(* Each end is one record of ws: the flags and queues of the class, the     *)
(* writes it is waiting for, and the log of the frames it put on its        *)
(* stream.  The Host pipes both streams into each other once it has read    *)
(* the accept frame, so a log is also the channel to the other end, read up *)
(* to the position the other end keeps.                                     *)
(*                                                                          *)
(* Everything between two awaits is one action.  A chunk of several frames  *)
(* is parsed in one go, and the listeners of a message run inside it.       *)
(*                                                                          *)
(* A message is the number of the send() call that made it; a queue that is *)
(* full by bytes is one that is full by length (Cap).  Calls of the         *)
(* application are actions of their own.  Pings and pongs are left out:     *)
(* they are written and emitted and touch no flag and no queue.             *)
(***************************************************************************)
EXTENDS Integers, Sequences, Arrays

CONSTANTS MaxSends,    \* bound: send() calls made at each end
          MaxTotal,    \* bound: send() calls made at both ends together
          Cap,         \* MAX_INBOUND_, MAX_PRE_ACCEPT_ and MAX_OUTBOUND_MESSAGES
          Native       \* ends used through NativeVerserWebSocket

Ends == {"guest", "broker"}
Peer(e) == IF e = "guest" THEN "broker" ELSE "guest"

ASSUME EndpointConstants ==
    /\ MaxSends \in [Ends -> Nat]
    /\ MaxTotal \in Nat
    /\ Cap \in Nat \ {0}
    /\ Native \subseteq Ends

Messages(e) == 1..MaxSends[e]

VARIABLES ws,     \* the two VerserWebSockets and their streams
          open    \* the Host has answered the Broker with 200

endpointVars == <<ws, open>>

(* Frames that may reach a VerserWebSocket; id is 0 unless it is a message. *)
Frame(type, id) == [type |-> type, id |-> id]

(* A fresh instance; a stands for alreadyAccepted. *)
NewSocket(e, a) ==
    [accepted |-> a, acceptWritten |-> a, accept |-> IF a THEN "done" ELSE "handler",
     closeSent |-> FALSE, destroyed |-> FALSE, timer |-> FALSE,
     sendQueue |-> <<>>, flushing |-> <<>>, outboundQueue |-> <<>>, writing |-> 0,
     inboundQueue |-> <<>>, processing |-> FALSE, paused |-> FALSE,
     promise |-> [m \in Messages(e) |-> "none"], sends |-> 0,
     log |-> <<>>, read |-> 0, writable |-> "open", closed |-> FALSE,
     received |-> <<>>, closeEvents |-> 0, early |-> 0,
     readyState |-> IF e \notin Native THEN "none" ELSE IF a THEN "open" ELSE "connecting"]

Unread(e) == SubSeq(ws[Peer(e)].log, ws[e].read + 1, Len(ws[Peer(e)].log))
Live(e) == e = "guest" \/ open

----------------------------------------------------------------------------
(* Helpers on one instance s *)

(* What writeLine puts on the stream: nothing once it is ended, reset (by  *)
(* close() or destroy()) or closed.                                        *)
Unwritable(s) == s.writable # "open" \/ s.closed
WriteLine(s, type, id) ==
    IF Unwritable(s) THEN s
    ELSE [s EXCEPT !.log = Append(@, Frame(type, id))]

Settle(s, msgs, how) ==
    [s EXCEPT !.promise = [m \in DOMAIN @ |-> IF m \in msgs THEN how ELSE @[m]]]

failOutboundQueue(s) ==
    [Settle(s, Elements(s.outboundQueue), "rejected") EXCEPT !.outboundQueue = <<>>]

DiscardSendQueue(s) ==
    [Settle(s, Elements(s.sendQueue), "rejected") EXCEPT !.sendQueue = <<>>]

(* emit('close'), with the 'close' listener of the native adapter. *)
EmitClose(s) ==
    [s EXCEPT !.closeEvents = @ + 1,
              !.readyState = IF @ = "none" THEN @ ELSE "closed"]

(* The class's own close(); its code and reason have passed validateClose.  *)
CloseSocket(s) ==
    IF s.closeSent \/ s.destroyed THEN s
    ELSE LET failed == failOutboundQueue(s)
             discarded == IF s.accepted THEN failed ELSE DiscardSendQueue(failed)
         IN  [WriteLine(discarded, "close", 0) EXCEPT !.closeSent = TRUE, !.timer = TRUE]

(* Every fault of the parser, a queue or a listener: emit 'error', close(). *)
handleProtocolFault(s) == CloseSocket(s)

(* Mutant: pop() for shift(), the newest entry is written first. *)
PumpTakesLast(s) ==
    LET n == Len(s.outboundQueue)
    IN  IF s.writing # 0 \/ s.destroyed \/ n = 0 THEN s
        ELSE [WriteLine(s, "data", s.outboundQueue[n]) EXCEPT
                  !.writing = s.outboundQueue[n], !.outboundQueue = SubSeq(@, 1, n - 1)]

(* pumpOutboundQueue up to its first await; `writing` is writingOutbound,  *)
(* named by the message whose write it waits for.                          *)
pumpOutboundQueue(s) ==
    IF s.writing # 0 \/ s.destroyed \/ s.outboundQueue = <<>> THEN s
    ELSE [WriteLine(s, "data", Head(s.outboundQueue)) EXCEPT
              !.writing = Head(s.outboundQueue), !.outboundQueue = Tail(@)]

(* Mutant: the end of the flush does not start the pump. *)
FlushOnly(s) == IF s.flushing = <<>> THEN s ELSE WriteLine(s, "data", Head(s.flushing))

(* flushNext up to its await: the head of `flushing` is the entry written.  *)
FlushNext(s) ==
    IF s.flushing = <<>> THEN pumpOutboundQueue(s)
    ELSE WriteLine(s, "data", Head(s.flushing))

(* Mutant: the handlers of 'end' and 'close' do not look at destroyed. *)
StreamGoneAgain(s) ==
    EmitClose(failOutboundQueue([s EXCEPT !.destroyed = TRUE, !.timer = FALSE]))

(* The end of the read side, by 'end' or by 'close' of the stream. *)
StreamGone(s) ==
    IF s.destroyed THEN [s EXCEPT !.timer = FALSE]
    ELSE LET failed == failOutboundQueue([s EXCEPT !.destroyed = TRUE, !.timer = FALSE])
         IN  EmitClose(IF s.accepted THEN failed ELSE DiscardSendQueue(failed))

(* Mutant: nothing resumes the stream. *)
NeverResumed(s) == s

(* processInboundQueue up to its first await.  The listener of the head     *)
(* either returns ("sync", and the loop goes on), returns a promise that is *)
(* awaited ("async"), or throws; the listener of the native adapter         *)
(* catches what its callbacks throw.                                        *)
Listeners(e) == IF e \in Native THEN {"sync"} ELSE {"sync", "async", "throws"}
Resumed(s) ==
    [s EXCEPT !.paused = IF s.destroyed \/ s.inboundQueue # <<>> THEN @ ELSE FALSE]

processInboundQueue(s, listener) ==
    IF s.processing THEN s
    ELSE IF s.destroyed \/ s.inboundQueue = <<>> THEN Resumed(s)
    ELSE LET one == [s EXCEPT !.received = Append(@, Head(s.inboundQueue)),
                              !.inboundQueue = Tail(@)]
         IN  CASE listener = "sync" ->
                      Resumed([s EXCEPT !.received = @ \o s.inboundQueue,
                                        !.inboundQueue = <<>>])
               [] listener = "async" -> [one EXCEPT !.processing = TRUE]
               [] listener = "throws" -> Resumed(handleProtocolFault(one))

enqueueInbound(s, id, listener) ==
    IF Len(s.inboundQueue) >= Cap THEN handleProtocolFault(s)
    ELSE processInboundQueue(
             [s EXCEPT !.inboundQueue = Append(@, id), !.paused = TRUE], listener)

(* The close frame of the peer: destroyed, 'close', the echo, end().        *)
ReceiveClose(s) ==
    LET closed == EmitClose([s EXCEPT !.destroyed = TRUE, !.timer = FALSE])
        echoed == IF s.closeSent THEN closed ELSE WriteLine(closed, "close", 0)
    IN  [echoed EXCEPT !.writable = IF @ = "open" THEN "ended" ELSE @]

(* handleFrame, in the loop of processIncoming, which stops once destroyed. *)
handleFrame(s, f, listener) ==
    CASE s.destroyed -> s
      [] ~s.destroyed /\ f.type = "data" -> enqueueInbound(s, f.id, listener)
      [] ~s.destroyed /\ f.type = "error" -> s
      [] ~s.destroyed /\ f.type = "close" -> ReceiveClose(s)
      [] ~s.destroyed /\ f.type = "accept" -> handleProtocolFault(s)

----------------------------------------------------------------------------
(* Calls of the application *)

(* send() by the state the instance is in.  A call on a closing or closed  *)
(* socket resolves at once; the native adapter throws unless it is open,   *)
(* and closes itself for a send() that a full queue refuses.               *)
SendResult(s, m) ==
    LET queued == [s EXCEPT !.promise[m] = "pending"]
        refused == [handleProtocolFault(s) EXCEPT !.promise[m] = "rejected",
                        !.readyState = IF @ = "none" THEN @ ELSE "closing"]
    IN  CASE s.closeSent \/ s.destroyed -> [s EXCEPT !.promise[m] = "resolved"]
          [] ~(s.closeSent \/ s.destroyed) /\ ~s.accepted ->
                 IF Len(s.sendQueue) >= Cap THEN refused
                 ELSE [queued EXCEPT !.sendQueue = Append(@, m)]
          [] ~(s.closeSent \/ s.destroyed) /\ s.accepted ->
                 IF Len(s.outboundQueue) >= Cap THEN refused
                 ELSE LET pushed == [queued EXCEPT !.outboundQueue = Append(@, m)]
                      IN  IF s.acceptWritten THEN pumpOutboundQueue(pushed) ELSE pushed

send(e) ==
    /\ Live(e)
    /\ ws[e].sends < MaxSends[e]
    /\ ws[e].sends + ws[Peer(e)].sends < MaxTotal
    /\ ws[e].readyState \in {"none", "open"}
    /\ LET m == ws[e].sends + 1
       IN  ws' = [ws EXCEPT ![e] = SendResult([@ EXCEPT !.sends = m], m)]
    /\ UNCHANGED open

(* close() with a valid code.  The native adapter is CLOSING from then on,  *)
(* and calls it for a callback of the application that fails.              *)
close(e) ==
    /\ Live(e)
    /\ \/ ws[e].readyState \in {"connecting", "open"}
       \/ ws[e].readyState = "none" /\ ~ws[e].closeSent /\ ~ws[e].destroyed
    /\ LET closing == CloseSocket(ws[e])
       IN  ws' = [ws EXCEPT ![e] = [closing EXCEPT
                      !.readyState = IF @ = "none" THEN @ ELSE "closing"]]
    /\ UNCHANGED open

(* The native close() with a code or reason that validateClose refuses: the *)
(* exception leaves the adapter CLOSING with no close frame sent.           *)
NativeCloseInvalid(e) ==
    /\ Live(e)
    /\ ws[e].readyState \in {"connecting", "open"}
    /\ ~ws[e].closeSent /\ ~ws[e].destroyed
    /\ ws' = [ws EXCEPT ![e].readyState = "closing"]
    /\ UNCHANGED open

terminate(e) ==
    /\ Live(e)
    /\ ~ws[e].destroyed
    /\ ws' = [ws EXCEPT ![e] = [EmitClose(failOutboundQueue(@)) EXCEPT
                                    !.destroyed = TRUE, !.writable = "reset"]]
    /\ UNCHANGED open

----------------------------------------------------------------------------
(* The Guest accepts or refuses; the Host answers the Broker *)

(* handleWsLeaseStream once the handler has decided to accept: sendAccept,  *)
(* and markOpen of the native adapter.                                     *)
sendAccept ==
    /\ ws["guest"].accept = "handler"
    /\ LET s == ws["guest"]
           accepted == IF s.destroyed THEN [DiscardSendQueue(s) EXCEPT !.accept = "done"]
                       ELSE WriteLine([s EXCEPT !.accepted = TRUE, !.accept = "writing"],
                                      "accept", 0)
       IN  ws' = [ws EXCEPT !["guest"] = [accepted EXCEPT !.early = s.sends,
                      !.readyState = IF @ = "connecting" THEN "open" ELSE @]]
    /\ UNCHANGED open

(* The handler refuses or fails: an error frame (a failing plain handler   *)
(* writes none) and stream.close().                                        *)
rejectOpen ==
    /\ ws["guest"].accept = "handler"
    /\ \E frame \in BOOLEAN :
         ws' = [ws EXCEPT !["guest"] =
                   [(IF frame THEN WriteLine(@, "error", 0) ELSE @) EXCEPT
                        !.accept = "done", !.writable = "reset"]]
    /\ UNCHANGED open

(* The accept frame is written: acceptWritten, and drainSendQueue(true).   *)
AcceptWritten ==
    /\ ws["guest"].accept = "writing"
    /\ \/ /\ Frame("accept", 0) \in Elements(ws["guest"].log)
          /\ ws' = [ws EXCEPT !["guest"] =
                        FlushNext([@ EXCEPT !.accept = "done", !.acceptWritten = TRUE,
                                            !.flushing = ws["guest"].sendQueue, !.sendQueue = <<>>])]
       \/ /\ Unwritable(ws["guest"])
          /\ ws' = [ws EXCEPT !["guest"].accept = "done"]
    /\ UNCHANGED open

(* The Host reads the first line of the lease stream: an accept frame, and *)
(* the Broker's stream gets its 200 and becomes a socket; anything else    *)
(* fails the handshake and closes the lease.                               *)
webSocket ==
    /\ ~open
    /\ ws["broker"].read = 0
    /\ ~ws["guest"].closed
    /\ ws["guest"].log # <<>>
    /\ IF Head(ws["guest"].log).type = "accept"
       THEN /\ open' = TRUE
            /\ ws' = [ws EXCEPT !["broker"].read = 1]
       ELSE /\ ws' = [ws EXCEPT !["broker"].read = 1, !["broker"].writable = "reset"]
            /\ UNCHANGED open

----------------------------------------------------------------------------
(* What a pending write and the stream do later *)

(* The write of a flushed entry settles: the entry resolves and the next   *)
(* is written, or it is refused with all that follow it.                   *)
FlushResume(e) ==
    /\ ws[e].flushing # <<>>
    /\ LET s == ws[e]
           written == Frame("data", Head(s.flushing)) \in Elements(s.log)
       IN  \/ /\ written
              /\ ws' = [ws EXCEPT ![e] =
                   FlushNext([Settle(s, {Head(s.flushing)}, "resolved") EXCEPT
                                  !.flushing = Tail(@)])]
           \/ /\ Unwritable(s)
              /\ ws' = [ws EXCEPT ![e] =
                   pumpOutboundQueue([Settle(s, Elements(s.flushing), "rejected") EXCEPT
                                          !.flushing = <<>>])]
    /\ UNCHANGED open

(* The same for pumpOutboundQueue. *)
PumpResume(e) ==
    /\ ws[e].writing # 0
    /\ LET s == ws[e]
           written == Frame("data", s.writing) \in Elements(s.log)
       IN  \/ /\ written
              /\ ws' = [ws EXCEPT ![e] =
                   pumpOutboundQueue([Settle(s, {s.writing}, "resolved") EXCEPT !.writing = 0])]
           \/ /\ Unwritable(s)
              /\ ws' = [ws EXCEPT ![e] =
                   failOutboundQueue([Settle(s, {s.writing}, "rejected") EXCEPT !.writing = 0])]
    /\ UNCHANGED open

(* A 'data' event: the parser takes every frame of the chunk in turn.      *)
NextFrame(s, log, listener) ==
    handleFrame([s EXCEPT !.read = @ + 1], log[s.read + 1], listener)

Parsed(s, log, n, listener) ==
    LET after[i \in 0..n] == IF i = 0 THEN s ELSE NextFrame(after[i - 1], log, listener)
    IN  after[n]

processIncoming(e) ==
    /\ open /\ ~ws[e].paused /\ ~ws[e].closed
    /\ \E n \in 1..Len(Unread(e)), listener \in Listeners(e) :
         ws' = [ws EXCEPT ![e] = Parsed(@, ws[Peer(e)].log, n, listener)]
    /\ UNCHANGED open

(* The promise of an async listener settles and the loop goes on. *)
ListenerDone(e) ==
    /\ ws[e].processing
    /\ \E listener \in Listeners(e) :
         ws' = [ws EXCEPT ![e] =
                    processInboundQueue([@ EXCEPT !.processing = FALSE], listener)]
    /\ UNCHANGED open

ListenerFails(e) ==
    /\ ws[e].processing
    /\ ws' = [ws EXCEPT ![e] = Resumed(handleProtocolFault([@ EXCEPT !.processing = FALSE]))]
    /\ UNCHANGED open

(* The close handshake has taken VWS_CLOSE_TIMEOUT_MS. *)
CloseTimeout(e) ==
    /\ ws[e].timer
    /\ ws' = [ws EXCEPT ![e] =
                  IF @.destroyed THEN [@ EXCEPT !.timer = FALSE]
                  ELSE EmitClose([failOutboundQueue(@) EXCEPT
                           !.timer = FALSE, !.destroyed = TRUE, !.writable = "reset"])]
    /\ UNCHANGED open

(* 'end': the other end has ended its side and all of it was read. *)
StreamEnd(e) ==
    /\ Live(e) /\ ~ws[e].paused /\ ~ws[e].closed
    /\ Unwritable(ws[Peer(e)])
    /\ Unread(e) = <<>>
    /\ ~ws[e].destroyed
    /\ ws' = [ws EXCEPT ![e] = StreamGone(@)]
    /\ UNCHANGED open

(* 'close' of the stream: this end or the other has ended or closed its    *)
(* own, or the transport is lost, which may happen at any time.            *)
StreamClose(e) ==
    /\ Live(e) /\ ~ws[e].closed
    /\ ws' = [ws EXCEPT ![e] = [StreamGone(@) EXCEPT !.closed = TRUE]]
    /\ UNCHANGED open

----------------------------------------------------------------------------
EndpointInit ==
    /\ ws = [e \in Ends |-> NewSocket(e, e = "broker")]
    /\ open = FALSE

AppStep(e) ==
    \/ send(e) \/ close(e) \/ terminate(e)
    \/ NativeCloseInvalid(e)

SocketStep(e) ==
    \/ FlushResume(e) \/ PumpResume(e) \/ processIncoming(e)
    \/ ListenerDone(e) \/ CloseTimeout(e) \/ StreamEnd(e)

EndpointNext ==
    \/ sendAccept \/ rejectOpen \/ AcceptWritten \/ webSocket
    \/ \E e \in Ends : \/ AppStep(e) \/ SocketStep(e)
                       \/ ListenerFails(e) \/ StreamClose(e)

EndpointSpec == EndpointInit /\ [][EndpointNext]_endpointVars

----------------------------------------------------------------------------
(* Properties *)

Statuses == {"none", "pending", "resolved", "rejected"}

(* A frame, and a socket, of end e. *)
Frames(e) ==
    [type : {"accept", "close", "error"}, id : {0}] \cup [type : {"data"}, id : Messages(e)]

Sockets(e) ==
    [accepted : BOOLEAN, acceptWritten : BOOLEAN, accept : {"handler", "writing", "done"},
     closeSent : BOOLEAN, destroyed : BOOLEAN, timer : BOOLEAN,
     sendQueue : Seq(Messages(e)), flushing : Seq(Messages(e)),
     outboundQueue : Seq(Messages(e)), writing : Messages(e) \cup {0},
     inboundQueue : Seq(Messages(Peer(e))), processing : BOOLEAN, paused : BOOLEAN,
     promise : [Messages(e) -> Statuses], sends : 0..MaxSends[e],
     log : Seq(Frames(e)), read : Nat,
     writable : {"open", "ended", "reset"}, closed : BOOLEAN,
     received : Seq(Messages(Peer(e))), closeEvents : Nat, early : 0..MaxSends[e],
     readyState : {"none", "connecting", "open", "closing", "closed"}]

EndpointTypeOK ==
    /\ open \in BOOLEAN
    /\ DOMAIN ws = Ends
    /\ \A e \in Ends :
         /\ ws[e] \in Sockets(e)
         /\ ws[e].read <= Len(ws[Peer(e)].log)
         /\ \A f \in {"sendQueue", "flushing", "outboundQueue", "inboundQueue"} :
               Len(ws[e][f]) <= Cap

(* 'close' is emitted exactly once, and the instance is dead from that      *)
(* moment, whichever of the close frame, the timer, 'end', 'close' of the   *)
(* stream and terminate() comes first; until then a socket that has sent    *)
(* its close frame keeps the timer that will end it.                        *)
CloseEventOnce ==
    \A e \in Ends :
        /\ ws[e].closeEvents = IF ws[e].destroyed THEN 1 ELSE 0
        /\ ws[e].closeSent /\ ~ws[e].destroyed => ws[e].timer

(* No data frame of the Guest is on the wire in front of its accept frame.  *)
AcceptBeforeData ==
    \A i \in DOMAIN ws["guest"].log :
        ws["guest"].log[i].type = "data" =>
            \E j \in 1..i : ws["guest"].log[j].type = "accept"

(* Messages m and k went through the same queue of the end that sent them:  *)
(* the one it had before the accept frame, or the one it has since.         *)
SameQueue(from, m, k) == m <= from.early <=> k <= from.early

(* A message overtakes another only from the queue of the accepted socket   *)
(* past the queue it had before.  Of each of the two queues, what an end    *)
(* receives is in the order it was sent and nothing comes twice; nothing is *)
(* missing either, until the end has sent its close frame: a message that   *)
(* finds the inbound queue full is dropped, and later ones are delivered    *)
(* while the peer has not answered the close.                               *)
InOrderPerQueue ==
    \A e \in Ends :
        LET from == ws[Peer(e)]
            got == ws[e].received
        IN  \A i \in DOMAIN got :
                /\ \A j \in 1..(i - 1) : SameQueue(from, got[j], got[i]) => got[j] < got[i]
                /\ ~ws[e].closeSent =>
                      \A m \in 1..(got[i] - 1) :
                          SameQueue(from, m, got[i]) => \E j \in 1..(i - 1) : got[j] = m

(* What an end reads is what the other sent, as far as the order of the two *)
(* queues goes, behind the accept frame.                                    *)
OrderedDelivery == AcceptBeforeData /\ InOrderPerQueue

(* A paused stream is resumed: a listener is running that will do it, or    *)
(* the socket is on its way down, where the close timer needs no reading.   *)
NoStuckPause ==
    \A e \in Ends : ws[e].paused => \/ ws[e].processing
                                   \/ ws[e].closeSent
                                   \/ ws[e].destroyed

(* A pending send() of a live socket on a live stream is not forgotten: it  *)
(* waits for the accept frame, is in the flush, is being written, or is     *)
(* queued behind a write that will start the pump again.                    *)
NoForgottenSend ==
    \A e \in Ends : \A m \in Messages(e) :
        ws[e].promise[m] = "pending" /\ ~ws[e].destroyed /\ ws[e].writable # "reset" =>
            \/ m \in Elements(ws[e].sendQueue) /\ ws[e].accept # "done"
            \/ m \in Elements(ws[e].flushing)
            \/ m = ws[e].writing
            \/ /\ m \in Elements(ws[e].outboundQueue)
               /\ \/ ws[e].writing # 0
                  \/ ws[e].flushing # <<>>
                  \/ ws[e].accept = "writing"

----------------------------------------------------------------------------
(* The inductive invariant: of one socket s, and of what it has read *)

(* The stages of the accept frame, and what can still be written: a stream  *)
(* is ended or closed by a socket that is dead.                             *)
StagesInStep(s) ==
    /\ s.closed \/ s.writable = "ended" => s.destroyed
    /\ s.accept = "handler" => ~s.accepted /\ ~s.acceptWritten /\ s.outboundQueue = <<>>
    /\ s.accept = "writing" => s.accepted /\ ~s.acceptWritten
    /\ s.accept = "done" => s.acceptWritten \/ s.destroyed \/ s.writable = "reset"
    /\ s.acceptWritten => s.accepted /\ s.accept = "done"
    /\ s.flushing # <<>> \/ s.writing # 0 => s.acceptWritten
    /\ s.closeSent => s.outboundQueue = <<>>
    /\ s.early <= s.sends

CloseOnce(s) ==
    /\ s.closeEvents = IF s.destroyed THEN 1 ELSE 0
    /\ s.closeSent /\ ~s.destroyed => s.timer

PauseHeld(s) == s.paused => s.processing \/ s.closeSent \/ s.destroyed

SendsHeld(e, s) ==
    \A m \in Messages(e) :
        s.promise[m] = "pending" /\ ~s.destroyed /\ s.writable # "reset" =>
            \/ m \in Elements(s.sendQueue) /\ s.accept # "done"
            \/ m \in Elements(s.flushing)
            \/ m = s.writing
            \/ /\ m \in Elements(s.outboundQueue)
               /\ s.writing # 0 \/ s.flushing # <<>> \/ s.accept = "writing"

Bounded(s) ==
    /\ Len(s.sendQueue) <= Cap /\ Len(s.flushing) <= Cap
    /\ Len(s.outboundQueue) <= Cap /\ Len(s.inboundQueue) <= Cap

(* Position i of a log holds message m. *)
Holds(log, i, m) == i \in DOMAIN log /\ log[i].type = "data" /\ log[i].id = m
Logged(s, m) == \E i \in DOMAIN s.log : Holds(s.log, i, m)

(* The log has the messages of either queue in order and without a gap.     *)
LogInOrder(e, s) ==
    \A i \in DOMAIN s.log : \A m \in Messages(e) : Holds(s.log, i, m) =>
        /\ \A j \in 1..(i - 1) : \A k \in Messages(e) :
              Holds(s.log, j, k) /\ SameQueue(s, k, m) => k < m
        /\ \A k \in 1..(m - 1) : SameQueue(s, k, m) => \E j \in 1..(i - 1) : Holds(s.log, j, k)

(* The queue in front of the accept frame, and what it has become since:    *)
(* the messages 1 .. early, of which the first of flushing is written.      *)
FirstInOrder(e, s) ==
    /\ s.accept # "done" => \A m \in Messages(e) : ~Logged(s, m)
    /\ ~Unwritable(s) /\ s.accept # "done" =>
          /\ \A i \in DOMAIN s.sendQueue : s.sendQueue[i] = i
          /\ Len(s.sendQueue) <= IF s.accept = "handler" THEN s.sends ELSE s.early
    /\ ~Unwritable(s) /\ s.flushing # <<>> =>
          /\ \A i \in DOMAIN s.flushing :
                s.flushing[i] = s.flushing[1] + i - 1 /\ s.flushing[i] <= s.early
          /\ \A m \in 1..s.early : Logged(s, m) <=> m <= s.flushing[1]

(* All that was sent is in the first queue, or the last of it is in the     *)
(* queue behind it and the others of that queue are written.                *)
SecondInOrder(e, s) ==
    ~Unwritable(s) /\ ~s.closeSent /\ ~s.destroyed =>
        LET n == s.sends - Len(s.outboundQueue)
        IN  IF s.accept = "handler" THEN Len(s.sendQueue) = s.sends
            ELSE /\ s.early <= n
                 /\ \A i \in DOMAIN s.outboundQueue : s.outboundQueue[i] = n + i
                 /\ \A m \in Messages(e) : m > s.early => (Logged(s, m) <=> m <= n)

AcceptFirst(s) ==
    /\ s.acceptWritten => \E j \in DOMAIN s.log : s.log[j].type = "accept"
    /\ \A i \in DOMAIN s.log :
          s.log[i].type = "data" => \E j \in 1..i : s.log[j].type = "accept"

(* What was read and not dropped: received, and not yet delivered. *)
Arrived(s) == s.received \o s.inboundQueue

(* It is what the log of the sender holds, in its order, and all of it      *)
(* until the close frame is sent or the socket is dead.                     *)
ReadsInOrder(e, s, from) ==
    LET got == Arrived(s)
    IN  /\ s.read <= Len(from.log)
        /\ \A i \in DOMAIN got :
              /\ \E a \in 1..s.read : Holds(from.log, a, got[i])
              /\ \A j \in 1..(i - 1) : SameQueue(from, got[j], got[i]) => got[j] < got[i]
              /\ ~s.closeSent =>
                    \A m \in 1..(got[i] - 1) :
                        SameQueue(from, m, got[i]) => \E j \in 1..(i - 1) : got[j] = m
        /\ ~s.closeSent /\ ~s.destroyed =>
              \A a \in 1..s.read : \A m \in Messages(Peer(e)) :
                  Holds(from.log, a, m) => m \in Elements(got)

OwnInv(e, s) ==
    /\ s \in Sockets(e) /\ Bounded(s) /\ StagesInStep(s)
    /\ CloseOnce(s) /\ PauseHeld(s) /\ SendsHeld(e, s)
    /\ LogInOrder(e, s) /\ FirstInOrder(e, s) /\ SecondInOrder(e, s)
    /\ e = "guest" => AcceptFirst(s)

EndpointInv ==
    /\ open \in BOOLEAN /\ DOMAIN ws = Ends
    /\ \A e \in Ends : OwnInv(e, ws[e]) /\ ReadsInOrder(e, ws[e], ws[Peer(e)])
================================================================================
