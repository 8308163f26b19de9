-------------------------- MODULE BrokerRequestsProofs --------------------------
(***************************************************************************)
(* A dispatch of the Broker ends once, leaves nothing behind and replays    *)
(* whole uploads only, for uploads and responses of any length, any replay  *)
(* limit, any mark of the tee and any number of redirects; and the socket   *)
(* of its Agent gives the target the whole body, however it was cut into    *)
(* writes, for bodies, limits and high water marks of any size.             *)
(***************************************************************************)
EXTENDS BrokerRequests, BrokerSocket, ArrayProofs, TLAPS

Positions == {"start", "headers", "resolved", "replay", "reject", "handoff", "body", "lost", "over"}
Tees == [st : {"open", "ending", "ended", "gone"}, buf : 0 .. TeeLimit, paused : BOOLEAN]

\* The types of the upload, which most steps keep or drop.
LEMMA BodyTypes ==
    ASSUME DispatchInv
    PROVE  /\ source \in {"open", "ended", "gone"}
           /\ total \in Nat /\ taken \in Nat /\ taken <= total /\ total \in 0 .. MaxChunks
           /\ tee \in Tees
           /\ decision \in {"open", "chunks", "none"}
           /\ buffered \in -1 .. ReplayLimit
           /\ replayed \in Seq(Int)
BY BrokerConstants DEF DispatchInv, TypeOK, BufferExact, Tees

\* What cleanupBodyPipe and abortSource leave: no open source, an empty tee that
\* is gone, and no decision to replay that was not there.
LEMMA DropBodyProperties ==
    ASSUME DispatchInv, DropBody
    PROVE  /\ source' \in {"ended", "gone"}
           /\ tee' \in Tees /\ tee'.st = "gone" /\ tee'.buf = 0
           /\ decision' \in {"open", "chunks", "none"}
           /\ decision' = "chunks" => decision = "chunks"
           /\ UNCHANGED <<total, taken, buffered>>
<1>1. /\ source \in {"open", "ended", "gone"} /\ tee \in Tees
      /\ decision \in {"open", "chunks", "none"}
  BY BodyTypes
<1>2. /\ tee' = [tee EXCEPT !.st = "gone", !.buf = 0]
      /\ source' = IF source = "open" THEN "gone" ELSE source
      /\ decision' = IF source = "open" THEN Settled("none") ELSE decision
      /\ UNCHANGED <<total, taken, buffered>>
  BY DEF DropBody
<1>3. tee' \in Tees /\ tee'.st = "gone" /\ tee'.buf = 0
  <2>1. 0 \in 0 .. TeeLimit
    BY BrokerConstants
  <2> QED BY <1>1, <1>2, <2>1 DEF Tees
<1>4. source' \in {"ended", "gone"}
  BY <1>1, <1>2
<1>5. /\ decision' \in {"open", "chunks", "none"}
      /\ decision' = "chunks" => decision = "chunks"
  BY <1>1, <1>2 DEF Settled
<1> QED BY <1>2, <1>3, <1>4, <1>5

\* The upload is left alone or dropped.
LEMMA BodyKept ==
    ASSUME DispatchInv, DropBody \/ UNCHANGED body, UNCHANGED replayed
    PROVE  /\ source' \in {"open", "ended", "gone"}
           /\ total' \in 0 .. MaxChunks /\ taken' \in 0 .. total'
           /\ tee' \in Tees
           /\ decision' \in {"open", "chunks", "none"}
           /\ buffered' \in -1 .. ReplayLimit
           /\ BufferExact' /\ ReplayWhole'
           /\ ~tee'.paused => tee'.buf < TeeLimit
<1>1. CASE UNCHANGED body
  <2>1. UNCHANGED <<source, total, taken, tee, decision, buffered>>
    BY <1>1 DEF body
  <2>2. BufferExact' /\ ReplayWhole'
    BY <2>1 DEF DispatchInv, BufferExact, ReplayWhole
  <2>3. ~tee'.paused => tee'.buf < TeeLimit
    BY <2>1 DEF DispatchInv, LimitsKept
  <2> QED BY <2>1, <2>2, <2>3 DEF DispatchInv, TypeOK, Tees
<1>2. CASE DropBody
  <2>1. /\ source' \in {"ended", "gone"}
        /\ tee' \in Tees /\ tee'.st = "gone" /\ tee'.buf = 0
        /\ decision' \in {"open", "chunks", "none"}
        /\ decision' = "chunks" => decision = "chunks"
        /\ UNCHANGED <<total, taken, buffered>>
    BY <1>2, DropBodyProperties
  <2>2. BufferExact'
    BY <2>1 DEF DispatchInv, BufferExact
  <2>3. ReplayWhole'
    BY <2>1 DEF DispatchInv, ReplayWhole
  <2>4. tee'.buf < TeeLimit
    BY <2>1, BrokerConstants
  <2> QED BY <2>1, <2>2, <2>3, <2>4 DEF DispatchInv, TypeOK
<1> QED BY <1>1, <1>2

\* A step that tells the handler nothing.
LEMMA MovesKeeps ==
    ASSUME DispatchInv, UNCHANGED <<ctl, calls, hop, replayed>>,
           DropBody \/ UNCHANGED body,
           session' \in BOOLEAN,
           resp' \in {"none", "final", "redirect"},
           stream' \in {"none", "open", "gone"},
           pc' \in Positions,
           pc' = "replay" => hop < MaxRedirects,
           (pc' \in {"body", "lost"}) <=> (pc \in {"body", "lost"}),
           ctl = "completed" => pc' = "over",
           stream' = "none" => stream = "none" /\ UNCHANGED body,
           pc' = "start" => pc = "start" /\ stream' = stream,
           pc' = "over" => \/ ctl # "active" /\ stream' = "gone" /\ DropBody
                           \/ pc = "over" /\ stream' = stream
    PROVE  DispatchInv'
<1>1. /\ source' \in {"open", "ended", "gone"}
      /\ total' \in 0 .. MaxChunks /\ taken' \in 0 .. total'
      /\ tee' \in Tees
      /\ decision' \in {"open", "chunks", "none"}
      /\ buffered' \in -1 .. ReplayLimit
      /\ BufferExact' /\ ReplayWhole'
      /\ ~tee'.paused => tee'.buf < TeeLimit
  BY BodyKept
<1>2. TypeOK'
  BY <1>1 DEF DispatchInv, TypeOK, Positions, Tees
<1>3. CallsInStep'
  BY DEF DispatchInv, CallsInStep
<1>4. LimitsKept'
  BY <1>1 DEF LimitsKept
<1>5. CallbackOrder'
  BY DEF DispatchInv, CallbackOrder
<1>6. NothingLeft'
  <2>1. CASE pc' = "over" /\ DropBody /\ ctl # "active" /\ stream' = "gone"
    BY <2>1, DropBodyProperties DEF NothingLeft, Attached
  <2>2. CASE pc = "over" /\ stream' = stream /\ UNCHANGED body
    BY <2>2 DEF DispatchInv, NothingLeft, Attached, body
  <2>3. CASE pc = "over" /\ stream' = stream /\ DropBody /\ stream # "none"
    BY <2>3, DropBodyProperties DEF DispatchInv, NothingLeft, Attached
  <2>4. CASE pc' # "over"
    BY <2>4 DEF DispatchInv, NothingLeft, Attached, body
  <2> QED BY <2>1, <2>2, <2>3, <2>4
<1> QED BY <1>1, <1>2, <1>3, <1>4, <1>5, <1>6 DEF DispatchInv

\* A step after which the dispatch has its end, whether or not all is over.
LEMMA FinishKeeps ==
    ASSUME DispatchInv, DropBody, UNCHANGED <<hop, resp, replayed>>,
           session' \in BOOLEAN,
           stream' = "gone",
           ctl' \in {"failed", "completed"},
           calls' \in Seq(Callbacks), CallbackOrder',
           pc' \in Positions \ {"start", "body", "lost"},
           pc' = "replay" => pc = "replay",
           ctl' = "completed" => pc' = "over"
    PROVE  DispatchInv'
<1>1. /\ source' \in {"open", "ended", "gone"}
      /\ total' \in 0 .. MaxChunks /\ taken' \in 0 .. total'
      /\ tee' \in Tees
      /\ decision' \in {"open", "chunks", "none"}
      /\ buffered' \in -1 .. ReplayLimit
      /\ BufferExact' /\ ReplayWhole'
      /\ ~tee'.paused => tee'.buf < TeeLimit
  BY BodyKept
<1>2. TypeOK'
  BY <1>1 DEF DispatchInv, TypeOK, Positions, Tees
<1>3. CallsInStep'
  BY DEF CallsInStep
<1>4. LimitsKept'
  BY <1>1 DEF DispatchInv, LimitsKept
<1>5. NothingLeft'
  BY DropBodyProperties DEF NothingLeft, Attached
<1> QED BY <1>1, <1>2, <1>3, <1>4, <1>5 DEF DispatchInv

\* abort(): the handler of an active dispatch is told of the error, last.
LEMMA TerminalCalls ==
    ASSUME DispatchInv, Terminal(<<>>)
    PROVE  /\ calls' \in Seq(Callbacks) /\ CallbackOrder'
           /\ ctl' \in {"failed", "completed"}
           /\ ctl' = "completed" => ctl = "completed"
<1>1. /\ calls \in Seq(Callbacks) /\ CallbackOrder /\ ctl \in {"active", "failed", "completed"}
  BY DEF DispatchInv, CallsInStep, TypeOK
<1>2. calls \o <<>> = calls
  BY <1>1
<1>3. CASE ctl # "active"
  <2>1. ctl' = ctl /\ calls' = calls
    BY <1>2, <1>3 DEF Terminal
  <2> QED BY <1>1, <1>3, <2>1 DEF CallbackOrder
<1>4. CASE ctl = "active"
  <2>1. ctl' = "failed" /\ calls' = calls \o <<"error">>
    BY <1>2, <1>4 DEF Terminal
  <2>2. "error" \in Callbacks
    BY DEF Callbacks
  <2>3. /\ calls' \in Seq(Callbacks)
        /\ Len(calls) \in Nat /\ Len(calls') = Len(calls) + 1
        /\ calls'[Len(calls) + 1] = "error"
        /\ \A i \in 1 .. Len(calls) : calls'[i] = calls[i]
    BY <1>1, <2>1, <2>2, AppendIndexes
  <2>4. \A i \in 1 .. Len(calls) : calls[i] = IF i = 1 THEN "start" ELSE "data"
    BY <1>4 DEF DispatchInv, CallsInStep
  <2>5. \A i \in 1 .. Len(calls') :
           \/ i = Len(calls') /\ calls'[i] = "error"
           \/ i \in 1 .. Len(calls) /\ calls'[i] = IF i = 1 THEN "start" ELSE "data"
    BY <2>3, <2>4
  <2>6. CallbackOrder'
    <3> SUFFICES ASSUME NEW i \in 1 .. Len(calls') PROVE CallbackOrder!(i)'
      BY DEF CallbackOrder
    <3>1. CASE i = Len(calls') /\ calls'[i] = "error"
      BY <3>1
    <3>2. CASE i \in 1 .. Len(calls) /\ calls'[i] = IF i = 1 THEN "start" ELSE "data"
      <4>1. 1 \in 1 .. Len(calls)
        BY <2>3, <3>2
      <4>2. calls'[1] = "start"
        BY <2>3, <2>4, <4>1
      <4> QED BY <3>2, <4>2
    <3> QED BY <2>5, <3>1, <3>2
  <2> QED BY <1>1, <2>1, <2>3, <2>6
<1> QED BY <1>3, <1>4

LEMMA FailCalls ==
    ASSUME DispatchInv, Fail(<<>>)
    PROVE  /\ calls' \in Seq(Callbacks) /\ CallbackOrder'
           /\ ctl' \in {"failed", "completed"}
           /\ ctl' = "completed" => ctl = "completed"
           /\ stream' = "gone" /\ DropBody
BY TerminalCalls DEF Fail

\* A handler that throws when it is told the headers or some data: the error is the
\* next it hears, and the last.
LEMMA ThrowCalls ==
    ASSUME DispatchInv, ctl = "active", NEW x \in {"start", "data"},
           (x = "start") <=> (calls = <<>>), Fail(<<x>>)
    PROVE  /\ calls' \in Seq(Callbacks) /\ CallbackOrder'
           /\ ctl' = "failed"
           /\ stream' = "gone" /\ DropBody
<1>1. /\ calls \in Seq(Callbacks)
      /\ \A i \in 1 .. Len(calls) : calls[i] = IF i = 1 THEN "start" ELSE "data"
      /\ x \in Callbacks /\ "error" \in Callbacks
  BY DEF DispatchInv, CallsInStep, Callbacks
<1>2. /\ ctl' = "failed" /\ calls' = (calls \o <<x>>) \o <<"error">>
      /\ stream' = "gone" /\ DropBody
  BY DEF Fail, Terminal
<1> DEFINE told == Append(calls, x)
<1>3. /\ told \in Seq(Callbacks)
      /\ calls \o <<x>> = told
      /\ Len(calls) \in Nat /\ Len(told) = Len(calls) + 1
      /\ told[Len(calls) + 1] = x
      /\ \A i \in 1 .. Len(calls) : told[i] = calls[i]
  BY <1>1, AppendIndexes
<1>4. calls = <<>> <=> Len(calls) = 0
  BY <1>1
<1>5. \A i \in 1 .. Len(told) : told[i] = IF i = 1 THEN "start" ELSE "data"
  <2> SUFFICES ASSUME NEW i \in 1 .. Len(told) PROVE told[i] = IF i = 1 THEN "start" ELSE "data"
    OBVIOUS
  <2>1. CASE i \in 1 .. Len(calls)
    BY <1>1, <1>3, <2>1
  <2>2. CASE i = Len(calls) + 1
    BY <1>3, <1>4, <2>2
  <2> QED BY <1>3, <2>1, <2>2
<1>6. 1 \in 1 .. Len(told)
  BY <1>3
<1> HIDE DEF told
<1>7. /\ calls' \in Seq(Callbacks)
      /\ Len(calls') = Len(told) + 1
      /\ calls'[Len(told) + 1] = "error"
      /\ \A i \in 1 .. Len(told) : calls'[i] = told[i]
  BY <1>1, <1>2, <1>3, AppendIndexes
<1>8. CallbackOrder'
  <2> SUFFICES ASSUME NEW i \in 1 .. Len(calls') PROVE CallbackOrder!(i)'
    BY DEF CallbackOrder
  <2>1. calls'[1] = "start"
    BY <1>5, <1>6, <1>7
  <2>2. CASE i = Len(told) + 1
    BY <1>3, <1>7, <2>2
  <2>3. CASE i \in 1 .. Len(told)
    <3>1. calls'[i] = IF i = 1 THEN "start" ELSE "data"
      BY <1>5, <1>7, <2>3
    <3> QED BY <2>1, <3>1
  <2> QED BY <1>3, <1>7, <2>2, <2>3
<1> QED BY <1>2, <1>7, <1>8

\* 'end' of the body: the end is told after the headers and the data, and only the
\* error of a handler that throws follows it.
LEMMA EndCalls ==
    ASSUME DispatchInv, pc = "body", EndOfBody
    PROVE  /\ calls' \in Seq(Callbacks) /\ CallbackOrder'
           /\ ctl' = "completed" /\ pc' = "over"
           /\ stream' = "gone" /\ DropBody
<1>1. /\ calls \in Seq(Callbacks) /\ calls # <<>>
      /\ \A i \in 1 .. Len(calls) : calls[i] = IF i = 1 THEN "start" ELSE "data"
      /\ "end" \in Callbacks /\ "error" \in Callbacks
  BY DEF DispatchInv, CallsInStep, Callbacks
<1> DEFINE told == Append(calls, "end")
<1>2. /\ told \in Seq(Callbacks)
      /\ calls \o <<"end">> = told
      /\ Len(calls) \in Nat /\ Len(told) = Len(calls) + 1
      /\ told[Len(calls) + 1] = "end"
      /\ \A i \in 1 .. Len(calls) : told[i] = calls[i]
  BY <1>1, AppendIndexes
<1>3. 1 \in 1 .. Len(calls)
  BY <1>1
<1>4. told[1] = "start"
  BY <1>1, <1>2, <1>3
<1> HIDE DEF told
<1>5. calls' \in {told, Append(told, "error")}
  <2>1. \E thrown \in {<<>>, <<"error">>} : calls' = (calls \o <<"end">>) \o thrown
    BY DEF EndOfBody
  <2>2. told \o <<>> = told /\ told \o <<"error">> = Append(told, "error")
    BY <1>1, <1>2, AppendIndexes
  <2> QED BY <1>2, <2>1, <2>2
<1>6. CASE calls' = told
  <2>1. CallbackOrder'
    <3> SUFFICES ASSUME NEW i \in 1 .. Len(told) PROVE CallbackOrder!(i)'
      BY <1>6 DEF CallbackOrder
    <3>1. CASE i \in 1 .. Len(calls)
      BY <1>1, <1>2, <1>4, <1>6, <3>1
    <3>2. CASE i = Len(calls) + 1
      <4>1. \A j \in 1 .. i - 1 : told[j] # "end"
        BY <1>1, <1>2, <3>2
      <4> QED BY <1>2, <1>3, <1>4, <1>6, <3>2, <4>1
    <3> QED BY <1>2, <3>1, <3>2
  <2> QED BY <1>2, <1>6, <2>1 DEF EndOfBody
<1>7. CASE calls' = Append(told, "error")
  <2>1. /\ calls' \in Seq(Callbacks)
        /\ Len(calls') = Len(told) + 1
        /\ calls'[Len(told) + 1] = "error"
        /\ \A i \in 1 .. Len(told) : calls'[i] = told[i]
    BY <1>1, <1>2, <1>7, AppendIndexes
  <2>2. calls'[1] = "start"
    BY <1>2, <1>4, <2>1
  <2>3. CallbackOrder'
    <3> SUFFICES ASSUME NEW i \in 1 .. Len(calls') PROVE CallbackOrder!(i)'
      BY DEF CallbackOrder
    <3>1. CASE i \in 1 .. Len(calls)
      <4>1. calls'[i] = IF i = 1 THEN "start" ELSE "data"
        BY <1>1, <1>2, <2>1, <3>1
      <4> QED BY <2>2, <4>1
    <3>2. CASE i = Len(calls) + 1
      <4>1. \A j \in 1 .. i - 1 : calls'[j] # "end"
        BY <1>1, <1>2, <2>1, <3>2
      <4>2. \A j \in i + 1 .. Len(calls') : calls'[j] = "error"
        BY <1>2, <2>1, <3>2
      <4>3. calls'[i] = "end"
        BY <1>2, <2>1, <3>2
      <4> QED BY <2>2, <4>1, <4>2, <4>3
    <3>3. CASE i = Len(told) + 1
      BY <1>2, <2>1, <3>3
    <3> QED BY <1>2, <2>1, <3>1, <3>2, <3>3
  <2> QED BY <2>1, <2>3 DEF EndOfBody
<1> QED BY <1>5, <1>6, <1>7

----------------------------------------------------------------------------
(* The actions *)

\* What the invariant says of types and of callbacks that steps refer to.
LEMMA StateTypes ==
    ASSUME DispatchInv
    PROVE  /\ session \in BOOLEAN /\ pc \in Positions
           /\ hop \in 0 .. MaxRedirects
           /\ ctl \in {"active", "failed", "completed"}
           /\ stream \in {"none", "open", "gone"}
           /\ resp \in {"none", "final", "redirect"}
           /\ pc \in {"body", "lost"} => ctl = "active" /\ calls # <<>>
           /\ ctl = "completed" => pc = "over"
           /\ ctl = "active" /\ pc \notin {"body", "lost"} => calls = <<>>
           /\ pc = "over" => stream # "open" /\ ctl # "active"
           /\ pc = "start" => stream = "none"
BY DEF DispatchInv, TypeOK, CallsInStep, NothingLeft, Attached, Positions

\* A missing route or a handler that throws, or a request to the first target.
LEMMA DispatchKeeps == ASSUME DispatchInv, dispatch PROVE DispatchInv'
<1>0. pc = "start" /\ UNCHANGED <<session, hop, resp, replayed>>
  BY DEF dispatch
<1>1. CASE Terminal(<<>>) /\ pc' = "over" /\ UNCHANGED <<stream, body>>
  <2>1. /\ calls' \in Seq(Callbacks) /\ CallbackOrder'
        /\ ctl' = "failed"
    BY <1>0, <1>1, TerminalCalls, StateTypes
  <2>2. UNCHANGED <<session, hop, resp, replayed, stream, source, total, taken, tee, decision, buffered>>
    BY <1>0, <1>1 DEF body
  <2>3. TypeOK'
    BY <1>1, <2>1, <2>2 DEF DispatchInv, TypeOK
  <2>4. CallsInStep'
    BY <1>1, <2>1 DEF CallsInStep
  <2>5. BufferExact' /\ LimitsKept' /\ ReplayWhole'
    BY <1>1, <2>2 DEF DispatchInv, BufferExact, LimitsKept, ReplayWhole
  <2>6. stream = "none"
    BY <1>0 DEF DispatchInv, NothingLeft, Attached
  <2>7. NothingLeft'
    BY <1>1, <2>1, <2>2, <2>6 DEF DispatchInv, NothingLeft, Attached
  <2> QED BY <2>1, <2>2, <2>3, <2>4, <2>5, <2>7 DEF DispatchInv
<1>2. CASE requestOnce(session) /\ UNCHANGED <<ctl, calls, body>>
  <2>1. pc' \in {"headers", "reject"} /\ stream' \in {"open", "gone"}
    BY <1>2 DEF requestOnce
  <2>2. pc' \in Positions
    BY <2>1 DEF Positions
  <2> QED BY <1>0, <1>2, <2>1, <2>2, StateTypes, MovesKeeps
<1> QED BY <1>0, <1>1, <1>2 DEF dispatch

\* An abort from any side.
LEMMA AbortKeeps == ASSUME DispatchInv, abort PROVE DispatchInv'
<1>1. /\ pc \notin {"start", "over"} /\ ctl = "active" /\ Fail(<<>>)
      /\ UNCHANGED <<session, hop, resp, replayed>>
      /\ pc' = CASE pc = "headers" -> "reject"
                 [] pc \in {"body", "lost"} -> "over"
                 [] OTHER -> pc
  BY DEF abort
<1>2. /\ pc' \in Positions \ {"start", "body", "lost"}
      /\ pc' = "replay" => pc = "replay"
  <2>1. pc \in Positions
    BY StateTypes
  <2>2. CASE pc = "headers"
    BY <1>1, <2>2 DEF Positions
  <2>3. CASE pc \in {"body", "lost"}
    BY <1>1, <2>3 DEF Positions
  <2>4. CASE pc \notin {"headers", "body", "lost"}
    BY <1>1, <2>1, <2>4
  <2> QED BY <2>2, <2>3, <2>4
<1> QED BY <1>1, <1>2, StateTypes, FailCalls, FinishKeeps

\* A chunk of the upload is teed and buffered.
LEMMA SourceDataKeeps == ASSUME DispatchInv, SourceData PROVE DispatchInv'
<1>1. /\ stream # "none" /\ source = "open" /\ tee.st = "open" /\ ~tee.paused /\ taken < total
      /\ taken' = taken + 1
      /\ buffered' = IF taken + 1 > ReplayLimit THEN -1 ELSE buffered + 1
      /\ tee' = [tee EXCEPT !.buf = @ + 1, !.paused = tee.buf + 1 >= TeeLimit]
      /\ UNCHANGED <<session, pc, hop, ctl, calls, source, total, decision, stream, resp, replayed>>
  BY DEF SourceData, onData, Attached
<1>2. /\ total \in Nat /\ taken \in Nat /\ total \in 0 .. MaxChunks
      /\ tee \in Tees /\ tee.buf < TeeLimit /\ tee.buf \in Nat /\ tee.st \in {"open", "ending", "ended", "gone"}
      /\ decision = "open"
      /\ buffered = IF taken > ReplayLimit THEN -1 ELSE taken
      /\ ReplayLimit \in Nat /\ TeeLimit \in Nat /\ MaxChunks \in Nat
  BY <1>1, BodyTypes, BrokerConstants DEF DispatchInv, BufferExact, LimitsKept, Tees
<1>3. /\ taken' \in 0 .. total
      /\ buffered' = IF taken' > ReplayLimit THEN -1 ELSE taken'
      /\ buffered' \in -1 .. ReplayLimit
  BY <1>1, <1>2
<1>4. /\ tee' \in Tees /\ tee'.st = "open"
      /\ ~tee'.paused => tee'.buf < TeeLimit
  <2>1. tee.buf + 1 \in 0 .. TeeLimit /\ (tee.buf + 1 >= TeeLimit) \in BOOLEAN
    BY <1>2
  <2>2. tee' \in Tees
    BY <1>1, <1>2, <2>1 DEF Tees
  <2>3. tee'.buf = tee.buf + 1 /\ tee'.paused = (tee.buf + 1 >= TeeLimit) /\ tee'.st = "open"
    BY <1>1, <1>2 DEF Tees
  <2>4. ~tee'.paused => ~(tee.buf + 1 >= TeeLimit)
    BY <2>3, Zenon
  <2>5. tee'.buf = tee.buf + 1
    BY <2>3
  <2>6. ~(tee.buf + 1 >= TeeLimit) => tee.buf + 1 < TeeLimit
    BY <1>2
  <2> QED BY <2>2, <2>3, <2>4, <2>5, <2>6
<1>5. TypeOK'
  BY <1>1, <1>3, <1>4 DEF DispatchInv, TypeOK, Tees
<1>6. CallsInStep' /\ CallbackOrder' /\ ReplayWhole'
  BY <1>1 DEF DispatchInv, CallsInStep, CallbackOrder, ReplayWhole
<1>7. BufferExact' /\ LimitsKept'
  BY <1>1, <1>2, <1>3, <1>4 DEF DispatchInv, BufferExact, LimitsKept
<1>8. NothingLeft'
  BY <1>1 DEF DispatchInv, NothingLeft, Attached
<1> QED BY <1>5, <1>6, <1>7, <1>8 DEF DispatchInv

\* The end of the upload decides whether it can be replayed.
LEMMA SourceEndKeeps == ASSUME DispatchInv, SourceEnd PROVE DispatchInv'
<1>1. /\ stream # "none" /\ source = "open" /\ taken = total /\ ~tee.paused
      /\ source' = "ended" /\ tee' = [tee EXCEPT !.st = "ending"]
      /\ decision' = Settled(IF buffered >= 0 THEN "chunks" ELSE "none")
      /\ UNCHANGED <<session, pc, hop, ctl, calls, total, taken, buffered, stream, resp, replayed>>
  BY DEF SourceEnd, onEnd, Attached
<1>2. /\ tee \in Tees /\ total \in Nat
      /\ decision = "open" /\ buffered = IF taken > ReplayLimit THEN -1 ELSE taken
      /\ ReplayLimit \in Nat
  BY <1>1, BodyTypes, BrokerConstants DEF DispatchInv, BufferExact
<1>3. /\ decision' \in {"chunks", "none"}
      /\ decision' = "chunks" => buffered = total
  BY <1>1, <1>2 DEF Settled
<1>4. tee' \in Tees /\ tee'.buf = tee.buf /\ tee'.paused = tee.paused /\ tee'.st = "ending"
  BY <1>1, <1>2 DEF Tees
<1>5. TypeOK'
  BY <1>1, <1>3, <1>4 DEF DispatchInv, TypeOK, Tees
<1>6. CallsInStep' /\ CallbackOrder' /\ ReplayWhole'
  BY <1>1 DEF DispatchInv, CallsInStep, CallbackOrder, ReplayWhole
<1>7. BufferExact' /\ LimitsKept'
  BY <1>1, <1>3, <1>4 DEF DispatchInv, BufferExact, LimitsKept
<1>8. NothingLeft'
  BY <1>1, <1>4 DEF DispatchInv, NothingLeft, Attached
<1> QED BY <1>5, <1>6, <1>7, <1>8 DEF DispatchInv

\* The first target reads the upload.
LEMMA TargetReadsKeeps == ASSUME DispatchInv, TargetReads PROVE DispatchInv'
<1>1. /\ stream = "open"
      /\ \/ tee.buf > 0 /\ tee' = [tee EXCEPT !.buf = @ - 1, !.paused = @ /\ tee.buf > 1]
         \/ tee.buf = 0 /\ tee.st = "ending" /\ tee' = [tee EXCEPT !.st = "ended"]
      /\ UNCHANGED <<session, pc, hop, ctl, calls, source, total, taken, decision, buffered,
                     stream, resp, replayed>>
  BY DEF TargetReads
<1>2. /\ tee \in Tees /\ tee.buf \in Nat /\ tee.buf <= TeeLimit /\ tee.paused \in BOOLEAN
      /\ TeeLimit \in Nat \ {0}
      /\ ~tee.paused => tee.buf < TeeLimit
  BY BodyTypes, BrokerConstants DEF Tees, DispatchInv, LimitsKept
<1>3. tee' \in Tees /\ (~tee'.paused => tee'.buf < TeeLimit)
  <2>1. CASE tee.buf > 0 /\ tee' = [tee EXCEPT !.buf = @ - 1, !.paused = @ /\ tee.buf > 1]
    <3>1. tee.buf - 1 \in 0 .. TeeLimit /\ (tee.paused /\ tee.buf > 1) \in BOOLEAN
      BY <1>2, <2>1
    <3>2. tee' \in Tees
      BY <1>2, <2>1, <3>1 DEF Tees
    <3>3. tee'.buf = tee.buf - 1
      BY <1>2, <2>1 DEF Tees
    <3> QED BY <1>2, <3>2, <3>3
  <2>2. CASE tee.buf = 0 /\ tee' = [tee EXCEPT !.st = "ended"]
    <3>1. tee' \in Tees /\ tee'.buf = 0
      BY <1>2, <2>2 DEF Tees
    <3> QED BY <1>2, <3>1
  <2> QED BY <1>1, <2>1, <2>2
<1>4. TypeOK'
  BY <1>1, <1>3 DEF DispatchInv, TypeOK, Tees
<1>5. CallsInStep' /\ CallbackOrder' /\ ReplayWhole'
  BY <1>1 DEF DispatchInv, CallsInStep, CallbackOrder, ReplayWhole
<1>6. BufferExact' /\ LimitsKept'
  BY <1>1, <1>3 DEF DispatchInv, BufferExact, LimitsKept
<1>7. NothingLeft'
  BY <1>1 DEF DispatchInv, NothingLeft, Attached
<1> QED BY <1>4, <1>5, <1>6, <1>7 DEF DispatchInv

\* The response of a target, an error response, or metadata that cannot be read.
LEMMA TargetRespondsKeeps == ASSUME DispatchInv, TargetResponds PROVE DispatchInv'
<1>1. /\ pc = "headers"
      /\ pc' \in {"resolved", "reject"}
      /\ resp' \in {"none", "final", "redirect"}
      /\ stream' \in {"open", "gone"}
      /\ DropBody \/ UNCHANGED body
      /\ UNCHANGED <<session, hop, ctl, calls, replayed>>
  <2>1. pc = "headers" /\ UNCHANGED <<session, hop, ctl, calls, replayed>>
    BY DEF TargetResponds
  <2>2. DropBody \/ UNCHANGED body
    BY DEF TargetResponds
  <2>3. /\ pc' \in {"resolved", "reject"}
        /\ resp' \in {"none", "final", "redirect"}
        /\ stream' \in {"open", "gone"}
    BY StateTypes DEF TargetResponds, resolveInternalRedirect
  <2> QED BY <2>1, <2>2, <2>3
<1>2. pc' \in Positions
  BY <1>1 DEF Positions
<1> QED BY <1>1, <1>2, StateTypes, MovesKeeps

\* The promise of requestOnce has resolved: an answer, or a redirect to follow.
LEMMA ResolvedKeeps == ASSUME DispatchInv, Resolved PROVE DispatchInv'
<1>1. /\ pc = "resolved"
      /\ pc' \in {"reject", "handoff", "replay"}
      /\ pc' = "replay" => hop < MaxRedirects
      /\ stream' \in {"none", "open", "gone"}
      /\ (stream' = "gone" /\ DropBody) \/ UNCHANGED <<stream, body>>
      /\ UNCHANGED <<session, hop, ctl, calls, resp, replayed>>
  BY StateTypes DEF Resolved
<1>2. pc' \in Positions
  BY <1>1 DEF Positions
<1> QED BY <1>1, <1>2, StateTypes, MovesKeeps

\* A redirect is followed with what was buffered, or is the answer.
LEMMA ReplayKeeps == ASSUME DispatchInv, Replay PROVE DispatchInv'
<1>0. pc = "replay" /\ UNCHANGED <<session, ctl, calls>>
  BY DEF Replay
<1>1. CASE pc' \in {"reject", "handoff"} /\ UNCHANGED <<hop, stream, resp, replayed, body>>
  <2>1. pc' \in Positions
    BY <1>1 DEF Positions
  <2> QED BY <1>0, <1>1, <2>1, StateTypes, MovesKeeps
<1>2. CASE /\ decision = "chunks"
           /\ hop' = hop + 1
           /\ replayed' = Append(replayed, buffered)
           /\ resp' = "none"
           /\ requestOnce(session)
           /\ DropBody
  <2>1. pc' \in {"headers", "reject"} /\ stream' \in {"open", "gone"}
    BY <1>2 DEF requestOnce
  <2>2. /\ source' \in {"ended", "gone"}
        /\ tee' \in Tees /\ tee'.buf = 0
        /\ decision' \in {"open", "chunks", "none"}
        /\ decision' = "chunks" => decision = "chunks"
        /\ UNCHANGED <<total, taken, buffered>>
    BY <1>2, DropBodyProperties
  <2>3. hop' \in 0 .. MaxRedirects
    BY <1>0, <1>2, StateTypes, BrokerConstants DEF DispatchInv, LimitsKept
  <2>4. buffered = total /\ buffered \in Int /\ replayed \in Seq(Int)
    BY <1>2, BodyTypes, BrokerConstants DEF DispatchInv, BufferExact
  <2>5. /\ replayed' \in Seq(Int)
        /\ Len(replayed) \in Nat /\ Len(replayed') = Len(replayed) + 1
        /\ replayed'[Len(replayed) + 1] = buffered
        /\ \A i \in 1 .. Len(replayed) : replayed'[i] = replayed[i]
    BY <1>2, <2>4, AppendIndexes
  <2>6. TypeOK'
    BY <1>0, <1>2, <2>1, <2>2, <2>3 DEF DispatchInv, TypeOK, Tees
  <2>7. CallsInStep' /\ CallbackOrder'
    BY <1>0, <2>1 DEF DispatchInv, CallsInStep, CallbackOrder
  <2>8. BufferExact'
    BY <2>2, <2>5 DEF DispatchInv, BufferExact
  <2>9. LimitsKept'
    BY <2>1, <2>2, BrokerConstants DEF LimitsKept
  <2>10. ReplayWhole'
    <3>1. \A i \in 1 .. Len(replayed) : replayed[i] = total
      BY DEF DispatchInv, ReplayWhole
    <3>2. \A i \in 1 .. Len(replayed') : replayed'[i] = total
      BY <2>4, <2>5, <3>1
    <3> QED BY <2>2, <3>2 DEF ReplayWhole
  <2>11. NothingLeft'
    BY <2>1 DEF NothingLeft, Attached
  <2> QED BY <2>6, <2>7, <2>8, <2>9, <2>10, <2>11 DEF DispatchInv
<1> QED BY <1>1, <1>2 DEF Replay

\* The promise of request() is rejected.
LEMMA RejectKeeps == ASSUME DispatchInv, Reject PROVE DispatchInv'
<1>1. pc = "reject" /\ Fail(<<>>) /\ pc' = "over" /\ UNCHANGED <<session, hop, resp, replayed>>
  BY DEF Reject
<1>2. pc' \in Positions \ {"start", "body", "lost"}
  BY <1>1 DEF Positions
<1> QED BY <1>1, <1>2, StateTypes, FailCalls, FinishKeeps

\* A callback that does not throw: the headers, or some data of the body.
LEMMA ToldKeeps ==
    ASSUME DispatchInv, ctl = "active", NEW x \in {"start", "data"},
           (x = "start") <=> (calls = <<>>),
           calls' = Append(calls, x), pc' \in {"body", "lost"},
           UNCHANGED <<session, hop, ctl, stream, resp, replayed, body>>
    PROVE  DispatchInv'
<1>1. /\ source' \in {"open", "ended", "gone"}
      /\ total' \in 0 .. MaxChunks /\ taken' \in 0 .. total'
      /\ tee' \in Tees
      /\ decision' \in {"open", "chunks", "none"}
      /\ buffered' \in -1 .. ReplayLimit
      /\ BufferExact' /\ ReplayWhole'
      /\ ~tee'.paused => tee'.buf < TeeLimit
  BY BodyKept
<1>2. TypeOK'
  BY <1>1 DEF DispatchInv, TypeOK, Tees
<1>3. /\ calls \in Seq(Callbacks) /\ x \in Callbacks
      /\ \A i \in 1 .. Len(calls) : calls[i] = IF i = 1 THEN "start" ELSE "data"
  BY DEF DispatchInv, CallsInStep, Callbacks
<1>4. /\ calls' \in Seq(Callbacks) /\ calls' # <<>>
      /\ Len(calls) \in Nat /\ Len(calls') = Len(calls) + 1
      /\ calls'[Len(calls) + 1] = x
      /\ \A i \in 1 .. Len(calls) : calls'[i] = calls[i]
  BY <1>3, AppendIndexes
<1>5. calls = <<>> <=> Len(calls) = 0
  BY <1>3
<1>6. \A i \in 1 .. Len(calls') : calls'[i] = IF i = 1 THEN "start" ELSE "data"
  <2> SUFFICES ASSUME NEW i \in 1 .. Len(calls') PROVE calls'[i] = IF i = 1 THEN "start" ELSE "data"
    OBVIOUS
  <2>1. CASE i \in 1 .. Len(calls)
    BY <1>3, <1>4, <2>1
  <2>2. CASE i = Len(calls) + 1
    BY <1>4, <1>5, <2>2
  <2> QED BY <1>4, <2>1, <2>2
<1>7. CallsInStep'
  BY <1>4, <1>6 DEF CallsInStep
<1>8. CallbackOrder'
  <2>1. calls'[1] = "start"
    BY <1>4, <1>6
  <2> SUFFICES ASSUME NEW i \in 1 .. Len(calls') PROVE CallbackOrder!(i)'
    BY DEF CallbackOrder
  <2>2. calls'[i] = IF i = 1 THEN "start" ELSE "data"
    BY <1>6
  <2> QED BY <2>1, <2>2
<1>9. LimitsKept'
  BY <1>1 DEF LimitsKept
<1>10. NothingLeft'
  BY DEF DispatchInv, NothingLeft, Attached, body
<1> QED BY <1>1, <1>2, <1>7, <1>8, <1>9, <1>10 DEF DispatchInv

\* request() has resolved and the handler gets the headers.
LEMMA HandoffKeeps == ASSUME DispatchInv, Handoff PROVE DispatchInv'
<1>0. pc = "handoff" /\ UNCHANGED <<session, hop, resp, replayed>>
  BY DEF Handoff
<1>1. CASE Aborted /\ pc' = "over" /\ stream' = "gone" /\ DropBody /\ UNCHANGED <<ctl, calls>>
  <2>1. pc' \in Positions /\ ctl # "active"
    BY <1>1 DEF Positions, Aborted
  <2> QED BY <1>0, <1>1, <2>1, StateTypes, MovesKeeps
<1>2. (ctl = "active" /\ calls = <<>>) \/ Aborted
  BY <1>0, StateTypes DEF Aborted
<1>3. CASE ~Aborted /\ pc' = "over" /\ Fail(<<"start">>)
  <2>1. pc' \in Positions \ {"start", "body", "lost"}
    BY <1>3 DEF Positions
  <2>2. calls' \in Seq(Callbacks) /\ CallbackOrder' /\ ctl' = "failed" /\ stream' = "gone" /\ DropBody
    BY <1>2, <1>3, ThrowCalls
  <2> QED BY <1>0, <1>3, <2>1, <2>2, StateTypes, FinishKeeps
<1>4. CASE /\ ~Aborted
           /\ calls' = Append(calls, "start")
           /\ pc' = IF stream = "open" THEN "body" ELSE "lost"
           /\ UNCHANGED <<ctl, stream, body>>
  <2>1. pc' \in {"body", "lost"}
    BY <1>4
  <2> QED BY <1>0, <1>2, <1>4, <2>1, ToldKeeps
<1> QED BY <1>1, <1>3, <1>4 DEF Handoff

\* Some data of the response, to a handler that may throw.
LEMMA ResponseDataKeeps == ASSUME DispatchInv, ResponseData PROVE DispatchInv'
<1>0. /\ pc = "body" /\ ctl = "active" /\ calls # <<>>
      /\ UNCHANGED <<session, hop, resp, replayed>>
  BY StateTypes DEF ResponseData
<1>1. CASE calls' = Append(calls, "data") /\ UNCHANGED <<pc, ctl, stream, body>>
  BY <1>0, <1>1, ToldKeeps
<1>2. CASE Fail(<<"data">>) /\ pc' = "over"
  <2>1. pc' \in Positions \ {"start", "body", "lost"}
    BY <1>2 DEF Positions
  <2>2. calls' \in Seq(Callbacks) /\ CallbackOrder' /\ ctl' = "failed" /\ stream' = "gone" /\ DropBody
    BY <1>0, <1>2, ThrowCalls
  <2> QED BY <1>0, <1>2, <2>1, <2>2, StateTypes, FinishKeeps
<1> QED BY <1>1, <1>2 DEF ResponseData

\* The body ends, of itself or because the stream was cancelled.
LEMMA EndKeeps ==
    ASSUME DispatchInv, pc = "body", EndOfBody, session' \in BOOLEAN, UNCHANGED <<hop, resp, replayed>>
    PROVE  DispatchInv'
<1>1. /\ calls' \in Seq(Callbacks) /\ CallbackOrder'
      /\ ctl' = "completed" /\ pc' = "over" /\ stream' = "gone" /\ DropBody
  BY EndCalls
<1>2. pc' \in Positions \ {"start", "body", "lost"}
  BY <1>1 DEF Positions
<1> QED BY <1>1, <1>2, FinishKeeps

\* The stream is reset, alone or with its session.
LEMMA ResetKeeps ==
    ASSUME DispatchInv, NEW error \in BOOLEAN, Reset(error), session' \in BOOLEAN
    PROVE  DispatchInv'
<1>0. stream = "open" /\ pc \notin {"start", "over"} /\ UNCHANGED <<hop, resp, replayed>>
  BY StateTypes DEF Reset
<1>1. CASE pc = "body" /\ Fail(<<>>) /\ pc' = "over"
  <2>1. pc' \in Positions \ {"start", "body", "lost"}
    BY <1>1 DEF Positions
  <2> QED BY <1>0, <1>1, <2>1, StateTypes, FailCalls, FinishKeeps
<1>2. CASE pc = "body" /\ EndOfBody
  BY <1>0, <1>2, EndKeeps
<1>3. CASE /\ stream' = "gone" /\ DropBody /\ UNCHANGED <<ctl, calls>>
           /\ pc' = CASE pc = "headers" -> "reject"
                      [] pc = "body" -> "lost"
                      [] OTHER -> pc
  <2>1. /\ pc' \in Positions \ {"start", "over"}
        /\ pc' = "replay" => pc = "replay"
        /\ (pc' \in {"body", "lost"}) <=> (pc \in {"body", "lost"})
    <3>1. pc \in Positions
      BY StateTypes
    <3>2. CASE pc = "headers"
      BY <1>3, <3>2 DEF Positions
    <3>3. CASE pc = "body"
      BY <1>3, <3>3 DEF Positions
    <3>4. CASE pc \notin {"headers", "body"}
      BY <1>0, <1>3, <3>1, <3>4
    <3> QED BY <3>2, <3>3, <3>4
  <2>2. pc' = "replay" => hop < MaxRedirects
    BY <2>1 DEF DispatchInv, LimitsKept
  <2>3. ctl # "completed"
    BY <1>0, StateTypes
  <2> QED BY <1>0, <1>3, <2>1, <2>2, <2>3, StateTypes, MovesKeeps
<1> QED BY <1>1, <1>2, <1>3 DEF Reset

\* The session is closed or lost, or connected again.
LEMMA SessionKeeps == ASSUME DispatchInv, close \/ connect PROVE DispatchInv'
<1>1. CASE close /\ stream = "open"
  <2>1. Reset(FALSE) /\ session' \in BOOLEAN
    BY <1>1 DEF close
  <2> QED BY <2>1, ResetKeeps
<1>2. CASE connect \/ (close /\ stream # "open")
  <2>1. session' \in BOOLEAN /\ UNCHANGED <<pc, hop, ctl, calls, body, stream, resp, replayed>>
    BY <1>2 DEF close, connect
  <2>2. pc' = "replay" => hop < MaxRedirects
    BY <2>1 DEF DispatchInv, LimitsKept
  <2> QED BY <2>1, <2>2, StateTypes, MovesKeeps
<1> QED BY <1>1, <1>2

\* Nothing was told or sent at first, and a list of chunks is its own replay buffer.
LEMMA InitDispatch == ASSUME Init PROVE DispatchInv
<1> USE DEF Init
<1>1. <<>> \in Seq(Callbacks) /\ <<>> \in Seq(Int) /\ Len(<<>>) = 0
  OBVIOUS
<1>2. CallsInStep /\ CallbackOrder /\ NothingLeft /\ ReplayWhole
  BY <1>1 DEF CallsInStep, CallbackOrder, NothingLeft, Attached, ReplayWhole, createReplayableRequestBody
<1>3. /\ total \in Nat /\ total <= MaxChunks /\ ReplayLimit \in Nat /\ TeeLimit \in Nat \ {0}
      /\ 0 \in 0 .. TeeLimit /\ MaxRedirects \in Nat /\ 0 \in 0 .. MaxRedirects
      /\ 0 \in 0 .. total /\ total \in 0 .. total
      /\ 0 \in -1 .. ReplayLimit /\ -1 \in -1 .. ReplayLimit
      /\ total > ReplayLimit \/ total \in -1 .. ReplayLimit
  BY BrokerConstants
<1>4. CASE /\ source = "open" /\ taken = 0 /\ buffered = 0 /\ decision = "open"
           /\ tee = [st |-> "open", buf |-> 0, paused |-> FALSE]
  <2>1. TypeOK
    BY <1>3, <1>4 DEF TypeOK
  <2>2. BufferExact
    BY <1>1, <1>3, <1>4 DEF BufferExact
  <2>3. LimitsKept
    BY <1>3, <1>4 DEF LimitsKept
  <2> QED BY <1>2, <2>1, <2>2, <2>3 DEF DispatchInv
<1>5. CASE /\ source = "ended" /\ taken = total
           /\ buffered = IF total > ReplayLimit THEN -1 ELSE total
           /\ decision = IF total > ReplayLimit THEN "none" ELSE "chunks"
           /\ tee = [st |-> "ended", buf |-> 0, paused |-> FALSE]
  <2>1. TypeOK
    BY <1>3, <1>5 DEF TypeOK
  <2>2. BufferExact
    BY <1>1, <1>3, <1>5 DEF BufferExact
  <2>3. LimitsKept
    BY <1>3, <1>5 DEF LimitsKept
  <2> QED BY <1>2, <2>1, <2>2, <2>3 DEF DispatchInv
<1> QED BY <1>4, <1>5 DEF createReplayableRequestBody

\* A step that changes nothing.
LEMMA StutterKeeps == ASSUME DispatchInv, UNCHANGED vars PROVE DispatchInv'
<1>1. UNCHANGED <<session, pc, hop, ctl, calls, body, stream, resp, replayed>>
  BY DEF vars, body
<1>2. pc' = "replay" => hop < MaxRedirects
  BY <1>1 DEF DispatchInv, LimitsKept
<1> QED BY <1>1, <1>2, StateTypes, MovesKeeps

----------------------------------------------------------------------------
\* The inductive invariant of a dispatch.
THEOREM DispatchSound == Spec => []DispatchInv
<1>1. ASSUME DispatchInv, [Next]_vars PROVE DispatchInv'
  <2>1. CASE StreamReset
    <3>1. PICK error \in BOOLEAN : Reset(error) /\ UNCHANGED session
      BY <2>1 DEF StreamReset
    <3> QED BY <1>1, <3>1, StateTypes, ResetKeeps
  <2>2. CASE ResponseEnd
    BY <1>1, <2>2, StateTypes, EndKeeps DEF ResponseEnd
  <2> QED BY <1>1, <2>1, <2>2, DispatchKeeps, AbortKeeps, SourceDataKeeps, SourceEndKeeps,
             TargetReadsKeeps, TargetRespondsKeeps, ResolvedKeeps, ReplayKeeps, RejectKeeps,
             HandoffKeeps, ResponseDataKeeps, SessionKeeps, StutterKeeps DEF Next
<1> QED BY <1>1, InitDispatch, PTL DEF Spec

\* The first terminal state of the controller wins: whatever aborts, resets and
\* exceptions race, the handler hears of one end and nothing is left behind.
THEOREM DispatchEndsOnce == Spec => []EndsOnce
<1>1. DispatchInv => EndsOnce
  BY DEF DispatchInv, EndsOnce
<1> QED BY <1>1, DispatchSound, PTL

\* requestWithInternalRedirects follows a redirect with the whole upload or not at
\* all, whatever the limits of the buffer and the tee.
THEOREM ReplaysAreWhole == Spec => []ReplayWhole
<1>1. DispatchInv => ReplayWhole
  BY DEF DispatchInv
<1> QED BY <1>1, DispatchSound, PTL

----------------------------------------------------------------------------
(* The loop of ChunkedBodyDecoder.flush *)

FlushStep(s) == IF s.done THEN s ELSE FlushTurn(s)

\* g holds the states of the loop that starts in a, after each of its n turns.
IsFlush(g, a, n) == g = [i \in 0 .. n |-> IF i = 0 THEN a ELSE FlushStep(g[i - 1])]
FlushAfter(a, n) == CHOOSE g : IsFlush(g, a, n)

\* The loop is well defined when its turns stay in some set.
LEMMA FlushLoop ==
    ASSUME NEW S, NEW a \in S, NEW n \in Nat, \A s \in S : FlushStep(s) \in S
    PROVE  IsFlush(FlushAfter(a, n), a, n)
<1> DEFINE f == [i \in 1 .. n |-> [s \in S |-> FlushStep(s)]]
<1>1. f \in [1 .. n -> [S -> S]]
  OBVIOUS
<1> HIDE DEF f
<1>2. PICK g : g \in [0 .. n -> S] /\ g[0] = a /\ \A i \in 1 .. n : g[i] = f[i][g[i - 1]]
  BY <1>1, Iteration
<1>3. \A i \in 1 .. n : f[i][g[i - 1]] = FlushStep(g[i - 1])
  BY <1>2 DEF f
<1>4. \A i \in 0 .. n : g[i] = IF i = 0 THEN a ELSE FlushStep(g[i - 1])
  BY <1>2, <1>3
<1>5. IsFlush(g, a, n)
  BY <1>2, <1>4 DEF IsFlush
<1> QED BY <1>5 DEF FlushAfter

SocketBodies == [st : {"open", "ended"}, given : 0 .. Whole, in : 0 .. Whole, out : 0 .. Whole,
                 full : BOOLEAN]

\* The states of the loop when K units lie behind the head, p of them pending: the
\* units stay where they are accounted for, and a loop that stops has a reason.
FlushStates(K, p) ==
    {s \in [pending : 0 .. p, sized : BOOLEAN, body : SocketBodies, done : BOOLEAN] :
        /\ s.body.in + s.body.out <= s.body.given
        /\ \E k \in 0 .. request.chunks : s.body.given = 2 * k
        /\ s.sized => s.body.given < Whole
        /\ s.body.st = "open" =>
              s.pending + 2 * s.body.given + (IF s.sized THEN 2 ELSE 0) = K
        /\ s.body.st = "ended" =>
              s.done /\ ~s.body.full /\ s.body.given = Whole /\ K = 2 * Whole + 2
        /\ s.body.full => s.done
        /\ s.done => s.body.st = "ended" \/ s.pending < 2 \/ s.body.full}

\* A turn of the loop loses no unit and counts none twice.
LEMMA FlushTurnKeeps ==
    ASSUME request \in [chunks : Nat, chunked : BOOLEAN], BodyMark \in Nat,
           NEW p \in Nat, NEW K \in Nat, K <= 2 * Whole + 2,
           NEW s \in FlushStates(K, p), ~s.done
    PROVE  /\ FlushTurn(s) \in FlushStates(K, p)
           /\ FlushTurn(s).done \/ FlushTurn(s).pending = s.pending - 2
<1> DEFINE t == FlushTurn(s)
<1>1. /\ request.chunks \in Nat /\ Whole = 2 * request.chunks /\ Whole \in Nat
      /\ s.pending \in 0 .. p /\ s.sized \in BOOLEAN /\ s.done \in BOOLEAN
      /\ s.body \in SocketBodies
      /\ s \in [pending : 0 .. p, sized : BOOLEAN, body : SocketBodies, done : BOOLEAN]
  BY DEF FlushStates, Whole
<1>2. /\ s.body.given \in 0 .. Whole /\ s.body.in \in 0 .. Whole /\ s.body.out \in 0 .. Whole
      /\ s.body.full \in BOOLEAN /\ s.body.st \in {"open", "ended"}
  BY <1>1 DEF SocketBodies
<1>3. /\ s.body.in + s.body.out <= s.body.given
      /\ s.sized => s.body.given < Whole
      /\ s.body.st = "open" /\ ~s.body.full
      /\ s.pending + 2 * s.body.given + (IF s.sized THEN 2 ELSE 0) = K
  BY <1>2 DEF FlushStates
<1>4. PICK k \in 0 .. request.chunks : s.body.given = 2 * k
  BY DEF FlushStates
<1> DEFINE States == [pending : 0 .. p, sized : BOOLEAN, body : SocketBodies, done : BOOLEAN]
<1>5. CASE s.pending < 2
  <2>1. t = [s EXCEPT !.done = TRUE]
    BY <1>5 DEF FlushTurn
  <2>2. /\ t \in States
        /\ t.pending = s.pending /\ t.sized = s.sized /\ t.body = s.body /\ t.done = TRUE
    BY <1>1, <2>1
  <2> HIDE DEF t
  <2>9. t \in FlushStates(K, p) /\ (t.done \/ t.pending = s.pending - 2)
    BY <1>1, <1>2, <1>3, <1>4, <1>5, <2>2 DEF FlushStates
  <2> QED BY <2>9 DEF t
<1>6. CASE s.pending >= 2 /\ s.sized
  <2> DEFINE c == Passed(s.body, 2)
  <2>1. t = [pending |-> s.pending - 2, sized |-> FALSE, body |-> c, done |-> c.full]
    BY <1>1, <1>6 DEF FlushTurn
  <2>2. k + 1 \in 0 .. request.chunks /\ s.body.given + 2 = 2 * (k + 1)
    BY <1>1, <1>3, <1>4, <1>6
  <2>3. /\ c.given = s.body.given + 2 /\ c.st = s.body.st
        /\ c.full \in BOOLEAN
        /\ c.in \in Nat /\ c.out \in Nat
        /\ c.in + c.out = s.body.in + s.body.out + 2
    BY <1>1, <1>2 DEF Passed
  <2>4. c \in SocketBodies
    <3>1. c.given \in 0 .. Whole /\ c.in \in 0 .. Whole /\ c.out \in 0 .. Whole
      BY <1>1, <1>2, <1>3, <2>2, <2>3
    <3>2. c = [st |-> c.st, given |-> c.given, in |-> c.in, out |-> c.out, full |-> c.full]
      BY DEF Passed
    <3> HIDE DEF c
    <3> QED BY <1>2, <2>3, <3>1, <3>2 DEF SocketBodies
  <2> HIDE DEF c
  <2>5. s.pending - 2 \in 0 .. p
    BY <1>1, <1>6
  <2>6. /\ t \in States
        /\ t.pending = s.pending - 2 /\ t.sized = FALSE /\ t.body = c /\ t.done = c.full
    BY <2>1, <2>3, <2>4, <2>5
  <2> HIDE DEF t
  <2>9. t \in FlushStates(K, p) /\ (t.done \/ t.pending = s.pending - 2)
    BY <1>1, <1>2, <1>3, <1>6, <2>2, <2>3, <2>6 DEF FlushStates
  <2> QED BY <2>9 DEF t
<1>7. CASE s.pending >= 2 /\ ~s.sized /\ s.body.given = Whole
  <2> DEFINE c == [s.body EXCEPT !.st = "ended"]
  <2>1. t = [pending |-> 0, sized |-> FALSE, body |-> c, done |-> TRUE]
    BY <1>1, <1>3, <1>7 DEF FlushTurn, Ended
  <2>2. K = 2 * Whole + 2
    BY <1>1, <1>3, <1>7
  <2>3. /\ c \in SocketBodies /\ c.st = "ended"
        /\ c.given = s.body.given /\ c.in = s.body.in /\ c.out = s.body.out
        /\ c.full = s.body.full
    BY <1>1 DEF SocketBodies
  <2> HIDE DEF c
  <2>4. /\ t \in States
        /\ t.pending = 0 /\ t.sized = FALSE /\ t.body = c /\ t.done = TRUE
    BY <2>1, <2>3
  <2> HIDE DEF t
  <2>9. t \in FlushStates(K, p) /\ (t.done \/ t.pending = s.pending - 2)
    BY <1>1, <1>2, <1>3, <1>4, <1>7, <2>2, <2>3, <2>4 DEF FlushStates
  <2> QED BY <2>9 DEF t
<1>8. CASE s.pending >= 2 /\ ~s.sized /\ s.body.given # Whole
  <2>1. t = [pending |-> s.pending - 2, sized |-> TRUE, body |-> s.body, done |-> FALSE]
    BY <1>1, <1>8 DEF FlushTurn
  <2>2. s.body.given < Whole
    BY <1>1, <1>2, <1>8
  <2>3. s.pending - 2 \in 0 .. p
    BY <1>1, <1>8
  <2>4. /\ t \in States
        /\ t.pending = s.pending - 2 /\ t.sized = TRUE /\ t.body = s.body /\ t.done = FALSE
    BY <1>1, <2>1, <2>3
  <2> HIDE DEF t
  <2>9. t \in FlushStates(K, p) /\ (t.done \/ t.pending = s.pending - 2)
    BY <1>1, <1>2, <1>3, <1>4, <1>8, <2>2, <2>4 DEF FlushStates
  <2> QED BY <2>9 DEF t
<1> QED BY <1>1, <1>5, <1>6, <1>7, <1>8

\* What flush leaves: the body has every unit it can have, the rest is pending, and
\* the loop stops for a refused write, the end of the body, or too short a rest.
LEMMA FlushProperties ==
    ASSUME request \in [chunks : Nat, chunked : BOOLEAN], BodyMark \in Nat,
           NEW p \in Nat, NEW K \in Nat, K <= 2 * Whole + 2,
           NEW b, NEW z,
           [pending |-> p, sized |-> z, body |-> b, done |-> FALSE] \in FlushStates(K, p)
    PROVE  flush(b, p, z) \in FlushStates(K, p) /\ flush(b, p, z).done
<1> DEFINE S == FlushStates(K, p)
           n == 1 + p \div 2
           a == [pending |-> p, sized |-> z, body |-> b, done |-> FALSE]
           after == FlushAfter(a, n)
<1>1. \A s \in S : FlushStep(s) \in S /\ (FlushStep(s).done \/ FlushStep(s).pending = s.pending - 2)
  BY FlushTurnKeeps DEF FlushStep
<1>2. \A s \in S : s.pending \in Nat /\ s.pending <= p
  BY DEF FlushStates
<1>3. a \in S /\ a.pending = p
  OBVIOUS
<1>4. n \in Nat /\ 2 * n > p
  OBVIOUS
<1>5. flush(b, p, z) = after[n]
  BY Zenon DEF flush, FlushStep, FlushAfter, IsFlush
<1> HIDE DEF S, a, n
<1>6. \A s \in S : FlushStep(s) \in S
  BY <1>1
<1>7. IsFlush(after, a, n)
  BY <1>3, <1>4, <1>6, FlushLoop
<1> HIDE DEF after
<1>8. after[0] = a /\ \A i \in 1 .. n : after[i] = FlushStep(after[i - 1])
  BY <1>4, <1>7 DEF IsFlush
<1> DEFINE Good == {i \in Nat : i <= n => /\ after[i] \in S
                                          /\ after[i].done \/ after[i].pending <= p - 2 * i}
<1>9. 0 \in Good
  BY <1>3, <1>8
<1>10. ASSUME NEW i \in Nat, i \in Good PROVE i + 1 \in Good
  <2> SUFFICES ASSUME i + 1 <= n
               PROVE  /\ after[i + 1] \in S
                      /\ after[i + 1].done \/ after[i + 1].pending <= p - 2 * (i + 1)
    OBVIOUS
  <2>1. i + 1 \in 1 .. n /\ (i + 1) - 1 = i
    BY <1>4
  <2>2. after[i] \in S /\ (after[i].done \/ after[i].pending <= p - 2 * i)
    BY <1>4, <1>10, <2>1
  <2>3. after[i + 1] = FlushStep(after[i])
    BY <1>8, <2>1
  <2>4. CASE after[i].done
    BY <2>2, <2>3, <2>4 DEF FlushStep
  <2>5. CASE after[i].pending <= p - 2 * i
    <3>1. /\ after[i + 1] \in S
          /\ after[i + 1].done \/ after[i + 1].pending = after[i].pending - 2
      BY <1>1, <2>2, <2>3
    <3>2. after[i].pending \in Nat
      BY <1>2, <2>2
    <3> QED BY <2>5, <3>1, <3>2
  <2> QED BY <2>2, <2>4, <2>5
<1> HIDE DEF Good
<1>11. n \in Good
  BY <1>4, <1>9, <1>10, SetInduction
<1>12. after[n] \in S
  BY <1>4, <1>11 DEF Good
<1>13. after[n].done
  BY <1>2, <1>4, <1>11, <1>12 DEF Good
<1> QED BY <1>5, <1>12, <1>13 DEF S

----------------------------------------------------------------------------
(* The socket of the Agent *)

Bodies == [st : {"none", "open", "ended", "gone"}, given : 0 .. Whole, in : 0 .. Whole,
           out : 0 .. Whole, full : BOOLEAN]

\* The types, and what the length of a request is.
LEMMA SocketTypes ==
    ASSUME SocketInv
    PROVE  /\ request \in [chunks : Nat, chunked : BOOLEAN]
           /\ request.chunks \in Nat /\ Chunked \in BOOLEAN
           /\ Whole \in Nat /\ Whole = 2 * request.chunks
           /\ Length \in Nat
           /\ Chunked => Length = HeadUnits + 2 * Whole + 2
           /\ ~Chunked => Length = HeadUnits + Whole
           /\ sent \in 0 .. Length /\ head \in 0 .. Length
           /\ HeadUnits \in Nat \ {0} /\ BodyMark \in Nat \ {0}
           /\ bodyStream \in Bodies
           /\ bodyStream.given \in 0 .. Whole /\ bodyStream.in \in 0 .. Whole
           /\ bodyStream.out \in 0 .. Whole
           /\ decoder \in [pending : 0 .. PendingLimit, sized : BOOLEAN]
           /\ decoder.pending \in Nat
           /\ PendingLimit \in Nat /\ MaxResponse \in Nat
<1>1. request \in [chunks : 0 .. MaxBodyChunks, chunked : BOOLEAN]
  BY DEF SocketInv, SocketTypeOK
<1>2. request \in [chunks : Nat, chunked : BOOLEAN]
  BY <1>1, SocketConstants
<1>3. request.chunks \in Nat /\ Chunked \in BOOLEAN /\ Whole \in Nat /\ Whole = 2 * request.chunks
  BY <1>2 DEF Chunked, Whole
<1>4. /\ Length \in Nat
      /\ Chunked => Length = HeadUnits + 2 * Whole + 2
      /\ ~Chunked => Length = HeadUnits + Whole
  BY <1>3, SocketConstants DEF Length
<1> QED BY <1>2, <1>3, <1>4, SocketConstants DEF SocketInv, SocketTypeOK, Bodies

\* What a step that keeps the request keeps.
LEMMA SameRequest ==
    ASSUME UNCHANGED request
    PROVE  UNCHANGED <<Chunked, Whole, Length>> /\ Bodies' = Bodies
BY DEF Chunked, Whole, Length, Bodies

\* end() and destroy() of a body stream touch its state only.
LEMMA EndedProperties ==
    ASSUME NEW b \in Bodies
    PROVE  /\ Ended(b) \in Bodies /\ Destroyed(b) \in Bodies
           /\ Ended(b).given = b.given /\ Ended(b).in = b.in /\ Ended(b).out = b.out
           /\ Ended(b).full = b.full
           /\ Destroyed(b).given = b.given /\ Destroyed(b).in = b.in /\ Destroyed(b).out = b.out
           /\ Ended(b).st = IF b.st = "open" THEN "ended" ELSE b.st
           /\ Destroyed(b).st = IF b.st = "none" THEN "none" ELSE "gone"
BY DEF Bodies, Ended, Destroyed

\* What a step that leaves the request as it is needs to show of the body stream.
LEMMA ShapeKeeps ==
    ASSUME SocketInv, UNCHANGED request,
           bodyStream'.given = bodyStream.given,
           bodyStream'.in + bodyStream'.out <= bodyStream.in + bodyStream.out,
           bodyStream'.in \in Nat, bodyStream'.out \in Nat
    PROVE  StreamShape'
<1>1. /\ bodyStream.in + bodyStream.out <= bodyStream.given
      /\ Chunked => \E k \in 0 .. request.chunks : bodyStream.given = 2 * k
  BY DEF SocketInv, StreamShape
<1>2. bodyStream'.in + bodyStream'.out <= bodyStream'.given
  BY <1>1, SocketTypes
<1> QED BY <1>1, <1>2, SameRequest DEF StreamShape

\* A destroy() of the socket aborts the call, ends both bodies and lets the held
\* write go, in whatever state of the upload it comes.
LEMMA DestroyKeeps ==
    ASSUME SocketInv, NEW b \in Bodies, NEW how \in {"clean", "error"}, Destroy(b, how),
           b.given = bodyStream.given, b.in = bodyStream.in, b.out = bodyStream.out,
           UNCHANGED <<request, finished, produced, unread, writable>>,
           sent' \in 0 .. Length, sent <= sent', head' \in 0 .. Length, waiting' \in BOOLEAN,
           decoder' \in [pending : 0 .. PendingLimit, sized : BOOLEAN],
           call' \in {"none", "pending", "answered", "failed"},
           call' = "none" <=> b.st = "none",
           call = "answered" => call' = "answered"
    PROVE  SocketInv'
<1>1. /\ gone' = how
      /\ aborted' = (aborted \/ ~finished)
      /\ bodyStream' = IF how = "error" THEN Destroyed(b) ELSE Ended(b)
      /\ response' = IF response = "open" THEN "gone" ELSE response
      /\ held' = FALSE /\ ending' = FALSE
  BY DEF Destroy
<1>2. /\ bodyStream' \in Bodies
      /\ bodyStream'.given = b.given /\ bodyStream'.in = b.in /\ bodyStream'.out = b.out
      /\ bodyStream'.st # "open"
      /\ bodyStream'.st = "none" <=> b.st = "none"
  BY <1>1, EndedProperties DEF Bodies
<1>3. ~Alive' /\ Alive' \in BOOLEAN
  BY <1>1 DEF Alive
<1>4. SocketTypeOK'
  BY <1>1, <1>2, SameRequest DEF SocketInv, SocketTypeOK, Bodies
<1>5. StreamShape'
  BY <1>2, SocketTypes, ShapeKeeps
<1>6. BytesAddUp'
  BY <1>3 DEF BytesAddUp
<1>7. CallInStep'
  BY <1>1, <1>2, <1>3 DEF SocketInv, CallInStep, SocketTypeOK
<1>8. BodyExact'
  BY <1>2, <1>3, SocketTypes, SameRequest DEF SocketInv, BodyExact
<1>9. NothingLeftOpen'
  BY <1>1, <1>2 DEF SocketInv, NothingLeftOpen, CallInStep, SocketTypeOK
<1> QED BY <1>4, <1>5, <1>6, <1>7, <1>8, <1>9 DEF SocketInv

\* What every write of body bytes and every 'drain' leaves alone, and what it needs
\* of the rest: an open body that refuses nothing yet.
BodyStep(b) ==
    /\ Alive /\ ~finished /\ ~ending
    /\ b \in Bodies /\ b.st = "open" /\ ~b.full
    /\ b.given = bodyStream.given /\ b.in = bodyStream.in /\ b.out = bodyStream.out
    /\ UNCHANGED <<request, finished, produced, unread, writable>>
    /\ sent' \in 0 .. Length /\ sent <= sent' /\ head' \in 0 .. Length
    /\ call' \in {"pending", "answered", "failed"}
    /\ call = "answered" <=> call' = "answered"
    /\ Chunked /\ decoder.sized => b.given < Whole

\* A step that gives the body new units, and no more than were sent, keeps the rest.
LEMMA BodyStepKeeps ==
    ASSUME SocketInv, NEW b, BodyStep(b),
           bodyStream' \in Bodies, bodyStream'.st \in {"open", "ended"},
           waiting' \in BOOLEAN,
           decoder' \in [pending : 0 .. PendingLimit, sized : BOOLEAN],
           UNCHANGED <<gone, aborted, response, held, ending>>,
           StreamShape',
           bodyStream'.st = "open" =>
               /\ waiting' = bodyStream'.full
               /\ Chunked => /\ sent' = HeadUnits + 2 * bodyStream'.given + decoder'.pending
                                         + (IF decoder'.sized THEN 2 ELSE 0)
                             /\ decoder'.sized => bodyStream'.given < Whole
                             /\ ~waiting' => decoder'.pending < 2
               /\ ~Chunked => sent' = HeadUnits + bodyStream'.given,
           bodyStream'.st = "ended" => bodyStream'.given = Whole /\ sent' = Length
    PROVE  SocketInv'
<1>1. /\ Alive /\ ~finished /\ ~ending
      /\ UNCHANGED <<request, finished, produced, unread, writable>>
      /\ sent' \in 0 .. Length /\ head' \in 0 .. Length
      /\ call' \in {"pending", "answered", "failed"}
      /\ call = "answered" <=> call' = "answered"
  BY DEF BodyStep
<1>2. Alive'
  BY <1>1 DEF Alive
<1>3. SocketTypeOK'
  BY <1>1, SameRequest DEF SocketInv, SocketTypeOK, Bodies
<1>4. BytesAddUp'
  BY <1>1, SameRequest DEF BytesAddUp, SocketInv
<1>5. CallInStep'
  BY <1>1 DEF SocketInv, CallInStep, SocketTypeOK
<1>6. BodyExact'
  <2>1. /\ bodyStream'.given \in 0 .. Whole
        /\ decoder'.pending \in Nat
    BY SocketTypes DEF Bodies
  <2>2. bodyStream'.given + (IF Chunked THEN bodyStream'.given ELSE 0) <= sent'
    BY <1>1, <2>1, SocketTypes
  <2> QED BY <1>1, <2>2, SameRequest DEF BodyExact
<1>7. NothingLeftOpen'
  BY <1>2 DEF NothingLeftOpen
<1> QED BY <1>1, <1>3, <1>4, <1>5, <1>6, <1>7 DEF SocketInv

\* A flush of the decoder, after a write or with a 'drain'.
LEMMA FlushKeeps ==
    ASSUME SocketInv, Chunked, NEW b, BodyStep(b), NEW n \in Nat,
           decoder.pending + n <= PendingLimit,
           sent' = HeadUnits + 2 * b.given + (decoder.pending + n)
                      + (IF decoder.sized THEN 2 ELSE 0),
           bodyStream' = flush(b, decoder.pending + n, decoder.sized).body,
           decoder' = [pending |-> flush(b, decoder.pending + n, decoder.sized).pending,
                       sized |-> flush(b, decoder.pending + n, decoder.sized).sized],
           waiting' = flush(b, decoder.pending + n, decoder.sized).body.full,
           UNCHANGED <<gone, aborted, response, held, ending>>
    PROVE  SocketInv'
<1> DEFINE p == decoder.pending + n
           z == decoder.sized
           s == flush(b, p, z)
           K == sent' - HeadUnits
           a == [pending |-> p, sized |-> z, body |-> b, done |-> FALSE]
<1>1. /\ p \in Nat /\ p <= PendingLimit /\ z \in BOOLEAN
      /\ b \in Bodies /\ b.st = "open" /\ ~b.full
      /\ b.given = bodyStream.given /\ b.in = bodyStream.in /\ b.out = bodyStream.out
      /\ z => b.given < Whole
      /\ UNCHANGED request
      /\ sent' \in 0 .. Length
  BY SocketTypes DEF BodyStep
<1>2. /\ K \in Nat /\ K <= 2 * Whole + 2
      /\ p + 2 * b.given + (IF z THEN 2 ELSE 0) = K
      /\ sent' = HeadUnits + K
  BY <1>1, SocketTypes
<1>3. bodyStream' = s.body /\ decoder' = [pending |-> s.pending, sized |-> s.sized]
      /\ waiting' = s.body.full
  OBVIOUS
<1>4. b \in SocketBodies
  BY <1>1 DEF Bodies, SocketBodies
<1>5. a \in FlushStates(K, p)
  <2>1. a \in [pending : 0 .. p, sized : BOOLEAN, body : SocketBodies, done : BOOLEAN]
    BY <1>1, <1>4
  <2>2. /\ b.in + b.out <= b.given
        /\ \E k \in 0 .. request.chunks : b.given = 2 * k
    BY <1>1 DEF SocketInv, StreamShape
  <2>3. a.pending = p /\ a.sized = z /\ a.body = b /\ a.done = FALSE
    OBVIOUS
  <2> HIDE DEF a, K, p, z
  <2> QED BY <1>1, <1>2, <2>1, <2>2, <2>3 DEF FlushStates
<1> HIDE DEF K, p, z
<1>6. s \in FlushStates(K, p) /\ s.done
  BY <1>1, <1>2, <1>5, SocketTypes, FlushProperties
<1> HIDE DEF s
<1>7. /\ s.pending \in 0 .. p /\ s.sized \in BOOLEAN /\ s.body \in SocketBodies
      /\ s.body.in + s.body.out <= s.body.given
      /\ \E k \in 0 .. request.chunks : s.body.given = 2 * k
      /\ s.sized => s.body.given < Whole
      /\ s.body.st = "open" => s.pending + 2 * s.body.given + (IF s.sized THEN 2 ELSE 0) = K
      /\ s.body.st = "ended" => s.body.given = Whole /\ K = 2 * Whole + 2
      /\ s.body.st = "ended" \/ s.pending < 2 \/ s.body.full
  BY <1>6 DEF FlushStates
<1>8. /\ s.body \in Bodies /\ s.body.st \in {"open", "ended"} /\ s.body.full \in BOOLEAN
      /\ s.body.given \in 0 .. Whole
  BY <1>7 DEF Bodies, SocketBodies
<1>9. decoder' \in [pending : 0 .. PendingLimit, sized : BOOLEAN]
      /\ decoder'.pending = s.pending /\ decoder'.sized = s.sized
  BY <1>1, <1>3, <1>7, SocketTypes
<1>10. StreamShape'
  BY <1>1, <1>3, <1>7, SameRequest DEF StreamShape
<1>11. bodyStream'.st = "open" =>
          /\ waiting' = bodyStream'.full
          /\ Chunked => /\ sent' = HeadUnits + 2 * bodyStream'.given + decoder'.pending
                                    + (IF decoder'.sized THEN 2 ELSE 0)
                        /\ decoder'.sized => bodyStream'.given < Whole
                        /\ ~waiting' => decoder'.pending < 2
          /\ ~Chunked => sent' = HeadUnits + bodyStream'.given
  <2> SUFFICES ASSUME s.body.st = "open"
               PROVE  /\ sent' = HeadUnits + 2 * s.body.given + s.pending
                                    + (IF s.sized THEN 2 ELSE 0)
                      /\ s.sized => s.body.given < Whole
                      /\ ~s.body.full => s.pending < 2
    BY <1>3, <1>9
  <2> QED BY <1>1, <1>2, <1>7, <1>8, SocketTypes
<1>12. bodyStream'.st = "ended" => bodyStream'.given = Whole /\ sent' = Length
  BY <1>2, <1>3, <1>7, <1>8, SocketTypes
<1> QED BY <1>3, <1>8, <1>9, <1>10, <1>11, <1>12, BodyStepKeeps

\* A write of Content-Length bytes: it gives the body what was sent, ends it when
\* that is all, and forgets to when the write was refused.
LEMMA CountedKeeps ==
    ASSUME SocketInv, ~Chunked, NEW b, BodyStep(b), NEW n \in Nat,
           sent' = HeadUnits + b.given + n,
           WriteCounted(b, n)
    PROVE  SocketInv'
<1> DEFINE p == IF n > 0 THEN Passed(b, n) ELSE b
<1>1. /\ b \in Bodies /\ b.st = "open" /\ ~b.full
      /\ b.given = bodyStream.given /\ b.in = bodyStream.in /\ b.out = bodyStream.out
      /\ b.given \in 0 .. Whole /\ b.in \in 0 .. Whole /\ b.out \in 0 .. Whole
      /\ UNCHANGED request
      /\ sent' \in 0 .. Length
      /\ b.in + b.out <= b.given
  BY SocketTypes DEF BodyStep, SocketInv, StreamShape, Bodies
<1>2. b.given + n \in 0 .. Whole
  BY <1>1, SocketTypes
<1>3. /\ p.st = "open" /\ p.given = b.given + n
      /\ p.in \in Nat /\ p.out \in Nat /\ p.in + p.out = b.in + b.out + n
      /\ p.full \in BOOLEAN
  <2>1. CASE n > 0
    BY <1>1, <2>1, SocketTypes DEF Passed
  <2>2. CASE n = 0
    BY <1>1, <2>2, SocketTypes DEF Bodies
  <2> QED BY <2>1, <2>2
<1>4. p.in \in 0 .. Whole /\ p.out \in 0 .. Whole
  BY <1>1, <1>2, <1>3, SocketTypes
<1>5. p \in Bodies
  <2>1. CASE n > 0
    <3>1. p = [st |-> p.st, given |-> p.given, in |-> p.in, out |-> p.out, full |-> p.full]
      BY <2>1 DEF Passed
    <3> HIDE DEF p
    <3> QED BY <1>2, <1>3, <1>4, <3>1 DEF Bodies
  <2>2. CASE n = 0
    BY <1>1, <2>2
  <2> QED BY <2>1, <2>2
<1>6. /\ bodyStream' = IF ~p.full /\ p.given >= Whole THEN Ended(p) ELSE p
      /\ waiting' = p.full
      /\ UNCHANGED <<gone, aborted, response, held, ending, decoder>>
  BY DEF WriteCounted
<1> HIDE DEF p
<1>7. /\ bodyStream' \in Bodies
      /\ bodyStream'.st = IF ~p.full /\ p.given >= Whole THEN "ended" ELSE "open"
      /\ bodyStream'.given = p.given /\ bodyStream'.in = p.in /\ bodyStream'.out = p.out
      /\ bodyStream'.full = p.full
  BY <1>3, <1>5, <1>6, EndedProperties
<1>8. StreamShape'
  BY <1>1, <1>2, <1>3, <1>7, SameRequest, SocketTypes DEF StreamShape
<1>9. bodyStream'.st = "ended" => bodyStream'.given = Whole /\ sent' = Length
  BY <1>1, <1>2, <1>3, <1>7, SocketTypes
<1>10. waiting' \in BOOLEAN /\ decoder' \in [pending : 0 .. PendingLimit, sized : BOOLEAN]
  BY <1>3, <1>6, SocketTypes
<1>11. bodyStream'.st = "open" =>
          waiting' = bodyStream'.full /\ sent' = HeadUnits + bodyStream'.given
  BY <1>1, <1>3, <1>6, <1>7, SocketTypes
<1> QED BY <1>6, <1>7, <1>8, <1>9, <1>10, <1>11, BodyStepKeeps

\* writeBodyBytes of either kind.
LEMMA BodyBytesKeep ==
    ASSUME SocketInv, NEW b, BodyStep(b), NEW n \in Nat,
           Chunked => sent' = HeadUnits + 2 * b.given + (decoder.pending + n)
                                + (IF decoder.sized THEN 2 ELSE 0),
           ~Chunked => sent' = HeadUnits + b.given + n,
           waiting \in BOOLEAN,
           writeBodyBytes(b, n)
    PROVE  SocketInv'
<1>1. CASE ~Chunked
  BY <1>1, CountedKeeps DEF writeBodyBytes
<1>2. CASE Chunked /\ decoder.pending + n <= PendingLimit
  <2>1. WriteChunked(b, n)
    BY <1>2 DEF writeBodyBytes
  <2>2. ~(decoder.pending + n > PendingLimit)
    BY <1>2, SocketTypes
  <2> QED BY <1>2, <2>1, <2>2, FlushKeeps DEF WriteChunked
<1>3. CASE Chunked /\ decoder.pending + n > PendingLimit
  <2>1. Destroy(b, "error") /\ UNCHANGED <<waiting, decoder>>
    BY <1>3 DEF writeBodyBytes, WriteChunked
  <2>2. /\ b \in Bodies /\ b.st = "open"
        /\ b.given = bodyStream.given /\ b.in = bodyStream.in /\ b.out = bodyStream.out
        /\ UNCHANGED <<request, finished, produced, unread, writable>>
        /\ sent' \in 0 .. Length /\ sent <= sent' /\ head' \in 0 .. Length
        /\ call' \in {"none", "pending", "answered", "failed"} /\ call' # "none"
        /\ call = "answered" => call' = "answered"
    BY DEF BodyStep
  <2> QED BY <2>1, <2>2, SocketTypes, DestroyKeeps
<1> QED BY <1>1, <1>2, <1>3, SocketTypes

\* A write of n units.
LEMMA WriteKeeps == ASSUME SocketInv, NEW n, Write(n) PROVE SocketInv'
<1>1. /\ Alive /\ ~waiting /\ ~ending /\ writable = "open" /\ n \in 1 .. (Length - sent)
      /\ sent' = sent + n
      /\ UNCHANGED <<request, produced, unread, writable, finished>>
  BY DEF Write, download
<1>2. /\ n \in Nat \ {0} /\ sent' \in 0 .. Length /\ sent <= sent' /\ sent < Length
  BY <1>1, SocketTypes
<1>3. ~finished
  BY <1>1 DEF SocketInv, CallInStep
<1>4. CASE bodyStream.st = "none"
  <2>1. /\ head = sent /\ sent < HeadUnits /\ ~bodyStream.full
        /\ bodyStream.given = 0 /\ decoder.pending = 0 /\ ~decoder.sized
        /\ bodyStream.in = 0 /\ bodyStream.out = 0
        /\ call = "none"
    BY <1>1, <1>4, SocketTypes DEF SocketInv, BytesAddUp, StreamShape, CallInStep
  <2>2. ConsumeHead(n)
    BY <1>4 DEF Write
  <2>3. CASE head + n > HeadLimit
    <3>1. /\ Destroy(bodyStream, "error") /\ head' = head + n
          /\ UNCHANGED <<waiting, decoder, call>>
      BY <2>2, <2>3 DEF ConsumeHead
    <3> QED BY <1>1, <1>2, <1>4, <2>1, <3>1, SocketTypes, DestroyKeeps
            DEF SocketInv, SocketTypeOK
  <2>4. CASE ~(head + n > HeadLimit) /\ head + n < HeadUnits
    <3>1. /\ head' = head + n
          /\ UNCHANGED <<waiting, decoder, call, bodyStream, gone, aborted, response, held, ending>>
      BY <2>2, <2>4 DEF ConsumeHead
    <3>2. SocketTypeOK'
      BY <1>1, <1>2, <2>1, <3>1, SameRequest DEF SocketInv, SocketTypeOK
    <3>3. StreamShape' /\ CallInStep' /\ NothingLeftOpen'
      BY <1>1, <3>1, SameRequest
         DEF SocketInv, StreamShape, CallInStep, NothingLeftOpen, Alive
    <3>4. BytesAddUp'
      BY <1>1, <1>4, <2>1, <2>4, <3>1 DEF SocketInv, BytesAddUp
    <3>5. BodyExact'
      BY <1>1, <1>2, <1>4, <2>1, <3>1, SameRequest, SocketTypes DEF BodyExact
    <3> QED BY <3>2, <3>3, <3>4, <3>5 DEF SocketInv
  <2>5. CASE ~(head + n > HeadLimit) /\ ~(head + n < HeadUnits)
    <3> DEFINE b == [bodyStream EXCEPT !.st = "open"]
    <3>1. /\ head' = 0 /\ call' = "pending"
          /\ writeBodyBytes(b, head + n - HeadUnits)
      BY <2>2, <2>5 DEF ConsumeHead
    <3>2. /\ b \in Bodies /\ b.st = "open" /\ b.given = bodyStream.given
          /\ b.in = bodyStream.in /\ b.out = bodyStream.out /\ b.full = bodyStream.full
      BY SocketTypes DEF Bodies
    <3> HIDE DEF b
    <3>3. head + n - HeadUnits \in Nat
      BY <1>2, <2>5, SocketTypes
    <3>4. BodyStep(b)
      BY <1>1, <1>2, <1>3, <2>1, <3>1, <3>2, SocketTypes DEF BodyStep
    <3>5. /\ sent' = HeadUnits + 2 * b.given + (decoder.pending + (head + n - HeadUnits))
                        + (IF decoder.sized THEN 2 ELSE 0)
          /\ sent' = HeadUnits + b.given + (head + n - HeadUnits)
      BY <1>1, <1>2, <2>1, <3>2, SocketTypes
    <3> QED BY <1>1, <3>1, <3>3, <3>4, <3>5, BodyBytesKeep DEF SocketInv, SocketTypeOK
  <2> QED BY <2>3, <2>4, <2>5
<1>5. CASE bodyStream.st # "none"
  <2>1. bodyStream.st = "open"
    <3>1. bodyStream.st \in {"open", "ended"}
      BY <1>1, <1>5, SocketTypes DEF SocketInv, BytesAddUp, Bodies
    <3>2. bodyStream.st # "ended"
      BY <1>1, <1>2, <1>3, SocketTypes DEF SocketInv, BytesAddUp
    <3> QED BY <3>1, <3>2
  <2>2. /\ waiting = bodyStream.full
        /\ Chunked => /\ sent = HeadUnits + 2 * bodyStream.given + decoder.pending
                                 + (IF decoder.sized THEN 2 ELSE 0)
                      /\ decoder.sized => bodyStream.given < Whole
        /\ ~Chunked => sent = HeadUnits + bodyStream.given
    BY <1>1, <2>1 DEF SocketInv, BytesAddUp
  <2>3. writeBodyBytes(bodyStream, n) /\ UNCHANGED <<head, call>>
    BY <1>5 DEF Write
  <2>4. call \in {"pending", "answered", "failed"}
    BY <1>5 DEF SocketInv, SocketTypeOK, CallInStep
  <2>5. BodyStep(bodyStream)
    BY <1>1, <1>2, <1>3, <2>1, <2>2, <2>3, <2>4, SocketTypes DEF BodyStep
  <2>6. /\ Chunked => sent' = HeadUnits + 2 * bodyStream.given + (decoder.pending + n)
                                + (IF decoder.sized THEN 2 ELSE 0)
        /\ ~Chunked => sent' = HeadUnits + bodyStream.given + n
    BY <1>1, <1>2, <2>2, SocketTypes
  <2> QED BY <1>1, <1>2, <2>3, <2>5, <2>6, BodyBytesKeep DEF SocketInv, SocketTypeOK
<1> QED BY <1>4, <1>5

\* 'drain' of the body stream.
LEMMA DrainKeeps == ASSUME SocketInv, waitForBodyDrain PROVE SocketInv'
<1> DEFINE b == [bodyStream EXCEPT !.full = FALSE]
<1>1. /\ bodyStream.st = "open" /\ bodyStream.full
      /\ UNCHANGED <<request, sent, head, call, aborted, response, produced, unread, writable, held,
                     finished, ending, gone>>
  BY DEF waitForBodyDrain, download
<1>2. /\ b \in Bodies /\ b.st = "open" /\ ~b.full /\ b.given = bodyStream.given
      /\ b.in = bodyStream.in /\ b.out = bodyStream.out
  BY <1>1, SocketTypes DEF Bodies
<1>3. Alive
  BY <1>1 DEF SocketInv, NothingLeftOpen
<1>4. /\ Chunked => /\ sent = HeadUnits + 2 * bodyStream.given + decoder.pending
                               + (IF decoder.sized THEN 2 ELSE 0)
                    /\ decoder.sized => bodyStream.given < Whole
      /\ ~Chunked => sent = HeadUnits + bodyStream.given
  BY <1>1, <1>3 DEF SocketInv, BytesAddUp
<1>5. call \in {"pending", "answered", "failed"}
  BY <1>1 DEF SocketInv, SocketTypeOK, CallInStep
<1>6. CASE ~finished /\ ~ending
  <2>1. BodyStep(b)
    BY <1>1, <1>2, <1>3, <1>4, <1>5, <1>6, SocketTypes DEF BodyStep
  <2>2. CASE Chunked
    <3> DEFINE s == flush(b, decoder.pending + 0, decoder.sized)
    <3>1. decoder.pending + 0 = decoder.pending
      BY SocketTypes
    <3>2. /\ bodyStream' = s.body
          /\ decoder' = [pending |-> s.pending, sized |-> s.sized]
          /\ waiting' = s.body.full
      BY <2>2, <3>1 DEF waitForBodyDrain
    <3>3. sent' = HeadUnits + 2 * b.given + (decoder.pending + 0)
                    + (IF decoder.sized THEN 2 ELSE 0)
      BY <1>1, <1>2, <1>4, <2>2, <3>1
    <3>4. decoder.pending + 0 <= PendingLimit
      BY SocketTypes
    <3> HIDE DEF b
    <3> QED BY <1>1, <2>1, <2>2, <3>2, <3>3, <3>4, FlushKeeps
  <2>3. CASE ~Chunked
    <3>1. bodyStream' = b /\ waiting' = FALSE /\ UNCHANGED decoder
      BY <2>3 DEF waitForBodyDrain
    <3>2. StreamShape'
      BY <1>1, <1>2, <3>1, SocketTypes, ShapeKeeps
    <3> HIDE DEF b
    <3>3. /\ waiting' \in BOOLEAN /\ decoder' \in [pending : 0 .. PendingLimit, sized : BOOLEAN]
          /\ waiting' = bodyStream'.full /\ sent' = HeadUnits + bodyStream'.given
      BY <1>1, <1>2, <1>4, <2>3, <3>1, SocketTypes DEF Bodies
    <3>4. bodyStream' \in Bodies /\ bodyStream'.st = "open"
      BY <1>2, <3>1
    <3> QED BY <1>1, <2>1, <2>3, <3>2, <3>3, <3>4, BodyStepKeeps
  <2> QED BY <2>2, <2>3, SocketTypes
<1>7. CASE finished \/ ending
  BY <1>1, <1>7 DEF SocketInv, CallInStep
<1> QED BY <1>6, <1>7

\* The target takes a unit of the body.
LEMMA TargetReadsBodyKeeps == ASSUME SocketInv, TargetReadsBody PROVE SocketInv'
<1>1. /\ bodyStream.out > 0 /\ bodyStream' = Taken(bodyStream)
      /\ UNCHANGED <<request, sent, waiting, head, decoder, call, aborted, response, produced,
                     unread, writable, held, finished, ending, gone>>
  BY DEF TargetReadsBody, upload, download
<1>2. /\ bodyStream.in + bodyStream.out <= bodyStream.given
  BY DEF SocketInv, StreamShape
<1>3. /\ bodyStream'.st = bodyStream.st /\ bodyStream'.given = bodyStream.given
      /\ bodyStream'.full = bodyStream.full
      /\ bodyStream'.in \in Nat /\ bodyStream'.out \in Nat
      /\ bodyStream'.in + bodyStream'.out <= bodyStream.in + bodyStream.out
  BY <1>1, SocketTypes DEF Taken, Bodies
<1>4. bodyStream'.in \in 0 .. Whole /\ bodyStream'.out \in 0 .. Whole
  BY <1>2, <1>3, SocketTypes
<1>5. bodyStream' \in Bodies
  <2>1. bodyStream' = [bodyStream EXCEPT !.out = bodyStream'.out, !.in = bodyStream'.in]
    BY <1>1, SocketTypes DEF Taken, Bodies
  <2> QED BY <1>4, <2>1, SocketTypes DEF Bodies
<1>6. SocketTypeOK'
  BY <1>1, <1>5, SameRequest DEF SocketInv, SocketTypeOK, Bodies
<1>7. StreamShape'
  BY <1>1, <1>3, ShapeKeeps
<1>8. BytesAddUp' /\ CallInStep' /\ BodyExact' /\ NothingLeftOpen'
  BY <1>1, <1>3, SameRequest
     DEF SocketInv, BytesAddUp, CallInStep, BodyExact, NothingLeftOpen, Alive
<1> QED BY <1>6, <1>7, <1>8 DEF SocketInv

\* The answer: it opens the response of a socket that is there.
LEMMA AnswerKeeps == ASSUME SocketInv, Answer PROVE SocketInv'
<1>1. /\ call = "pending" /\ call' = "answered"
      /\ IF Alive THEN response' \in {"open", "lost"} /\ unread' = unread + 1
                  ELSE response' = "gone" /\ UNCHANGED unread
      /\ UNCHANGED <<request, sent, waiting, head, decoder, bodyStream, aborted, produced, held,
                     writable, finished, ending, gone>>
  BY DEF Answer, upload
<1>2. /\ response = "none" /\ ~finished /\ ~ending
      /\ produced \in 0 .. MaxResponse /\ unread \in 0 .. (MaxResponse + 1) /\ unread <= produced
  BY <1>1, SocketTypes DEF SocketInv, CallInStep, SocketTypeOK
<1>3. unread' \in 0 .. (MaxResponse + 1) /\ unread' <= produced + 1
  BY <1>1, <1>2, SocketTypes
<1>4. SocketTypeOK'
  BY <1>1, <1>3, SameRequest DEF SocketInv, SocketTypeOK
<1>5. StreamShape' /\ BytesAddUp' /\ BodyExact'
  BY <1>1, SameRequest DEF SocketInv, StreamShape, BytesAddUp, BodyExact, Alive
<1>6. CallInStep'
  BY <1>1, <1>2, <1>3 DEF SocketInv, CallInStep, Alive
<1>7. NothingLeftOpen'
  BY <1>1 DEF SocketInv, NothingLeftOpen, Alive
<1> QED BY <1>4, <1>5, <1>6, <1>7 DEF SocketInv

\* A failed call destroys the socket that waits for it.
LEMMA RequestRejectsKeeps == ASSUME SocketInv, RequestRejects PROVE SocketInv'
<1>1. /\ call = "pending" /\ call' = "failed"
      /\ UNCHANGED <<request, sent, waiting, head, decoder, produced, unread, writable, finished>>
  BY DEF RequestRejects, upload, download
<1>2. bodyStream.st # "none" /\ response = "none" /\ ~finished
  BY <1>1 DEF SocketInv, CallInStep
<1>3. CASE Alive
  <2>1. Destroy(bodyStream, "error")
    BY <1>3 DEF RequestRejects
  <2>2. sent' = sent /\ head' = head /\ sent <= sent /\ waiting' \in BOOLEAN
    BY <1>1, SocketTypes DEF SocketInv, SocketTypeOK
  <2> QED BY <1>1, <1>2, <2>1, <2>2, SocketTypes, DestroyKeeps
<1>4. CASE ~Alive
  <2>1. UNCHANGED <<gone, aborted, bodyStream, response, held, ending>>
    BY <1>4 DEF RequestRejects
  <2>2. SocketTypeOK'
    BY <1>1, <2>1, SameRequest DEF SocketInv, SocketTypeOK
  <2>3. StreamShape' /\ BytesAddUp' /\ BodyExact'
    BY <1>1, <2>1, SameRequest DEF SocketInv, StreamShape, BytesAddUp, BodyExact, Alive
  <2>4. CallInStep' /\ NothingLeftOpen'
    BY <1>1, <1>2, <2>1 DEF SocketInv, CallInStep, NothingLeftOpen, Alive
  <2> QED BY <2>2, <2>3, <2>4 DEF SocketInv
<1> QED BY <1>3, <1>4

\* The response flows: a unit is pushed, or read.
LEMMA FlowKeeps == ASSUME SocketInv, SinkWrite \/ ClientReads PROVE SocketInv'
<1>1. UNCHANGED <<request, sent, waiting, head, decoder, bodyStream, call, aborted, response,
                  writable, finished, ending, gone>>
  BY DEF SinkWrite, ClientReads, upload
<1>2. /\ produced \in 0 .. MaxResponse /\ unread \in 0 .. (MaxResponse + 1)
      /\ unread <= produced + (IF call = "answered" THEN 1 ELSE 0)
      /\ held \in BOOLEAN
      /\ response # "none" => call = "answered"
  BY DEF SocketInv, CallInStep, SocketTypeOK
<1>3. /\ produced' \in 0 .. MaxResponse /\ unread' \in 0 .. (MaxResponse + 1)
      /\ unread' <= produced' + (IF call = "answered" THEN 1 ELSE 0)
      /\ held' \in BOOLEAN
  <2>1. CASE SinkWrite
    <3>1. /\ call = "answered"
          /\ produced < MaxResponse /\ produced' = produced + 1 /\ unread' = unread + 1
      BY <1>2, <2>1 DEF SinkWrite
    <3>2. held' \in BOOLEAN
      BY <2>1 DEF SinkWrite
    <3> QED BY <1>2, <3>1, <3>2, SocketTypes
  <2>2. CASE ClientReads
    <3>1. unread > 0 /\ unread' = unread - 1 /\ UNCHANGED produced
      BY <2>2 DEF ClientReads
    <3>2. held' \in BOOLEAN
      BY <2>2 DEF ClientReads
    <3> QED BY <1>2, <3>1, <3>2, SocketTypes
  <2> QED BY <2>1, <2>2
<1>4. SocketTypeOK'
  BY <1>1, <1>3, SameRequest DEF SocketInv, SocketTypeOK
<1>5. StreamShape' /\ BytesAddUp' /\ BodyExact' /\ NothingLeftOpen'
  BY <1>1, SameRequest
     DEF SocketInv, StreamShape, BytesAddUp, BodyExact, NothingLeftOpen, Alive
<1>6. CallInStep'
  BY <1>1, <1>3 DEF SocketInv, CallInStep, Alive
<1> QED BY <1>4, <1>5, <1>6 DEF SocketInv

\* The whole answer was pushed: the upload ends with it.
LEMMA SinkFinalKeeps == ASSUME SocketInv, SinkFinal PROVE SocketInv'
<1>1. /\ response = "open" /\ response' = "ended" /\ bodyStream' = Ended(bodyStream)
      /\ finished' = TRUE /\ ending' = TRUE
      /\ UNCHANGED <<request, sent, waiting, head, decoder, call, aborted, produced, unread, held,
                     writable, gone>>
  BY DEF SinkFinal, upload, download
<1>2. /\ call = "answered" /\ bodyStream.st # "none" /\ Alive
  BY <1>1 DEF SocketInv, CallInStep, NothingLeftOpen
<1>3. bodyStream.st \in {"open", "ended"}
  BY <1>2, SocketTypes DEF SocketInv, BytesAddUp, Bodies
<1>4. /\ bodyStream' \in Bodies /\ bodyStream'.st = "ended"
      /\ bodyStream'.given = bodyStream.given /\ bodyStream'.in = bodyStream.in
      /\ bodyStream'.out = bodyStream.out
  BY <1>1, <1>3, SocketTypes, EndedProperties
<1>5. Alive'
  BY <1>1, <1>2 DEF Alive
<1>6. SocketTypeOK'
  BY <1>1, <1>4, SameRequest DEF SocketInv, SocketTypeOK, Bodies
<1>7. StreamShape'
  BY <1>1, <1>4, SocketTypes, ShapeKeeps
<1>8. BytesAddUp' /\ NothingLeftOpen'
  BY <1>1, <1>4, <1>5 DEF BytesAddUp, NothingLeftOpen
<1>9. CallInStep' /\ BodyExact'
  BY <1>1, <1>2, <1>4, <1>5, SameRequest DEF SocketInv, CallInStep, BodyExact
<1> QED BY <1>6, <1>7, <1>8, <1>9 DEF SocketInv

\* A response body is lost, or the client has its answer and ends the socket: neither
\* touches the upload.
LEMMA QuietKeeps == ASSUME SocketInv, ResponseLost \/ ClientEnds PROVE SocketInv'
<1>1. /\ UNCHANGED <<request, sent, waiting, head, decoder, bodyStream, call, aborted, produced,
                     unread, held, finished, ending, gone>>
      /\ \/ response = "open" /\ response' = "lost" /\ writable' = writable
         \/ response' = response /\ writable = "open" /\ writable' = "ending"
  BY DEF ResponseLost, ClientEnds, upload, download
<1>2. SocketTypeOK'
  BY <1>1, SameRequest DEF SocketInv, SocketTypeOK
<1>3. StreamShape' /\ BytesAddUp' /\ BodyExact' /\ NothingLeftOpen'
  BY <1>1, SameRequest
     DEF SocketInv, StreamShape, BytesAddUp, BodyExact, NothingLeftOpen, Alive
<1>4. CallInStep'
  BY <1>1 DEF SocketInv, CallInStep, Alive
<1> QED BY <1>2, <1>3, <1>4 DEF SocketInv

\* _final ends the upload of a client that has its answer.
LEMMA FinalKeeps == ASSUME SocketInv, Final PROVE SocketInv'
<1>1. /\ Alive /\ writable' = "finished" /\ bodyStream' = Ended(bodyStream)
      /\ ~waiting
      /\ UNCHANGED <<request, sent, waiting, head, decoder, call, aborted, response, produced,
                     unread, held, finished, ending, gone>>
  BY DEF Final, upload
<1>2. /\ bodyStream' \in Bodies /\ bodyStream'.st # "open"
      /\ bodyStream'.st = "none" <=> bodyStream.st = "none"
      /\ bodyStream'.st = "gone" <=> bodyStream.st = "gone"
      /\ bodyStream'.given = bodyStream.given /\ bodyStream'.in = bodyStream.in
      /\ bodyStream'.out = bodyStream.out /\ bodyStream'.full = bodyStream.full
  BY <1>1, SocketTypes, EndedProperties DEF Bodies
<1>3. Alive'
  BY <1>1 DEF Alive
<1>4. SocketTypeOK'
  BY <1>1, <1>2, SameRequest DEF SocketInv, SocketTypeOK, Bodies
<1>5. StreamShape'
  BY <1>1, <1>2, SocketTypes, ShapeKeeps
<1>6. BytesAddUp' /\ NothingLeftOpen'
  BY <1>1, <1>2, <1>3, SameRequest DEF SocketInv, BytesAddUp, NothingLeftOpen
<1>7. CallInStep' /\ BodyExact'
  BY <1>1, <1>2, <1>3, SameRequest DEF SocketInv, CallInStep, BodyExact
<1> QED BY <1>4, <1>5, <1>6, <1>7 DEF SocketInv

\* The socket is destroyed by the tick after the answer, by the client, or by an
\* error of the response.
LEMMA GoneKeeps == ASSUME SocketInv, ResponseError \/ Tick \/ ClientAborts PROVE SocketInv'
<1>1. PICK how \in {"clean", "error"} : Destroy(bodyStream, how)
  BY DEF ResponseError, Tick, ClientAborts
<1>2. UNCHANGED <<request, sent, waiting, head, decoder, call, produced, unread, writable, finished>>
  BY DEF ResponseError, Tick, ClientAborts, upload, download
<1>3. /\ sent' \in 0 .. Length /\ sent <= sent' /\ head' \in 0 .. Length /\ waiting' \in BOOLEAN
      /\ call' \in {"none", "pending", "answered", "failed"}
      /\ call' = "none" <=> bodyStream.st = "none"
  BY <1>2, SocketTypes DEF SocketInv, SocketTypeOK, CallInStep
<1> QED BY <1>1, <1>2, <1>3, SocketTypes, DestroyKeeps

\* A socket that was made.
LEMMA InitSocket == SocketInit => SocketInv
<1> SUFFICES ASSUME SocketInit PROVE SocketInv
  OBVIOUS
<1>1. request \in [chunks : 0 .. MaxBodyChunks, chunked : BOOLEAN]
  BY DEF SocketInit
<1>2. request.chunks \in Nat /\ Whole \in Nat /\ Length \in Nat
  BY <1>1, SocketConstants DEF Whole, Length
<1>3. /\ bodyStream.st = "none" /\ bodyStream.given = 0 /\ bodyStream.in = 0
      /\ bodyStream.out = 0 /\ ~bodyStream.full
      /\ decoder.pending = 0 /\ ~decoder.sized
  BY DEF SocketInit
<1>4. SocketTypeOK
  <2>1. 0 \in 0 .. Length /\ 0 \in 0 .. Whole /\ 0 \in 0 .. PendingLimit
        /\ 0 \in 0 .. MaxResponse /\ 0 \in 0 .. (MaxResponse + 1)
    BY <1>2, SocketConstants
  <2> QED BY <1>1, <2>1, Zenon DEF SocketInit, SocketTypeOK
<1>5. StreamShape
  BY <1>2, <1>3 DEF StreamShape
<1>6. BytesAddUp /\ CallInStep /\ BodyExact /\ NothingLeftOpen
  BY <1>3, SocketConstants
     DEF SocketInit, BytesAddUp, CallInStep, BodyExact, NothingLeftOpen, Alive
<1> QED BY <1>4, <1>5, <1>6 DEF SocketInv

\* A step that changes nothing.
LEMMA SocketStutters == ASSUME SocketInv, UNCHANGED socketVars PROVE SocketInv'
BY SameRequest DEF socketVars, SocketInv, SocketTypeOK, StreamShape, BytesAddUp, CallInStep,
   BodyExact, NothingLeftOpen, Alive

\* The inductive invariant of the socket: every unit the client wrote is in the head,
\* the decoder or the body.
THEOREM SocketAddsUp == SocketSpec => []SocketInv
<1>1. ASSUME SocketInv, [SocketNext]_socketVars PROVE SocketInv'
  BY <1>1, WriteKeeps, DrainKeeps, TargetReadsBodyKeeps, AnswerKeeps, RequestRejectsKeeps,
     FlowKeeps, SinkFinalKeeps, QuietKeeps, FinalKeeps, GoneKeeps, SocketStutters DEF SocketNext
<1> QED BY <1>1, InitSocket, PTL DEF SocketSpec

\* A body that was written to its last unit is ended, but for the count that is
\* forgotten: a decoder that waits for nothing has less than a line or a chunk, and
\* a whole request has no such rest.
LEMMA SocketBodyEnds == SocketInv => BodyEnds
<1> SUFFICES ASSUME SocketInv, Alive, sent = Length, ~waiting
             PROVE  bodyStream.st = "ended" \/ CountForgotten
  BY DEF BodyEnds
<1>1. bodyStream.st \in {"none", "open", "ended"}
  BY SocketTypes DEF SocketInv, BytesAddUp, Bodies
<1>2. bodyStream.st # "none"
  BY SocketTypes DEF SocketInv, BytesAddUp
<1>3. ASSUME bodyStream.st = "open" PROVE CountForgotten
  <2>1. CASE ~Chunked
    <3>1. sent = HeadUnits + bodyStream.given
      BY <1>3, <2>1 DEF SocketInv, BytesAddUp
    <3>2. bodyStream.given = Whole
      BY <2>1, <3>1, SocketTypes
    <3> QED BY <1>3, <2>1, <3>2 DEF CountForgotten
  <2>2. CASE Chunked
    <3>1. /\ sent = HeadUnits + 2 * bodyStream.given + decoder.pending
                      + (IF decoder.sized THEN 2 ELSE 0)
          /\ decoder.sized => bodyStream.given < Whole
          /\ decoder.pending < 2
      BY <1>3, <2>2 DEF SocketInv, BytesAddUp
    <3>2. PICK k \in 0 .. request.chunks : bodyStream.given = 2 * k
      BY <2>2 DEF SocketInv, StreamShape
    <3> QED BY <2>2, <3>1, <3>2, SocketTypes
  <2> QED BY <2>1, <2>2
<1> QED BY <1>1, <1>2, <1>3

\* What Node's HTTP client and the target may rely on, for requests and limits of any
\* size: the body is exact, it ends, and a socket that is gone leaves nothing open.
THEOREM SocketsSound == SocketSpec => []SocketSound
<1>1. SocketInv => SocketSound
  BY SocketBodyEnds DEF SocketSound, SocketInv
<1> QED BY <1>1, SocketAddsUp, PTL
=================================================================================
