--------------------------- MODULE RequestProofs ---------------------------
(***************************************************************************)
(* Proofs about Request for every capacity of its two channels, every      *)
(* length of the request body and of the streamed response, and every set  *)
(* of statuses a script may set.                                           *)
(***************************************************************************)
EXTENDS Request, SequenceTheorems, TLAPS

Asked == <<"request">>
Answered == <<"request", "response">>
Refused == <<"request", "complete">>
Finished == <<"request", "response", "complete">>

(* What the log holds and who owns the guard, by the handler's position.  A
   plain 500 may come before or after the response phase. *)
Logged ==
  /\ hpc = "idle" => log = <<>> /\ guard = "none"
  /\ hpc \in {"join", "static", "proxy"} => log = Asked /\ guard = "held"
  /\ hpc \in {"collect", "body"} => log = Answered /\ guard = "held"
  /\ hpc \in {"plain", "over"} => log \in {Refused, Finished} /\ guard = "dropped"

(* A oneshot that nobody has answered is still pending, and the handler goes
   past its join only once this one is not. *)
MetaOnce ==
  /\ metaTx # "used" => meta = "pending"
  /\ hpc = "idle" => metaTx = "none" /\ epc = "none" /\ body = "pending"
  /\ hpc \in {"static", "collect"} => meta = "static"
  /\ hpc = "proxy" => meta = "proxy"
  /\ hpc = "plain" => meta # "pending"

(* The status line and the logged status, by the handler's position. *)
Statused ==
  /\ hpc \in {"idle", "join", "static", "proxy"} => status = 0 /\ logStatus = 0
  /\ hpc = "collect" => status = 0
  /\ hpc \in {"idle", "join", "static", "proxy", "collect", "plain"} => kind = "none" /\ ~sse
  /\ hpc = "body" => status = logStatus
  /\ hpc = "over" /\ status # 0 /\ kind # "none" => logStatus = status
  /\ outcome # "none" <=> hpc = "over"
  /\ outcome = "reset" => status = 0
  /\ sse => kind = "stream"

(* Every value that was sent is with the client or in the channel, in order,
   wherever the receiver is; and a value is sent only within the bound. *)
Piped ==
  /\ Len(got) + Len(chan) = chunks
  /\ \A i \in 1..Len(got) : got[i] = i
  /\ \A i \in 1..Len(chan) : chan[i] = Len(got) + i
  /\ epc \in {"none", "running", "peek"} => chunks = 0
  /\ epc = "send" => chunks < MaxChunks

(* A clean end of a stream was seen with the sender gone and nothing left. *)
CleanEnd ==
  outcome = "clean" /\ kind = "stream" => StreamTxGone /\ chan = <<>>

(* The pump sends what it has read. *)
Pumping == pump = "sending" => pend # "none"

ReqInv == ReqTypeOK /\ Logged /\ MetaOnce /\ Statused /\ Piped /\ CleanEnd /\ Pumping

(* Steps of everyone but the handler and hyper. *)
Others == ClientGoes \/ CancelToken \/ KillJobs \/ Pump \/ EvalThread

(* They leave the handler's state and what the client was given alone. *)
LEMMA OthersFrame == Others => UNCHANGED <<hpc, kind, sse, status, outcome, guard, log, logStatus, got>>
<1>1. ClientGoes \/ CancelToken \/ KillJobs
        => UNCHANGED <<hpc, kind, sse, status, outcome, guard, log, logStatus, got>>
  BY DEF ClientGoes, CancelToken, KillJobs, handleVars
<1>2. Pump => UNCHANGED <<hpc, kind, sse, status, outcome, guard, log, logStatus, got>>
  BY DEF Pump, PumpFrame, PumpSend, handleVars
<1>3. EvalThread => UNCHANGED <<hpc, kind, sse, status, outcome, guard, log, logStatus, got>>
  BY DEF EvalThread, ScriptWantsInput, ScriptReads, ScriptStatic, ScriptProxy, SendSpecial,
         EvalReturns, EvalErr, EvalPanic, EvalPeek, EvalProduce, EvalSend, Cleanup, ThreadExit,
         handleVars
<1> QED
  BY <1>1, <1>2, <1>3 DEF Others

(* The handler, hyper and the client's end leave the thread's state alone. *)
LEMMA HandlerFrame ==
  Handler \/ PollFixed \/ PollStream \/ Abort
    => UNCHANGED <<epc, metaTx, meta, body, chunks, client, cancelled>>
<1>1. Handler => UNCHANGED <<epc, metaTx, meta, body, chunks, client, cancelled>>
  BY DEF Handler, NormalResponse, StaticStart, StaticServe, StaticCollect, ProxyStart, ProxyAnswer,
         evalVars, clientVars
<1>2. PollFixed \/ PollStream \/ Abort => UNCHANGED <<epc, metaTx, meta, body, chunks, client, cancelled>>
  BY DEF PollFixed, PollStream, Abort, evalVars, clientVars
<1> QED
  BY <1>1, <1>2

(* The four logs there can be, as the code appends to them. *)
LEMMA Phasing ==
  /\ Append(Asked, "response") = Answered
  /\ Append(Asked, "complete") = Refused
  /\ Append(Answered, "complete") = Finished
<1>1. ASSUME NEW a, NEW b PROVE Append(<<a>>, b) = <<a, b>>
  <2>1. <<a>> \in Seq({a, b}) /\ b \in {a, b} /\ <<a, b>> \in Seq({a, b})
    OBVIOUS
  <2>2. Append(<<a>>, b) \in Seq({a, b}) /\ Len(Append(<<a>>, b)) = 2
    BY <2>1
  <2>3. Append(<<a>>, b)[1] = a /\ Append(<<a>>, b)[2] = b
    BY <2>1
  <2>4. \A i \in 1..2 : Append(<<a>>, b)[i] = <<a, b>>[i]
    BY <2>3
  <2> QED
    BY <2>1, <2>2, <2>4, SeqEqual
<1>2. ASSUME NEW a, NEW b, NEW c PROVE Append(<<a, b>>, c) = <<a, b, c>>
  <2>1. <<a, b>> \in Seq({a, b, c}) /\ c \in {a, b, c} /\ <<a, b, c>> \in Seq({a, b, c})
    OBVIOUS
  <2>2. Append(<<a, b>>, c) \in Seq({a, b, c}) /\ Len(Append(<<a, b>>, c)) = 3
    BY <2>1
  <2>3. Append(<<a, b>>, c)[1] = a /\ Append(<<a, b>>, c)[2] = b /\ Append(<<a, b>>, c)[3] = c
    BY <2>1
  <2>4. \A i \in 1..3 : Append(<<a, b>>, c)[i] = <<a, b, c>>[i]
    BY <2>3
  <2> QED
    BY <2>1, <2>2, <2>4, SeqEqual
<1> QED
  BY <1>1, <1>2 DEF Asked, Answered, Refused, Finished

(* Dropping a held guard logs the end. *)
LEMMA GuardDrop ==
  ASSUME guard = "held", log \in {Asked, Answered}, DropGuard(log)
  PROVE  log' \in {Refused, Finished} /\ guard' = "dropped"
  BY Phasing DEF DropGuard

(* Every step keeps the log and the guard as the handler's position wants. *)
LEMMA LoggedStep == ReqTypeOK /\ Logged /\ [ReqNext]_reqVars => Logged'
<1> SUFFICES ASSUME ReqTypeOK, Logged, [ReqNext]_reqVars PROVE Logged'
  OBVIOUS
<1>0. hpc \in HandlerStates
  BY DEF ReqTypeOK
<1>1. CASE UNCHANGED reqVars
  BY <1>1 DEF reqVars, Logged
<1>2. CASE Others
  BY <1>2, OthersFrame DEF Logged
<1>3. CASE Handle
  BY <1>3 DEF Handle, Logged, Asked, Answered
<1>4. CASE NormalResponse
  <2>1. log = Asked /\ guard = "held"
    BY <1>4 DEF NormalResponse, Joined, Logged
  <2>2. CASE Plain500
    BY <2>1, <2>2, GuardDrop DEF Plain500, FailsAfter, Logged
  <2>3. CASE hpc' \in {"over", "plain"} /\ DropGuard(Append(log, "response"))
    BY <2>1, <2>3, Phasing DEF DropGuard, Logged
  <2>4. CASE hpc' = "body" /\ log' = Append(log, "response") /\ UNCHANGED guard
    BY <2>1, <2>4, Phasing DEF Logged
  <2> QED
    BY <1>4, <2>2, <2>3, <2>4 DEF NormalResponse, HandlerPanics, FailsAfter, LogResponse
<1>5. CASE StaticStart
  <2>1. log = Asked /\ guard = "held"
    BY <1>5 DEF StaticStart, Joined, Logged
  <2>2. CASE hpc' = "over" /\ DropGuard(log)
    BY <2>1, <2>2, GuardDrop DEF Logged
  <2> QED
    BY <1>5, <2>1, <2>2 DEF StaticStart, HandlerPanics, Logged
<1>6. CASE StaticServe
  BY <1>6, Phasing DEF StaticServe, LogResponse, Logged
<1>7. CASE StaticCollect
  <2>1. log = Answered /\ guard = "held"
    BY <1>7 DEF StaticCollect, Logged
  <2>2. CASE Plain500
    BY <2>1, <2>2, GuardDrop DEF Plain500, FailsAfter, Logged
  <2> QED
    BY <1>7, <2>1, <2>2 DEF StaticCollect, Logged
<1>8. CASE ProxyStart
  <2>1. log = Asked /\ guard = "held"
    BY <1>8 DEF ProxyStart, Joined, Logged
  <2>2. CASE Plain500
    BY <2>1, <2>2, GuardDrop DEF Plain500, FailsAfter, Logged
  <2> QED
    BY <1>8, <2>1, <2>2 DEF ProxyStart, Logged
<1>9. CASE ProxyAnswer
  BY <1>9, Phasing DEF ProxyAnswer, LogResponse, Logged
<1>10. ASSUME NEW how, BodyEnds(how), hpc \notin {"idle", "over"} , Logged PROVE Logged'
  <2>1. CASE guard = "held"
    BY <1>0, <1>10, <2>1, GuardDrop DEF BodyEnds, Logged, HandlerStates
  <2>2. CASE guard # "held"
    BY <1>0, <1>10, <2>2 DEF BodyEnds, DropGuard, Logged, HandlerStates
  <2> QED
    BY <2>1, <2>2
<1>11. CASE PollFixed \/ PollStream \/ Abort
  BY <1>10, <1>11 DEF PollFixed, PollStream, Abort, handleVars, Logged
<1> QED
  BY <1>1, <1>2, <1>3, <1>4, <1>5, <1>6, <1>7, <1>8, <1>9, <1>11 DEF ReqNext, Others, Handler

(* A status the handler sends or logs is an integer: what MetaStatuses holds
   is one, or stands for none. *)
LEMMA StatusInt == \A v \in MetaStatuses : ResponseStatus(v) \in Int
<1>1. \A v \in Statuses : v % 65536 \in Int
  BY StatusAssumption
<1> QED
  BY <1>1 DEF MetaStatuses, ResponseStatus

(* Handler and body steps keep the types of the handler's state. *)
LEMMA HandlerTypes ==
  ASSUME ReqTypeOK, Handle \/ Handler \/ PollFixed \/ PollStream \/ Abort
  PROVE  /\ hpc' \in HandlerStates
         /\ kind' \in {"none", "empty", "full", "stream", "upstream"}
         /\ sse' \in BOOLEAN
         /\ status' \in Int /\ logStatus' \in Int
         /\ outcome' \in {"none", "clean", "error", "reset", "aborted"}
         /\ streamRx' \in {"none", "alive", "dropped"}
<1> USE DEF HandlerStates, DropStreamRx
<1>1. CASE Handle
  BY <1>1 DEF Handle, ReqTypeOK
<1>2. CASE NormalResponse
  <2>1. CASE Plain500
    BY <2>1 DEF Plain500, FailsAfter, ReqTypeOK
  <2>2. CASE \E v \in MetaStatuses : HandlerPanics(Append(log, "response")) /\ logStatus' = ResponseStatus(v)
    BY <2>2, StatusInt DEF HandlerPanics, ReqTypeOK
  <2>3. CASE \E v \in MetaStatuses :
               /\ body # "closed" /\ LogResponse(ResponseStatus(v))
               /\ hpc' = "body" /\ kind' = body /\ status' = ResponseStatus(v)
               /\ sse' \in {FALSE, body = "stream"}
               /\ UNCHANGED <<outcome, guard, streamRx>>
    <3>1. body \in {"empty", "full", "stream"}
      BY <1>2, <2>3 DEF NormalResponse, Joined, ReqTypeOK
    <3>2. sse' \in BOOLEAN
      BY <2>3
    <3>3. status' \in Int /\ logStatus' \in Int
      BY <2>3, StatusInt DEF LogResponse
    <3> QED
      BY <2>3, <3>1, <3>2, <3>3 DEF ReqTypeOK
  <2>4. CASE \E v \in MetaStatuses : FailsAfter(Append(log, "response")) /\ logStatus' = ResponseStatus(v)
    BY <2>4, StatusInt DEF FailsAfter, ReqTypeOK
  <2> QED
    BY <1>2, <2>1, <2>2, <2>3, <2>4 DEF NormalResponse
<1>3. CASE StaticStart
  BY <1>3 DEF StaticStart, HandlerPanics, ReqTypeOK
<1>4. CASE StaticServe
  BY <1>4 DEF StaticServe, LogResponse, ReqTypeOK
<1>5. CASE StaticCollect
  BY <1>5 DEF StaticCollect, Plain500, FailsAfter, ReqTypeOK
<1>6. CASE ProxyStart
  BY <1>6 DEF ProxyStart, Plain500, FailsAfter, ReqTypeOK
<1>7. CASE ProxyAnswer
  BY <1>7 DEF ProxyAnswer, LogResponse, ReqTypeOK
<1>8. CASE PollFixed
  BY <1>8 DEF PollFixed, BodyEnds, ReqTypeOK
<1>9. CASE PollStream
  BY <1>9 DEF PollStream, BodyEnds, handleVars, ReqTypeOK
<1>10. CASE Abort
  BY <1>10 DEF Abort, BodyEnds, ReqTypeOK
<1> QED
  BY <1>1, <1>2, <1>3, <1>4, <1>5, <1>6, <1>7, <1>8, <1>9, <1>10 DEF Handler

(* A log that fits the handler's position is a sequence of phases. *)
LEMMA LoggedTypes ==
  ASSUME Logged', hpc' \in HandlerStates
  PROVE  log' \in Seq(Phases) /\ guard' \in {"none", "held", "dropped"}
<1>1. Asked \in Seq(Phases) /\ Answered \in Seq(Phases) /\ Refused \in Seq(Phases)
      /\ Finished \in Seq(Phases) /\ <<>> \in Seq(Phases)
  BY DEF Asked, Answered, Refused, Finished, Phases
<1> QED
  BY <1>1 DEF Logged, HandlerStates

(* The pump, the thread and the client's moves keep the types of what they
   own; a streamed value is counted within the bound. *)
LEMMA OthersTypes ==
  ASSUME ReqTypeOK, Piped, Pumping, Others \/ Handle
  PROVE  /\ client' \in {"open", "gone"} /\ cancelled' \in BOOLEAN
         /\ pump' \in {"none", "reading", "sending", "done"}
         /\ pend' \in {"none", "data", "err"} /\ Pumping'
         /\ frames' \in 0..MaxFrames
         /\ reqChan' \in Seq({"data", "err"}) /\ Len(reqChan') <= ReqCap
         /\ reqRx' \in BOOLEAN /\ reading' \in BOOLEAN /\ failed' \in BOOLEAN /\ job' \in BOOLEAN
         /\ epc' \in EvalStates
         /\ metaTx' \in {"none", "tls", "used"}
         /\ meta' \in {"pending", "static", "proxy", "closed"}
         /\ body' \in {"pending", "empty", "full", "stream", "closed"}
         /\ chunks' \in 0..MaxChunks
         /\ streamRx' \in {"none", "alive", "dropped"}
<1> USE DEF EvalStates, Pumping
<1>1. CASE ClientGoes \/ CancelToken \/ KillJobs \/ Handle
  BY <1>1 DEF ClientGoes, CancelToken, KillJobs, Handle, pumpVars, evalVars, clientVars, ReqTypeOK
<1>2. CASE PumpFrame
  BY <1>2, BoundAssumption DEF PumpFrame, evalVars, ReqTypeOK
<1>3. CASE PumpSend
  <2>1. pend \in {"data", "err"}
    BY <1>3 DEF PumpSend, ReqTypeOK
  <2>2. Len(reqChan) < ReqCap =>
          Append(reqChan, pend) \in Seq({"data", "err"}) /\ Len(Append(reqChan, pend)) <= ReqCap
    BY <2>1, CapAssumption DEF ReqTypeOK
  <2>3. reqChan' \in Seq({"data", "err"}) /\ Len(reqChan') <= ReqCap
    BY <1>3, <2>2 DEF PumpSend, ReqTypeOK
  <2>4. pump' \in {"reading", "done"}
    BY <1>3 DEF PumpSend
  <2> QED
    BY <1>3, <2>3, <2>4 DEF PumpSend, evalVars, ReqTypeOK
<1>4. CASE ScriptWantsInput
  BY <1>4 DEF ScriptWantsInput, clientVars, pumpVars, ReqTypeOK
<1>5. CASE ScriptReads
  <2>1. reqChan # <<>> => Tail(reqChan) \in Seq({"data", "err"}) /\ Len(Tail(reqChan)) <= ReqCap
    BY CapAssumption DEF ReqTypeOK
  <2>2. reqChan' \in Seq({"data", "err"}) /\ Len(reqChan') <= ReqCap
    BY <1>5, <2>1 DEF ScriptReads, ReqTypeOK
  <2>3. reqRx' \in BOOLEAN /\ reading' \in BOOLEAN
    BY <1>5 DEF ScriptReads, ReqTypeOK
  <2> QED
    BY <1>5, <2>2, <2>3 DEF ScriptReads, clientVars, pumpVars, ReqTypeOK
<1>6. CASE ScriptStatic \/ ScriptProxy
  BY <1>6 DEF ScriptStatic, ScriptProxy, SendSpecial, clientVars, pumpVars, ReqTypeOK
<1>7. CASE EvalReturns
  BY <1>7 DEF EvalReturns, ClearTls, clientVars, pumpVars, ReqTypeOK
<1>8. CASE EvalErr \/ EvalPanic
  BY <1>8 DEF EvalErr, EvalPanic, ClearTls, clientVars, pumpVars, ReqTypeOK
<1>9. CASE EvalPeek \/ EvalProduce
  BY <1>9 DEF EvalPeek, EvalProduce, clientVars, pumpVars, ReqTypeOK
<1>10. CASE EvalSend
  <2>1. chunks' \in 0..MaxChunks
    BY <1>10, BoundAssumption DEF EvalSend, Piped, ReqTypeOK
  <2> QED
    <3>1. epc' \in EvalStates /\ reqRx' \in BOOLEAN
      BY <1>10 DEF EvalSend, ReqTypeOK
    <3>2. UNCHANGED <<client, cancelled, pump, pend, frames, reqChan, reading, metaTx, failed, job,
                      meta, body, streamRx>>
      BY <1>10 DEF EvalSend, clientVars, pumpVars
    <3> QED
      BY <2>1, <3>1, <3>2 DEF ReqTypeOK
<1>11. CASE Cleanup \/ ThreadExit
  BY <1>11 DEF Cleanup, ThreadExit, ClearTls, clientVars, pumpVars, ReqTypeOK
<1> QED
  BY <1>1, <1>2, <1>3, <1>4, <1>5, <1>6, <1>7, <1>8, <1>9, <1>10, <1>11
  DEF Others, Pump, EvalThread

(* What a step does to the response channel: nothing, or a send, or a receive. *)
ChanStep ==
  \/ UNCHANGED <<chan, got, chunks>>
  \/ /\ epc = "send" /\ Len(chan) < StreamCap
     /\ chunks' = chunks + 1 /\ chan' = Append(chan, chunks + 1) /\ got' = got
  \/ /\ chan # <<>> /\ ~(sse /\ cancelled)
     /\ got' = Append(got, Head(chan)) /\ chan' = Tail(chan) /\ chunks' = chunks

LEMMA ChanSteps == [ReqNext]_reqVars => ChanStep
<1>1. ClientGoes \/ CancelToken \/ KillJobs \/ Handle \/ Pump => ChanStep
  BY DEF ClientGoes, CancelToken, KillJobs, Handle, Pump, PumpFrame, PumpSend, evalVars, ChanStep
<1>2. EvalThread => ChanStep
  BY DEF EvalThread, ScriptWantsInput, ScriptReads, ScriptStatic, ScriptProxy, SendSpecial,
         EvalReturns, EvalErr, EvalPanic, EvalPeek, EvalProduce, EvalSend, Cleanup, ThreadExit,
         ChanStep
<1>3. Handler => ChanStep
  BY DEF Handler, NormalResponse, StaticStart, StaticServe, StaticCollect, ProxyStart, ProxyAnswer,
         evalVars, ChanStep
<1>4. PollFixed \/ PollStream \/ Abort => ChanStep
  BY DEF PollFixed, PollStream, Abort, evalVars, ChanStep
<1> QED
  BY <1>1, <1>2, <1>3, <1>4 DEF ReqNext, reqVars, ChanStep

(* A value is appended with the next number and taken from the front. *)
LEMMA ChanKeeps ==
  ASSUME ReqTypeOK, Piped, ChanStep
  PROVE  /\ chan' \in Seq(1..MaxChunks) /\ Len(chan') <= StreamCap
         /\ got' \in Seq(1..MaxChunks)
         /\ Len(got') + Len(chan') = chunks'
         /\ \A i \in 1..Len(got') : got'[i] = i
         /\ \A i \in 1..Len(chan') : chan'[i] = Len(got') + i
<1>0. /\ chan \in Seq(1..MaxChunks) /\ got \in Seq(1..MaxChunks) /\ Len(chan) <= StreamCap
      /\ Len(chan) \in Nat /\ Len(got) \in Nat /\ chunks \in 0..MaxChunks
      /\ MaxChunks \in Nat /\ StreamCap \in Nat
  BY CapAssumption, BoundAssumption DEF ReqTypeOK
<1>1. CASE UNCHANGED <<chan, got, chunks>>
  BY <1>0, <1>1 DEF Piped
<1>2. CASE /\ epc = "send" /\ Len(chan) < StreamCap
           /\ chunks' = chunks + 1 /\ chan' = Append(chan, chunks + 1) /\ got' = got
  <2>1. chunks + 1 \in 1..MaxChunks
    BY <1>0, <1>2 DEF Piped
  <2>2. chan' \in Seq(1..MaxChunks) /\ Len(chan') = Len(chan) + 1
    BY <1>0, <1>2, <2>1
  <2>3. \A i \in 1..Len(chan') : chan'[i] = Len(got) + i
    <3>1. \A i \in 1..Len(chan) : chan'[i] = chan[i]
      BY <1>0, <1>2, <2>1
    <3>2. chan'[Len(chan) + 1] = chunks + 1
      BY <1>0, <1>2, <2>1
    <3>3. Len(got) + Len(chan) = chunks /\ \A i \in 1..Len(chan) : chan[i] = Len(got) + i
      BY DEF Piped
    <3>4. TAKE i \in 1..Len(chan')
    <3>5. CASE i \in 1..Len(chan)
      BY <3>1, <3>3, <3>5
    <3>6. CASE i = Len(chan) + 1
      <4>1. chan'[i] = chunks + 1
        BY <3>2, <3>6
      <4>2. chunks + 1 = Len(got) + i
        BY <1>0, <3>3, <3>6
      <4> QED
        BY <4>1, <4>2
    <3> QED
      BY <1>0, <2>2, <3>5, <3>6
  <2>4. Len(got) + Len(chan) = chunks /\ \A i \in 1..Len(got) : got[i] = i
    BY DEF Piped
  <2>5. Len(chan') <= StreamCap /\ Len(got) + Len(chan') = chunks'
    <3>1. Len(chan) < StreamCap /\ chunks' = chunks + 1
      BY <1>2
    <3>2. chunks \in Int
      BY <1>0
    <3> QED
      BY <1>0, <2>2, <2>4, <3>1, <3>2
  <2> QED
    BY <1>0, <1>2, <2>2, <2>3, <2>4, <2>5
<1>3. CASE /\ chan # <<>>
           /\ got' = Append(got, Head(chan)) /\ chan' = Tail(chan) /\ chunks' = chunks
  <2>1. /\ chan' \in Seq(1..MaxChunks) /\ Len(chan') = Len(chan) - 1 /\ Len(chan) > 0
        /\ \A i \in 1..Len(chan') : chan'[i] = chan[i + 1]
    BY <1>0, <1>3
  <2>2. Head(chan) = Len(got) + 1 /\ Head(chan) \in 1..MaxChunks
    BY <1>0, <1>3, <2>1 DEF Piped
  <2>3. /\ got' \in Seq(1..MaxChunks) /\ Len(got') = Len(got) + 1
        /\ \A i \in 1..Len(got) : got'[i] = got[i]
        /\ got'[Len(got) + 1] = Head(chan)
    BY <1>0, <1>3, <2>2
  <2>4. \A i \in 1..Len(got') : got'[i] = i
    <3>1. \A i \in 1..Len(got) : got[i] = i
      BY DEF Piped
    <3>2. TAKE i \in 1..Len(got')
    <3>3. i \in 1..Len(got) \/ i = Len(got) + 1
      BY <1>0, <2>3
    <3> QED
      BY <2>2, <2>3, <3>1, <3>3
  <2>5. \A i \in 1..Len(chan') : chan'[i] = Len(got') + i
    BY <1>0, <2>1, <2>3 DEF Piped
  <2>6. Len(chan') <= StreamCap /\ Len(got') + Len(chan') = chunks'
    <3>1. Len(got) + Len(chan) = chunks /\ chunks' = chunks
      BY <1>3 DEF Piped
    <3>2. chunks \in Int
      BY <1>0
    <3>3. Len(chan') = Len(chan) - 1 /\ Len(got') = Len(got) + 1
      BY <2>1, <2>3
    <3>4. Len(chan) \in Nat /\ Len(got) \in Nat /\ Len(chan) <= StreamCap /\ StreamCap \in Nat
      BY <1>0
    <3> QED
      BY <3>1, <3>2, <3>3, <3>4
  <2> QED
    BY <2>1, <2>3, <2>4, <2>5, <2>6
<1> QED
  BY <1>1, <1>2, <1>3 DEF ChanStep

(* The types, as one step keeps them. *)
LEMMA ReqTypeStep == ReqInv /\ Logged' /\ [ReqNext]_reqVars => ReqTypeOK' /\ Pumping'
<1> SUFFICES ASSUME ReqInv, Logged', [ReqNext]_reqVars PROVE ReqTypeOK' /\ Pumping'
  OBVIOUS
<1>0. ReqTypeOK /\ Piped /\ Pumping
  BY DEF ReqInv
<1>1. CASE UNCHANGED reqVars
  BY <1>0, <1>1 DEF reqVars, ReqTypeOK, Pumping
<1>2. chan' \in Seq(1..MaxChunks) /\ Len(chan') <= StreamCap /\ got' \in Seq(1..MaxChunks)
  BY <1>0, ChanSteps, ChanKeeps
<1>3. CASE Others
  <2>1. UNCHANGED <<hpc, kind, sse, status, outcome, guard, log, logStatus>>
    BY <1>3, OthersFrame
  <2> QED
    BY <1>0, <1>2, <1>3, <2>1, OthersTypes DEF ReqTypeOK
<1>4. CASE Handle
  <2>1. log' \in Seq(Phases) /\ guard' \in {"none", "held", "dropped"}
    BY <1>0, <1>4, HandlerTypes, LoggedTypes
  <2> QED
    BY <1>0, <1>2, <1>4, <2>1, HandlerTypes, OthersTypes DEF ReqTypeOK
<1>5. CASE Handler \/ PollFixed \/ PollStream \/ Abort
  <2>1. log' \in Seq(Phases) /\ guard' \in {"none", "held", "dropped"}
    BY <1>0, <1>5, HandlerTypes, LoggedTypes
  <2>2. UNCHANGED <<client, cancelled, pump, pend, frames, reqChan, reqRx, epc, reading, metaTx,
                    failed, chunks, job, meta, body>>
    BY <1>5 DEF Handler, NormalResponse, StaticStart, StaticServe, StaticCollect, ProxyStart,
                ProxyAnswer, PollFixed, PollStream, Abort, evalVars, clientVars, pumpVars
  <2> QED
    BY <1>0, <1>2, <1>5, <2>1, <2>2, HandlerTypes DEF ReqTypeOK, Pumping
<1> QED
  BY <1>1, <1>3, <1>4, <1>5 DEF ReqNext, Others

(* What the pump, the thread and the client's moves do to the answer in meta:
   it is given once, by the thread, after the handler has started it. *)
LEMMA MetaStep ==
  ASSUME ReqTypeOK, MetaOnce, Others
  PROVE  /\ hpc = "idle" => UNCHANGED <<epc, metaTx, meta, body>>
         /\ meta # "pending" => meta' = meta
         /\ metaTx' # "used" => meta' = "pending"
<1>1. CASE ClientGoes \/ CancelToken \/ KillJobs \/ Pump
  BY <1>1 DEF ClientGoes, CancelToken, KillJobs, Pump, PumpFrame, PumpSend, evalVars, MetaOnce
<1>2. CASE ScriptWantsInput \/ ScriptReads
  BY <1>2 DEF ScriptWantsInput, ScriptReads, MetaOnce
<1>3. CASE ScriptStatic \/ ScriptProxy
  BY <1>3 DEF ScriptStatic, ScriptProxy, SendSpecial, MetaOnce
<1>4. CASE EvalReturns
  BY <1>4 DEF EvalReturns, ClearTls, MetaOnce
<1>5. CASE EvalErr \/ EvalPanic
  BY <1>5 DEF EvalErr, EvalPanic, ClearTls, MetaOnce
<1>6. CASE EvalPeek \/ EvalProduce \/ EvalSend \/ Cleanup
  BY <1>6 DEF EvalPeek, EvalProduce, EvalSend, Cleanup, MetaOnce
<1>7. CASE ThreadExit
  BY <1>7 DEF ThreadExit, ClearTls, MetaOnce
<1> QED
  BY <1>1, <1>2, <1>3, <1>4, <1>5, <1>6, <1>7 DEF Others, EvalThread

LEMMA MetaOnceStep == ReqTypeOK /\ MetaOnce /\ [ReqNext]_reqVars => MetaOnce'
<1> SUFFICES ASSUME ReqTypeOK, MetaOnce, [ReqNext]_reqVars PROVE MetaOnce'
  OBVIOUS
<1>1. CASE UNCHANGED reqVars
  BY <1>1 DEF reqVars, MetaOnce
<1>2. CASE Others
  BY <1>2, MetaStep, OthersFrame DEF MetaOnce
<1>3. CASE Handle
  BY <1>3 DEF Handle, MetaOnce
<1>4. CASE NormalResponse
  BY <1>4, HandlerFrame DEF Handler, NormalResponse, Joined, Plain500, FailsAfter, HandlerPanics, MetaOnce
<1>5. CASE StaticStart \/ StaticServe \/ StaticCollect
  BY <1>5, HandlerFrame
  DEF Handler, StaticStart, StaticServe, StaticCollect, Joined, Plain500, FailsAfter, HandlerPanics, MetaOnce
<1>6. CASE ProxyStart \/ ProxyAnswer
  BY <1>6, HandlerFrame DEF Handler, ProxyStart, ProxyAnswer, Joined, Plain500, FailsAfter, MetaOnce
<1>7. CASE PollFixed \/ PollStream \/ Abort
  BY <1>7, HandlerFrame DEF PollFixed, PollStream, Abort, BodyEnds, handleVars, MetaOnce
<1> QED
  BY <1>1, <1>2, <1>3, <1>4, <1>5, <1>6, <1>7 DEF ReqNext, Others, Handler

(* The status line and its log entry, which agree from the handler's answer to
   the end of the body; a plain 500 has no body of the handler's kinds. *)
LEMMA StatusedStep == ReqTypeOK /\ MetaOnce /\ Statused /\ [ReqNext]_reqVars => Statused'
<1> SUFFICES ASSUME ReqTypeOK, MetaOnce, Statused, [ReqNext]_reqVars PROVE Statused'
  OBVIOUS
<1>0. hpc \in HandlerStates
  BY DEF ReqTypeOK
<1>1. CASE UNCHANGED reqVars
  BY <1>1 DEF reqVars, Statused
<1>2. CASE Others
  <2>1. UNCHANGED <<hpc, kind, sse, status, outcome, guard, log, logStatus, got>>
    BY <1>2, OthersFrame
  <2>2. hpc = "plain" => meta' = meta
    BY <1>2, MetaStep DEF MetaOnce
  <2> QED
    BY <2>1, <2>2 DEF Statused
<1>3. CASE Handle
  BY <1>3 DEF Handle, Statused
<1>4. CASE NormalResponse
  <2>0. hpc = "join" /\ UNCHANGED meta
    BY <1>4, HandlerFrame DEF Handler, NormalResponse, Joined
  <2>1. CASE Plain500
    BY <2>0, <2>1 DEF Plain500, FailsAfter, Statused
  <2>2. CASE hpc' = "over" /\ outcome' = "reset" /\ UNCHANGED <<kind, sse, status>>
    BY <2>0, <2>2 DEF Statused
  <2>3. CASE /\ hpc' = "body" /\ kind' = body /\ status' = logStatus'
             /\ sse' \in {FALSE, body = "stream"} /\ UNCHANGED outcome
    BY <2>0, <2>3 DEF Statused
  <2>4. CASE hpc' = "plain" /\ UNCHANGED <<kind, sse, outcome>>
    BY <2>0, <2>4 DEF Statused
  <2> QED
    BY <1>4, <2>1, <2>2, <2>3, <2>4 DEF NormalResponse, HandlerPanics, FailsAfter, LogResponse
<1>5. CASE StaticStart
  BY <1>5, HandlerFrame DEF Handler, StaticStart, Joined, HandlerPanics, Statused
<1>6. CASE StaticServe
  BY <1>6 DEF StaticServe, LogResponse, Statused
<1>7. CASE StaticCollect
  BY <1>7, HandlerFrame DEF Handler, StaticCollect, Plain500, FailsAfter, Statused, MetaOnce
<1>8. CASE ProxyStart
  BY <1>8, HandlerFrame DEF Handler, ProxyStart, Joined, Plain500, FailsAfter, Statused
<1>9. CASE ProxyAnswer
  BY <1>9 DEF ProxyAnswer, LogResponse, Statused
<1>10. ASSUME NEW how \in {"clean", "error", "aborted"}, BodyEnds(how), hpc \notin {"idle", "over"}
       PROVE Statused'
  BY <1>0, <1>10 DEF BodyEnds, Statused, HandlerStates
<1>11. CASE PollFixed \/ PollStream \/ Abort
  <2>1. UNCHANGED meta
    BY <1>11, HandlerFrame
  <2>2. CASE UNCHANGED handleVars
    BY <2>1, <2>2 DEF handleVars, Statused
  <2> QED
    BY <1>10, <1>11, <2>2 DEF PollFixed, PollStream, Abort
<1> QED
  BY <1>1, <1>2, <1>3, <1>4, <1>5, <1>6, <1>7, <1>8, <1>9, <1>11 DEF ReqNext, Others, Handler

LEMMA PipedStep == ReqInv /\ [ReqNext]_reqVars => Piped'
<1> SUFFICES ASSUME ReqInv, [ReqNext]_reqVars PROVE Piped'
  OBVIOUS
<1>0. ReqTypeOK /\ Piped /\ MetaOnce
  BY DEF ReqInv
<1>1. /\ Len(got') + Len(chan') = chunks'
      /\ \A i \in 1..Len(got') : got'[i] = i
      /\ \A i \in 1..Len(chan') : chan'[i] = Len(got') + i
  BY <1>0, ChanSteps, ChanKeeps
<1>2. chunks \in Nat /\ MaxChunks \in Nat /\ chunks <= MaxChunks
  BY <1>0, BoundAssumption DEF ReqTypeOK
<1>3. /\ epc' \in {"none", "running", "peek"} => chunks' = 0
      /\ epc' = "send" => chunks' < MaxChunks
  <2> DEFINE G == /\ epc' \in {"none", "running", "peek"} => chunks' = 0
                  /\ epc' = "send" => chunks' < MaxChunks
  <2>0. /\ epc \in {"none", "running", "peek"} => chunks = 0
        /\ epc = "send" => chunks < MaxChunks
    BY <1>0 DEF Piped
  <2>1. CASE UNCHANGED <<epc, chunks>>
    BY <2>0, <2>1
  <2>2. CASE Handle
    BY <2>0, <2>2, <1>0 DEF Handle, MetaOnce
  <2>3. CASE EvalReturns \/ EvalErr \/ EvalPanic
    BY <2>0, <2>3 DEF EvalReturns, EvalErr, EvalPanic
  <2>4. CASE EvalPeek
    BY <1>2, <2>0, <2>4 DEF EvalPeek
  <2>5. CASE EvalProduce \/ EvalSend \/ Cleanup \/ ThreadExit
    BY <2>5 DEF EvalProduce, EvalSend, Cleanup, ThreadExit
  <2>6. CASE ScriptWantsInput \/ ScriptReads \/ ScriptStatic \/ ScriptProxy
    BY <2>1, <2>6 DEF ScriptWantsInput, ScriptReads, ScriptStatic, ScriptProxy, SendSpecial
  <2>7. CASE ClientGoes \/ CancelToken \/ KillJobs \/ Pump
    BY <2>1, <2>7 DEF ClientGoes, CancelToken, KillJobs, Pump, PumpFrame, PumpSend, evalVars
  <2>8. CASE Handler \/ PollFixed \/ PollStream \/ Abort
    BY <2>1, <2>8, HandlerFrame
  <2> QED
    BY <2>1, <2>2, <2>3, <2>4, <2>5, <2>6, <2>7, <2>8 DEF ReqNext, EvalThread, reqVars
<1> QED
  BY <1>1, <1>3 DEF Piped

(* A body that has ended stays ended: once the sender is gone nothing enters
   the channel, and hyper polls no more. *)
LEMMA CleanEndStep == ReqInv /\ [ReqNext]_reqVars => CleanEnd'
<1> SUFFICES ASSUME ReqInv, [ReqNext]_reqVars, outcome' = "clean", kind' = "stream"
             PROVE  StreamTxGone' /\ chan' = <<>>
  BY DEF CleanEnd
<1>0. CleanEnd /\ Statused /\ MetaOnce /\ ReqTypeOK
  BY DEF ReqInv
<1>1. CASE UNCHANGED <<outcome, kind>>
  <2>1. StreamTxGone /\ chan = <<>> /\ hpc = "over"
    BY <1>0, <1>1 DEF CleanEnd, Statused
  <2>2. epc \in {"cleanup", "exit", "done"}
    BY <2>1 DEF StreamTxGone
  <2>3. StreamTxGone'
    <3>1. CASE UNCHANGED epc
      BY <2>1, <3>1 DEF StreamTxGone
    <3>2. CASE EvalThread
      BY <2>2, <3>2 DEF EvalThread, ScriptWantsInput, ScriptReads, ScriptStatic, ScriptProxy,
           SendSpecial, EvalReturns, EvalErr, EvalPanic, EvalPeek, EvalProduce, EvalSend, Cleanup,
           ThreadExit, StreamTxGone
    <3>3. CASE Handler \/ PollFixed \/ PollStream \/ Abort
      BY <3>1, <3>3, HandlerFrame
    <3>4. CASE ClientGoes \/ CancelToken \/ KillJobs \/ Pump
      BY <3>1, <3>4 DEF ClientGoes, CancelToken, KillJobs, Pump, PumpFrame, PumpSend, evalVars
    <3>5. ~Handle
      BY <2>1 DEF Handle
    <3> QED
      BY <3>1, <3>2, <3>3, <3>4, <3>5 DEF ReqNext, reqVars
  <2>4. chan' = <<>>
    BY <2>1, <2>2, ChanSteps DEF ChanStep
  <2> QED
    BY <2>3, <2>4
<1>2. CASE ~ UNCHANGED <<outcome, kind>>
  <2>1. PollStream /\ chan = <<>> /\ chan' = <<>> /\ StreamTxGone
    <3>1. ~ UNCHANGED reqVars /\ ~ Others
      BY <1>2, OthersFrame DEF reqVars
    <3>2. ~ Handle /\ ~ Abort /\ ~ StaticServe
      BY <1>0, <1>2 DEF Handle, Abort, BodyEnds, StaticServe, Statused
    <3>3. ~ PollFixed
      BY <1>2 DEF PollFixed, BodyEnds
    <3>4. Handler => outcome' \in {outcome, "reset"} /\ hpc \in {"join", "static", "collect", "proxy"}
      BY DEF Handler, NormalResponse, StaticStart, StaticServe, StaticCollect, ProxyStart,
             ProxyAnswer, Joined, Plain500, FailsAfter, HandlerPanics
    <3>5. ~ Handler
      BY <1>0, <3>4 DEF Statused
    <3>6. PollStream
      BY <3>1, <3>2, <3>3, <3>5 DEF ReqNext, Others
    <3> QED
      BY <1>2, <3>6 DEF PollStream, BodyEnds, handleVars
  <2>2. UNCHANGED epc
    BY <2>1, HandlerFrame
  <2> QED
    BY <2>1, <2>2 DEF StreamTxGone
<1> QED
  BY <1>1, <1>2

LEMMA ReqInvInit == ReqInit => ReqInv
<1> SUFFICES ASSUME ReqInit PROVE ReqInv
  OBVIOUS
<1>1. ReqTypeOK
  <2>1. /\ reqChan \in Seq({"data", "err"}) /\ Len(reqChan) <= ReqCap
        /\ chan \in Seq(1..MaxChunks) /\ Len(chan) <= StreamCap
        /\ got \in Seq(1..MaxChunks) /\ log \in Seq(Phases)
    BY CapAssumption DEF ReqInit
  <2>2. frames \in 0..MaxFrames /\ chunks \in 0..MaxChunks /\ status \in Int /\ logStatus \in Int
    BY BoundAssumption DEF ReqInit
  <2>3. /\ reqRx \in BOOLEAN /\ reading \in BOOLEAN /\ failed \in BOOLEAN /\ sse \in BOOLEAN
        /\ cancelled \in BOOLEAN /\ job \in BOOLEAN
    BY DEF ReqInit
  <2> QED
    BY <2>1, <2>2, <2>3 DEF ReqInit, ReqTypeOK, EvalStates, HandlerStates
<1>2. Logged /\ MetaOnce /\ Statused /\ CleanEnd /\ Pumping
  BY DEF ReqInit, Logged, MetaOnce, Statused, CleanEnd, Pumping
<1>3. Piped
  BY DEF ReqInit, Piped
<1> QED
  BY <1>1, <1>2, <1>3 DEF ReqInv

LEMMA ReqInvStep == ReqInv /\ [ReqNext]_reqVars => ReqInv'
<1> SUFFICES ASSUME ReqInv, [ReqNext]_reqVars PROVE ReqInv'
  OBVIOUS
<1>1. Logged'
  BY LoggedStep DEF ReqInv
<1>2. MetaOnce' /\ Statused'
  BY MetaOnceStep, StatusedStep DEF ReqInv
<1> QED
  BY <1>1, <1>2, ReqTypeStep, PipedStep, CleanEndStep DEF ReqInv

(* The inductive invariant of one request. *)
THEOREM ReqInvariance == ReqSpec => []ReqInv
  BY ReqInvInit, ReqInvStep, PTL DEF ReqSpec

(* The variables of a request keep their types, the two channels their
   capacities (tokio's bounded mpsc channels in handler.rs and response.rs). *)
THEOREM ReqTypeCorrect == ReqSpec => []ReqTypeOK
<1>1. ReqInv => ReqTypeOK
  BY DEF ReqInv
<1> QED
  BY <1>1, ReqInvariance, PTL

(* request, at most one response, exactly one complete: whichever of the
   handler future and the response body owns the RequestGuard, and however the
   request ends, the end is logged once and only when the guard is dropped. *)
THEOREM PhasesInOrder == ReqSpec => []PhaseOrder
<1>1. ReqInv => PhaseOrder
  <2> SUFFICES ASSUME ReqInv PROVE PhaseOrder
    OBVIOUS
  <2>1. hpc \in HandlerStates /\ Logged
    BY DEF ReqInv, ReqTypeOK
  <2>2. log \in {<<>>, Asked, Answered, Refused, Finished}
    BY <2>1 DEF Logged, HandlerStates
  <2>3. /\ log \in {Refused, Finished} => log # <<>> /\ log[Len(log)] = "complete"
        /\ log \in {Asked, Answered} => log[Len(log)] # "complete"
    <3>1. Len(Refused) = 2 /\ Refused[2] = "complete" /\ Len(Finished) = 3 /\ Finished[3] = "complete"
      BY DEF Refused, Finished
    <3>2. Len(Asked) = 1 /\ Asked[1] = "request" /\ Len(Answered) = 2 /\ Answered[2] = "response"
      BY DEF Asked, Answered
    <3>3. Len(<<>>) = 0
      OBVIOUS
    <3> QED
      BY <3>1, <3>2, <3>3
  <2>4. (log # <<>> /\ log[Len(log)] = "complete") <=> guard = "dropped"
    BY <2>1, <2>3 DEF Logged, HandlerStates
  <2>5. /\ hpc = "over" => guard = "dropped"
        /\ hpc \in {"join", "static", "collect", "proxy", "body"} => guard = "held"
    BY <2>1 DEF Logged
  <2> QED
    BY <2>2, <2>4, <2>5 DEF PhaseOrder, Asked, Answered, Refused, Finished
<1> QED
  BY <1>1, ReqInvariance, PTL

(* A streamed response is what the script sent: in order, nothing lost,
   doubled or made up under backpressure, and all of it when it ends cleanly. *)
THEOREM StreamsFaithfully == ReqSpec => []StreamFaithful
<1>1. ReqInv => StreamFaithful
  <2> SUFFICES ASSUME ReqInv PROVE StreamFaithful
    OBVIOUS
  <2>1. /\ Piped /\ CleanEnd
        /\ got \in Seq(1..MaxChunks) /\ chan \in Seq(1..MaxChunks) /\ chunks \in Nat
        /\ Len(got) \in Nat /\ Len(chan) \in Nat
    BY BoundAssumption DEF ReqInv, ReqTypeOK
  <2>2. got \o chan = [i \in 1..chunks |-> i]
    <3>1. got \o chan \in Seq(1..MaxChunks) /\ Len(got \o chan) = chunks
      BY <2>1 DEF Piped
    <3>2. \A i \in 1..chunks : (got \o chan)[i] = i
      <4>1. TAKE i \in 1..chunks
      <4>2. CASE i <= Len(got)
        BY <2>1, <4>2 DEF Piped
      <4>3. CASE i > Len(got)
        <5>1. (got \o chan)[i] = chan[i - Len(got)] /\ i - Len(got) \in 1..Len(chan)
          BY <2>1, <4>3 DEF Piped
        <5> QED
          BY <2>1, <5>1 DEF Piped
      <4>4. i <= Len(got) \/ i > Len(got)
        BY <2>1
      <4> QED
        BY <4>2, <4>3, <4>4, Zenon
    <3>3. DOMAIN (got \o chan) = 1..chunks /\ got \o chan \in [1..chunks -> 1..MaxChunks]
      BY <3>1, LenProperties
    <3> QED
      BY <3>2, <3>3
  <2>3. outcome = "clean" /\ kind = "stream" => Len(got) = chunks
    BY <2>1 DEF CleanEnd, Piped
  <2> QED
    BY <2>1, <2>2, <2>3 DEF StreamFaithful, Piped
<1> QED
  BY <1>1, ReqInvariance, PTL

(* Every response with a body of its own has the status in the log that its
   client was sent: build_normal_response, `.static` and `.reverse-proxy` log
   it before they hand the body over, and nothing changes either afterwards;
   a handler that panics has sent none. *)
THEOREM LogsWhatWasSent == ReqSpec => []LoggedAsSent
<1>1. ReqInv => LoggedAsSent
  BY DEF ReqInv, ReqTypeOK, HandlerStates, Statused, LoggedAsSent
<1> QED
  BY <1>1, ReqInvariance, PTL

(* A step of an event stream whose token is cancelled neither delivers a chunk
   nor ends the body cleanly: SseCancelBody's biased select. *)
THEOREM CancelsWithAnError == ReqSpec => CancelledStreamErrs
<1>1. ReqInv /\ [ReqNext]_reqVars /\ sse /\ cancelled
        => got' = got /\ (outcome' = outcome \/ outcome' # "clean")
  <2> SUFFICES ASSUME ReqInv, [ReqNext]_reqVars, sse, cancelled, outcome' # outcome,
                      outcome' = "clean"
               PROVE  FALSE
    BY ChanSteps DEF ChanStep
  <2>1. kind = "stream" /\ hpc \in HandlerStates
        /\ hpc \notin {"idle", "join", "static", "proxy", "collect", "plain"}
    BY DEF ReqInv, ReqTypeOK, Statused
  <2>2. ~ UNCHANGED reqVars /\ ~ Others
    BY OthersFrame DEF reqVars
  <2>3. ~ Handle /\ ~ Handler
    BY <2>1 DEF Handle, Handler, NormalResponse, StaticStart, StaticServe, StaticCollect,
                ProxyStart, ProxyAnswer, Joined
  <2>4. ~ PollFixed /\ ~ PollStream /\ ~ Abort
    BY <2>1 DEF PollFixed, PollStream, Abort, BodyEnds
  <2> QED
    BY <2>2, <2>3, <2>4 DEF ReqNext, Others
<1> QED
  BY <1>1, ReqInvariance, PTL DEF ReqSpec, CancelledStreamErrs
=============================================================================
