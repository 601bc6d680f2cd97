------------------------------ MODULE Request ------------------------------
(***************************************************************************)
(* One HTTP request, from handle() to the last byte of its response        *)
(* (src/handler.rs, src/worker.rs, RequestGuard and LoggingBody of         *)
(* src/logging.rs, `.static` and `.reverse-proxy` of src/commands.rs).     *)
(*                                                                         *)
(* Five actors run concurrently: the client, the task that pumps the       *)
(* request body into a bounded channel, the evaluation thread that runs    *)
(* the user's closure, the handler future, and hyper polling the response  *)
(* body.  The thread answers the handler through two oneshot channels:     *)
(* `meta` (a special response chosen by `.static` / `.reverse-proxy`) and  *)
(* `body` (what the pipeline returned).  A streamed response flows through *)
(* a bounded channel.  The closure is any program: which branch it takes   *)
(* is a nondeterministic choice.  Requests share no state but the job      *)
(* table and the log, so one request is the whole story.                   *)
(***************************************************************************)
EXTENDS Integers, Sequences

CONSTANTS ReqCap,     \* request body channel (mpsc::channel(32))
          StreamCap,  \* response stream channel (mpsc::channel(32))
          MaxFrames,  \* bound: frames of a request body
          MaxChunks,  \* bound: values a streaming script produces
          Statuses,   \* integers a script may set as http.response status
          NoStatus    \* the script set none

ASSUME CapAssumption == ReqCap \in Nat \ {0} /\ StreamCap \in Nat \ {0}
ASSUME BoundAssumption == MaxFrames \in Nat /\ MaxChunks \in Nat
ASSUME StatusAssumption == Statuses \subseteq Int /\ NoStatus \notin Statuses

VARIABLES
  client,     \* "open" or "gone"
  pump,       \* request body task: "none", "reading", "sending", "done"
  pend,       \* what the pump is sending: "data", "err"
  frames,     \* frames the client has sent
  reqChan,    \* request body channel
  reqRx,      \* the closure still holds its input stream
  epc,        \* evaluation thread
  reading,    \* the thread is blocked reading its input
  metaTx,     \* "none", "tls" (RESPONSE_TX holds the sender), "used"
  meta,       \* "pending", "static", "proxy", "closed"
  body,       \* "pending", "empty", "full", "stream", "closed"
  failed,     \* history: the evaluation ended with an error or a panic
  chunks,     \* values sent into the stream channel so far
  chan,       \* stream channel: numbers of the chunks in it
  streamRx,   \* "none", "alive", "dropped"
  hpc,        \* handler future and response body
  kind,       \* response body: "none", "empty", "full", "stream", "upstream"
  sse,        \* the response is an event stream
  cancelled,  \* sse_cancel_token of the engine that serves the request
  got,        \* chunks the client has been given
  status,     \* status line sent to the client, 0 before
  outcome,    \* how the response ended for the client
  guard,      \* RequestGuard: "none", "held", "dropped"
  log,        \* phases logged for this request
  logStatus,  \* status in the response phase, 0 before
  job         \* the request is in the engine's job table

pumpVars   == <<pump, pend, frames>>
evalVars   == <<epc, reading, metaTx, failed, chunks, job>>
clientVars == <<client, cancelled>>
handleVars == <<hpc, kind, sse, status, outcome, guard, log, logStatus>>
reqVars == <<client, pump, pend, frames, reqChan, reqRx, epc, reading, metaTx, meta, body,
             failed, chunks, chan, streamRx, hpc, kind, sse, cancelled, got,
             status, outcome, guard, log, logStatus, job>>

EvalStates == {"none", "running", "peek", "produce", "send", "cleanup", "exit", "done"}
HandlerStates == {"idle", "join", "static", "collect", "proxy", "body", "plain", "over"}
Phases == {"request", "response", "complete"}

ReqTypeOK ==
  /\ client \in {"open", "gone"}
  /\ pump \in {"none", "reading", "sending", "done"}
  /\ pend \in {"none", "data", "err"}
  /\ frames \in 0..MaxFrames
  /\ reqChan \in Seq({"data", "err"}) /\ Len(reqChan) <= ReqCap
  /\ reqRx \in BOOLEAN /\ reading \in BOOLEAN
  /\ epc \in EvalStates
  /\ metaTx \in {"none", "tls", "used"}
  /\ meta \in {"pending", "static", "proxy", "closed"}
  /\ body \in {"pending", "empty", "full", "stream", "closed"}
  /\ failed \in BOOLEAN
  /\ chunks \in 0..MaxChunks
  /\ chan \in Seq(1..MaxChunks) /\ Len(chan) <= StreamCap
  /\ streamRx \in {"none", "alive", "dropped"}
  /\ hpc \in HandlerStates
  /\ kind \in {"none", "empty", "full", "stream", "upstream"}
  /\ sse \in BOOLEAN /\ cancelled \in BOOLEAN
  /\ got \in Seq(1..MaxChunks)
  /\ status \in Int /\ logStatus \in Int
  /\ outcome \in {"none", "clean", "error", "reset", "aborted"}
  /\ guard \in {"none", "held", "dropped"}
  /\ log \in Seq(Phases)
  /\ job \in BOOLEAN

ReqInit ==
  /\ client = "open" /\ pump = "none" /\ pend = "none" /\ frames = 0
  /\ reqChan = <<>> /\ reqRx = FALSE
  /\ epc = "none" /\ reading = FALSE /\ metaTx = "none" /\ meta = "pending" /\ body = "pending"
  /\ failed = FALSE /\ chunks = 0 /\ chan = <<>> /\ streamRx = "none"
  /\ hpc = "idle" /\ kind = "none" /\ sse = FALSE /\ cancelled = FALSE
  /\ got = <<>> /\ status = 0 /\ outcome = "none" /\ guard = "none"
  /\ log = <<>> /\ logStatus = 0 /\ job = FALSE

-----------------------------------------------------------------------------
(* The client goes away; the engine's SSE token is cancelled (reload or
   shutdown).  Both can happen at any time. *)
ClientGoes ==
  /\ client = "open" /\ hpc # "idle"
  /\ client' = "gone"
  /\ UNCHANGED <<pumpVars, reqChan, reqRx, evalVars, meta, body, chan, streamRx,
                 handleVars, cancelled, got>>

CancelToken ==
  /\ ~cancelled
  /\ cancelled' = TRUE
  /\ UNCHANGED <<client, pumpVars, reqChan, reqRx, evalVars, meta, body, chan,
                 streamRx, handleVars, got>>

-----------------------------------------------------------------------------
(* log_response *)
LogResponse(st) == log' = Append(log, "response") /\ logStatus' = st

(* The Bad... operators are faulty variants of the definition that follows. *)
BadDropGuard(phases) ==      \* every owner logs the end, not only the guard's
  /\ guard' = "dropped"
  /\ log' = Append(phases, "complete")

(* RequestGuard::drop after the phases logged so far *)
DropGuard(phases) ==
  /\ guard' = "dropped"
  /\ log' = IF guard = "held" THEN Append(phases, "complete") ELSE phases

(* handle / handle_inner up to the first await: spawn the pump, create the
   guard, log the request; the built-in Datastar route answers at once (its
   unused input stream is dropped), anything else adds the job and spawns the
   evaluation thread. *)
Handle ==
  /\ hpc = "idle"
  /\ pump' = "reading"
  /\ guard' = "held"
  /\ \/ /\ log' = <<"request", "response">> /\ logStatus' = 200
        /\ hpc' = "body" /\ kind' = "full" /\ status' = 200
        /\ reqRx' = FALSE
        /\ UNCHANGED <<epc, metaTx, job>>
     \/ /\ log' = <<"request">>
        /\ hpc' = "join"
        /\ reqRx' = TRUE /\ job' = TRUE
        /\ epc' = "running" /\ metaTx' = "tls"
        /\ UNCHANGED <<logStatus, kind, status>>
  /\ UNCHANGED <<client, pend, frames, reqChan, reading, meta, body, failed, chunks, chan,
                 streamRx, sse, cancelled, got, outcome>>

-----------------------------------------------------------------------------
(* The pump task: body.frame(), then body_tx.send(..).await *)
PumpFrame ==
  /\ pump = "reading"
  /\ \/ client = "open" /\ frames < MaxFrames
        /\ frames' = frames + 1 /\ pend' = "data" /\ pump' = "sending"
     \/ pump' = "done" /\ UNCHANGED <<frames, pend>>
     \/ client = "gone" /\ pend' = "err" /\ pump' = "sending" /\ UNCHANGED frames
  /\ UNCHANGED <<client, reqChan, reqRx, evalVars, meta, body, chan, streamRx,
                 handleVars, cancelled, got>>

PumpSend ==
  /\ pump = "sending"
  /\ \/ /\ reqRx /\ Len(reqChan) < ReqCap
        /\ reqChan' = Append(reqChan, pend)
        /\ pump' = IF pend = "data" THEN "reading" ELSE "done"
     \/ /\ ~reqRx
        /\ pump' = "done"
        /\ UNCHANGED reqChan
  /\ UNCHANGED <<client, pend, frames, reqRx, evalVars, meta, body, chan, streamRx,
                 handleVars, cancelled, got>>

-----------------------------------------------------------------------------
(* The evaluation thread.  The script may block reading its input
   (blocking_recv), during the call of the closure or later, when its output
   is a stream that reads from it. *)
ScriptWantsInput ==
  /\ epc \in {"running", "peek", "produce"} /\ ~reading /\ reqRx
  /\ reading' = TRUE
  /\ UNCHANGED <<clientVars, pumpVars, reqChan, reqRx, epc, metaTx, failed, chunks, job,
                 meta, body, chan, streamRx, handleVars, got>>

(* A frame or a read error arrives, or the pump has closed the channel. *)
ScriptReads ==
  /\ reading
  /\ reading' = FALSE
  /\ \/ reqChan # <<>> /\ reqChan' = Tail(reqChan) /\ UNCHANGED reqRx
     \/ reqChan = <<>> /\ pump = "done" /\ reqRx' = FALSE /\ UNCHANGED reqChan
  /\ UNCHANGED <<clientVars, pumpVars, epc, metaTx, failed, chunks, job,
                 meta, body, chan, streamRx, handleVars, got>>

(* RESPONSE_TX.take() and send: a second call finds nothing, and a send to a
   handler that is gone is an error of the script. *)
SendSpecial(m) ==
  /\ epc = "running" /\ ~reading /\ metaTx = "tls"
  /\ metaTx' = "used"
  /\ meta' = IF hpc = "join" THEN m ELSE "closed"
  /\ UNCHANGED <<clientVars, pumpVars, reqChan, reading, reqRx, epc, failed, chunks, job, body,
                 chan, streamRx, handleVars, got>>

ScriptStatic == SendSpecial("static")

(* The pipeline input becomes the upstream body; when that is the request body
   the script reads it first. *)
ScriptProxy == SendSpecial("proxy")

(* "Always clear the thread local storage after eval completes" *)
ClearTls ==
  /\ metaTx' = "used"
  /\ meta' = IF metaTx = "tls" THEN "closed" ELSE meta

(* The closure returned: nothing, a value, or a stream.  A byte stream is
   announced at once; a list stream only after its first value is known.  The
   input stream goes with the closure unless the output reads from it. *)
EvalReturns ==
  /\ epc = "running" /\ ~reading
  /\ ClearTls
  /\ \/ /\ \E b \in {"empty", "full"} : body' = b
        /\ epc' = "cleanup" /\ reqRx' = FALSE
        /\ UNCHANGED streamRx
     \/ /\ epc' = "peek" /\ UNCHANGED <<body, streamRx, reqRx>>
     \/ /\ body' = "stream" /\ epc' = "produce"
        /\ streamRx' = IF hpc = "join" THEN "alive" ELSE "dropped"
        /\ UNCHANGED reqRx
  /\ UNCHANGED <<clientVars, pumpVars, reqChan, reading, failed, chunks, job, chan, handleVars, got>>

(* run_closure failed, the value is an error, or converting it panicked: both
   senders were moved into inner() and are dropped with it. *)
EvalErr ==
  /\ epc \in {"running", "peek"} /\ ~reading
  /\ failed' = TRUE
  /\ ClearTls
  /\ body' = "closed" /\ reqRx' = FALSE
  /\ epc' = "cleanup"
  /\ UNCHANGED <<clientVars, pumpVars, reqChan, reading, chunks, job, chan, streamRx, handleVars, got>>

(* A panic inside run_closure unwinds past the line that clears RESPONSE_TX;
   catch_unwind stops it in the thread's main function. *)
EvalPanic ==
  /\ epc = "running" /\ ~reading
  /\ failed' = TRUE
  /\ body' = "closed" /\ reqRx' = FALSE
  /\ epc' = "cleanup"
  /\ UNCHANGED <<clientVars, pumpVars, reqChan, reading, metaTx, meta, chunks, job, chan, streamRx,
                 handleVars, got>>

(* iter.next() of a list stream, then body_tx.send(Stream): the first value
   goes on to be sent; an empty stream or an error value ends it. *)
EvalPeek ==
  /\ epc = "peek" /\ ~reading
  /\ body' = "stream"
  /\ streamRx' = IF hpc = "join" THEN "alive" ELSE "dropped"
  /\ \/ MaxChunks > 0 /\ epc' = "send" /\ UNCHANGED <<reqRx, failed>>
     \/ epc' = "cleanup" /\ reqRx' = FALSE /\ failed' \in {failed, TRUE}
  /\ UNCHANGED <<clientVars, pumpVars, reqChan, reading, metaTx, chunks, job, meta, chan,
                 handleVars, got>>

(* The script computes the next value, or the stream is over: at its end, at
   an error value, a read error or a panic.  stream_tx is dropped. *)
EvalProduce ==
  /\ epc = "produce" /\ ~reading
  /\ \/ chunks < MaxChunks /\ epc' = "send" /\ UNCHANGED <<reqRx, failed>>
     \/ epc' = "cleanup" /\ reqRx' = FALSE /\ failed' \in {failed, TRUE}
  /\ UNCHANGED <<clientVars, pumpVars, reqChan, reading, metaTx, chunks, job, meta, body, chan,
                 streamRx, handleVars, got>>

BadEvalSend ==               \* drop the value when the channel is full
  /\ epc = "send"
  /\ \/ /\ streamRx = "alive"
        /\ chunks' = chunks + 1
        /\ chan' = IF Len(chan) < StreamCap THEN Append(chan, chunks + 1) ELSE chan
        /\ epc' = "produce" /\ UNCHANGED reqRx
     \/ /\ streamRx = "dropped"
        /\ epc' = "cleanup" /\ reqRx' = FALSE
        /\ UNCHANGED <<chunks, chan>>
  /\ UNCHANGED <<clientVars, pumpVars, reqChan, reading, metaTx, failed, job, meta, body,
                 streamRx, handleVars, got>>

(* stream_tx.blocking_send: waits for room, fails once the body is dropped. *)
EvalSend ==
  /\ epc = "send"
  /\ \/ /\ streamRx = "alive" /\ Len(chan) < StreamCap
        /\ chunks' = chunks + 1
        /\ chan' = Append(chan, chunks + 1)
        /\ epc' = "produce" /\ UNCHANGED reqRx
     \/ /\ streamRx = "dropped"
        /\ epc' = "cleanup" /\ reqRx' = FALSE
        /\ UNCHANGED <<chunks, chan>>
  /\ UNCHANGED <<clientVars, pumpVars, reqChan, reading, metaTx, failed, job, meta, body,
                 streamRx, handleVars, got>>

BadCleanup ==                \* leave the job behind when the script failed
  /\ epc = "cleanup"
  /\ epc' = "exit"
  /\ job' = failed
  /\ UNCHANGED <<clientVars, pumpVars, reqChan, reading, reqRx, metaTx, failed, chunks, meta, body,
                 chan, streamRx, handleVars, got>>

(* After inner(): an error is logged; the senders are already gone, so
   "Script error" is never sent from here; the job is removed. *)
Cleanup ==
  /\ epc = "cleanup"
  /\ epc' = "exit"
  /\ job' = FALSE
  /\ UNCHANGED <<clientVars, pumpVars, reqChan, reading, reqRx, metaTx, failed, chunks, meta, body,
                 chan, streamRx, handleVars, got>>

(* setup_ctrlc_handler: SIGINT kills every job and empties the job table; the
   thread itself runs on until its script notices. *)
KillJobs ==
  /\ job
  /\ job' = FALSE
  /\ UNCHANGED <<clientVars, pumpVars, reqChan, reading, reqRx, epc, metaTx, failed, chunks,
                 meta, body, chan, streamRx, handleVars, got>>

BadThreadExit ==             \* a thread pool: thread-locals survive the request
  /\ epc = "exit"
  /\ epc' = "done"
  /\ UNCHANGED <<clientVars, pumpVars, reqChan, reading, reqRx, metaTx, meta, failed, chunks, job,
                 body, chan, streamRx, handleVars, got>>

(* The thread ends; its thread-locals, a sender a panic left in RESPONSE_TX
   included, are destroyed. *)
ThreadExit ==
  /\ epc = "exit"
  /\ epc' = "done"
  /\ ClearTls
  /\ UNCHANGED <<clientVars, pumpVars, reqChan, reading, reqRx, failed, chunks, job, body, chan,
                 streamRx, handleVars, got>>

-----------------------------------------------------------------------------
(* The handler future once tokio::join! has both results. *)
Joined == hpc = "join" /\ meta # "pending" /\ body # "pending"

DropStreamRx == streamRx' = IF streamRx = "alive" THEN "dropped" ELSE streamRx

(* handle(): an error of handle_inner, which has dropped its guard after the
   phases logged so far, becomes a plain 500 that is logged nowhere. *)
FailsAfter(phases) ==
  /\ hpc' = "plain" /\ status' = 500
  /\ DropGuard(phases)
  /\ DropStreamRx
  /\ UNCHANGED <<kind, sse, outcome>>

Plain500 == FailsAfter(log) /\ UNCHANGED logStatus

(* A panic in the handler unwinds through hyper's connection task. *)
HandlerPanics(phases) ==
  /\ hpc' = "over" /\ outcome' = "reset"
  /\ DropGuard(phases)
  /\ DropStreamRx
  /\ UNCHANGED <<kind, sse, status>>

(* extract_http_response_meta: no status, or the integer `as u16` *)
MetaStatuses == {v % 65536 : v \in Statuses} \cup {NoStatus}

(* hyper's StatusCode range *)
ValidStatus(st) == st \in 100..999

ResponseStatus(v) ==
  IF v # NoStatus THEN v ELSE IF body = "empty" THEN 204 ELSE 200

(* build_normal_response: a bad header is an error; the status is logged
   before the builder's validity is looked at and before a full body is
   compressed, which may fail too. *)
NormalResponse ==
  /\ Joined /\ meta = "closed"
  /\ \/ Plain500           \* body_result is an error, or a bad header
     \/ /\ body # "closed"
        /\ \E v \in MetaStatuses :
             LET st == ResponseStatus(v) IN
             \/ /\ ~ValidStatus(st)
                /\ HandlerPanics(Append(log, "response"))
                /\ logStatus' = st
             \/ /\ ValidStatus(st)
                /\ LogResponse(st)
                /\ hpc' = "body" /\ kind' = body /\ status' = st
                /\ sse' \in {FALSE, body = "stream"}
                /\ UNCHANGED <<outcome, guard, streamRx>>
             \/ /\ ValidStatus(st) /\ body = "full"
                /\ FailsAfter(Append(log, "response"))
                /\ logStatus' = st
  /\ UNCHANGED <<clientVars, pumpVars, reqChan, reqRx, evalVars, meta, body, chan, got>>

(* .static: the pipeline's own result is dropped unread when handle_inner
   returns.  A path that is no URI panics. *)
StaticStart ==
  /\ Joined /\ meta = "static"
  /\ \/ hpc' = "static" /\ UNCHANGED <<kind, sse, status, outcome, guard, log, streamRx>>
     \/ HandlerPanics(log)
  /\ UNCHANGED <<logStatus, clientVars, pumpVars, reqChan, reqRx, evalVars, meta, body, chan, got>>

(* ServeDir answered; its status is logged, then the file is read. *)
StaticServe ==
  /\ hpc = "static"
  /\ \E st \in {200, 404} : LogResponse(st)
  /\ hpc' = "collect"
  /\ UNCHANGED <<kind, sse, status, outcome, guard, clientVars, pumpVars, reqChan, reqRx,
                 evalVars, meta, body, chan, streamRx, got>>

StaticCollect ==
  /\ hpc = "collect"
  /\ \/ /\ hpc' = "body" /\ kind' = "full" /\ status' = logStatus
        /\ DropStreamRx
        /\ UNCHANGED <<sse, outcome, guard, log, logStatus>>
     \/ Plain500
  /\ UNCHANGED <<clientVars, pumpVars, reqChan, reqRx, evalVars, meta, body, chan, got>>

(* .reverse-proxy: a bad target or header is an error; then the upstream
   request is sent. *)
ProxyStart ==
  /\ Joined /\ meta = "proxy"
  /\ \/ hpc' = "proxy" /\ UNCHANGED <<kind, sse, status, outcome, guard, log, logStatus, streamRx>>
     \/ Plain500
  /\ UNCHANGED <<clientVars, pumpVars, reqChan, reqRx, evalVars, meta, body, chan, got>>

BadProxyAnswer ==            \* the phase is logged before the upstream has answered
  /\ hpc = "proxy"
  /\ LogResponse(200)
  /\ \E st \in {200, 502} :
       /\ status' = st
       /\ kind' = IF st = 502 THEN "full" ELSE "upstream"
  /\ hpc' = "body"
  /\ DropStreamRx
  /\ UNCHANGED <<sse, outcome, guard, clientVars, pumpVars, reqChan, reqRx, evalVars, meta,
                 body, chan, got>>

ProxyAnswer ==
  /\ hpc = "proxy"
  /\ \E st \in {200, 502} :
       /\ LogResponse(st) /\ status' = st
       /\ kind' = IF st = 502 THEN "full" ELSE "upstream"
  /\ hpc' = "body"
  /\ DropStreamRx
  /\ UNCHANGED <<sse, outcome, guard, clientVars, pumpVars, reqChan, reqRx, evalVars, meta,
                 body, chan, got>>

-----------------------------------------------------------------------------
(* The response ends: hyper drops the body, and LoggingBody its guard. *)
BodyEnds(how) ==
  /\ hpc' = "over" /\ outcome' = how
  /\ DropGuard(log)
  /\ DropStreamRx
  /\ UNCHANGED <<kind, sse, status, logStatus>>

(* hyper polls a body that is not fed by the script: it is handed over in one
   piece; an upstream body may break off. *)
PollFixed ==
  /\ hpc \in {"body", "plain"} /\ kind # "stream"
  /\ client = "open"
  /\ \/ BodyEnds("clean")
     \/ kind = "upstream" /\ BodyEnds("error")
  /\ UNCHANGED <<clientVars, pumpVars, reqChan, reqRx, evalVars, meta, body, chan, got>>

StreamTxGone == epc \in {"cleanup", "exit", "done"}

BadPollStream ==             \* take data first, notice the token when idle
  /\ hpc = "body" /\ kind = "stream" /\ client = "open"
  /\ \/ /\ chan # <<>>
        /\ got' = Append(got, Head(chan)) /\ chan' = Tail(chan)
        /\ UNCHANGED <<handleVars, streamRx>>
     \/ chan = <<>> /\ StreamTxGone /\ BodyEnds("clean") /\ UNCHANGED <<chan, got>>
     \/ chan = <<>> /\ ~StreamTxGone /\ sse /\ cancelled /\ BodyEnds("error")
        /\ UNCHANGED <<chan, got>>
  /\ UNCHANGED <<clientVars, pumpVars, reqChan, reqRx, evalVars, meta, body>>

BadPollIdle ==               \* look at the token only when a chunk is there
  /\ hpc = "body" /\ kind = "stream" /\ client = "open"
  /\ \/ chan # <<>> /\ sse /\ cancelled /\ BodyEnds("error") /\ UNCHANGED <<chan, got>>
     \/ /\ chan # <<>> /\ ~(sse /\ cancelled)
        /\ got' = Append(got, Head(chan)) /\ chan' = Tail(chan)
        /\ UNCHANGED <<handleVars, streamRx>>
     \/ chan = <<>> /\ StreamTxGone /\ BodyEnds("clean") /\ UNCHANGED <<chan, got>>
  /\ UNCHANGED <<clientVars, pumpVars, reqChan, reqRx, evalVars, meta, body>>

(* hyper polls a streamed body.  An event stream looks at the cancel token
   first (biased select) and then ends with an error; otherwise the next
   chunk, or the end once the thread has dropped its sender. *)
PollStream ==
  /\ hpc = "body" /\ kind = "stream" /\ client = "open"
  /\ IF sse /\ cancelled
       THEN BodyEnds("error") /\ UNCHANGED <<chan, got>>
       ELSE \/ /\ chan # <<>>
               /\ got' = Append(got, Head(chan)) /\ chan' = Tail(chan)
               /\ UNCHANGED <<handleVars, streamRx>>
            \/ chan = <<>> /\ StreamTxGone /\ BodyEnds("clean") /\ UNCHANGED <<chan, got>>
  /\ UNCHANGED <<clientVars, pumpVars, reqChan, reqRx, evalVars, meta, body>>

(* hyper drops the handler future or the response body of a connection that
   is gone; whichever holds the guard drops it. *)
Abort ==
  /\ client = "gone" /\ hpc \notin {"idle", "over"}
  /\ BodyEnds("aborted")
  /\ UNCHANGED <<clientVars, pumpVars, reqChan, reqRx, evalVars, meta, body, chan, got>>

-----------------------------------------------------------------------------
Pump == PumpFrame \/ PumpSend

EvalThread ==
  \/ ScriptWantsInput \/ ScriptReads \/ ScriptStatic \/ ScriptProxy
  \/ EvalReturns \/ EvalErr \/ EvalPanic
  \/ EvalPeek \/ EvalProduce \/ EvalSend
  \/ Cleanup \/ ThreadExit

Handler ==
  \/ NormalResponse
  \/ StaticStart \/ StaticServe \/ StaticCollect
  \/ ProxyStart \/ ProxyAnswer

ReqNext ==
  \/ ClientGoes \/ CancelToken \/ KillJobs
  \/ Handle
  \/ Pump \/ EvalThread \/ Handler
  \/ PollFixed \/ PollStream \/ Abort

ReqSpec == ReqInit /\ [][ReqNext]_reqVars

(* The code's threads and tasks are scheduled.  A script goes on computing: it
   returns, fails, or yields its next value (a closure that blocks for ever
   outside its input keeps its thread).  hyper notices a connection that is
   gone.  A client that stays has to do nothing, except in ReadingClient. *)
ReqFairness ==
  /\ WF_reqVars(PumpSend)
  /\ WF_reqVars(client = "gone" /\ PumpFrame)
  /\ WF_reqVars(EvalThread)
  /\ WF_reqVars(NormalResponse \/ StaticStart \/ ProxyStart)
  /\ WF_reqVars(Abort)

ReadingClient == WF_reqVars(PollStream)

FairReqSpec == ReqSpec /\ ReqFairness /\ ReadingClient

-----------------------------------------------------------------------------
(* The phases logged for a request are request, then at most one response,
   then exactly one complete, logged when and only when the guard is dropped:
   no abort, error, panic or end of the body logs the end twice, or early. *)
PhaseOrder ==
  /\ log \in {<<>>, <<"request">>, <<"request", "response">>,
              <<"request", "complete">>, <<"request", "response", "complete">>}
  /\ log # <<>> /\ log[Len(log)] = "complete" <=> guard = "dropped"
  /\ hpc = "over" => guard = "dropped"
  /\ hpc \in {"join", "static", "collect", "proxy", "body"} => guard = "held"

(* What a streaming client has been given, followed by what is still in the
   channel, is what the script sent, in order; a stream that ends cleanly has
   delivered all of it, backpressure or not. *)
StreamFaithful ==
  /\ streamRx # "dropped" => got \o chan = [i \in 1..chunks |-> i]
  /\ \A i \in 1..Len(got) : got[i] = i
  /\ outcome = "clean" /\ kind = "stream" => Len(got) = chunks

(* Once the token is cancelled, an event stream gives its client neither data
   nor a clean end: the client sees an error, which makes it reconnect. *)
CancelledStreamErrs ==
  [][sse /\ cancelled => got' = got /\ (outcome' = outcome \/ outcome' # "clean")]_reqVars

(* An event stream whose token is cancelled ends, though its script may be
   idle, blocked on a full channel or finished. *)
CancelEndsSse == (hpc = "body" /\ sse /\ cancelled) ~> outcome # "none"

(* When the client is gone everything the request held is given back, whatever
   the script, the upstream server or the stream is doing: the complete phase
   is logged, the pump task and the thread end, the job leaves the job table. *)
GoneClientReleases ==
  client = "gone" ~> /\ log # <<>> /\ log[Len(log)] = "complete"
                     /\ pump = "done" /\ epc \in {"none", "done"} /\ ~job

(* The response phase tells what was sent: when a response with a body of its
   own goes to the client (a script's, a file, a proxied or the 502 answer),
   its status is in the log before the first byte and to the end; and a
   handler that panicked has sent no status.  Of the plain 500 that handle()
   makes of an error nothing is claimed: see ThreePhases. *)
LoggedAsSent ==
  /\ status # 0 /\ kind # "none" => logStatus = status
  /\ outcome = "reset" => status = 0

(* The handler never waits for a thread that is gone: both oneshot channels
   are answered or closed by then, after a panic too. *)
JoinAnswered == (epc = "done" /\ hpc = "join") ~> hpc # "join"

-----------------------------------------------------------------------------
(* worker.rs: "If the evaluation completes successfully, these senders will
   have been consumed. Otherwise we will use the remaining ones to send an
   error response." - a thread that has ended leaves an answer in body. *)
ErrorResponseSent == epc = "done" /\ failed => body # "closed"

(* README: "Each request emits 3 phases: request (received), response (headers
   sent), complete (body finished)" - so does one whose client was sent a
   status line, once it is over. *)
ThreePhases ==
  hpc = "over" /\ status # 0 => log = <<"request", "response", "complete">>
=============================================================================
