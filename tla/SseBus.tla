------------------------------- MODULE SseBus -------------------------------
(***************************************************************************)
(* A handler that answers `.bus sub <pattern> | to sse`: the composition   *)
(* of the bus with the evaluation thread's ByteStream loop                 *)
(* (src/worker.rs), the bounded stream channel, and the cancellable event  *)
(* stream hyper polls (src/handler.rs).                                    *)
(*                                                                         *)
(* Subscription s of Bus belongs to one response.  The thread pulls the    *)
(* subscription's iterator and owns it: it drops it when the iterator      *)
(* ends or when the response body is gone.                                 *)
(***************************************************************************)
EXTENDS Bus

CONSTANTS StreamCap   \* response stream channel (mpsc::channel(32))

ASSUME StreamCapAssumption == StreamCap \in Nat \ {0}

VARIABLES
  worker,   \* evaluation thread of s: "none", "pull", "send", "done"
  chan,     \* events in the stream channel of s
  rx,       \* the response body holds the channel's receiver
  seen,     \* events the client of s has received
  fin,      \* how the client saw the response end
  gone,     \* the client of s has disconnected
  cancel    \* sse_cancel_token

sseOnly == <<worker, chan, rx, seen, fin, gone, cancel>>
sseVars == <<busVars, sseOnly>>

SseTypeOK ==
  /\ BusTypeOK
  /\ worker \in [Subs -> {"none", "pull", "send", "done"}]
  /\ chan \in [Subs -> Seq(Nat)] /\ \A s \in Subs : Len(chan[s]) <= StreamCap
  /\ rx \in [Subs -> BOOLEAN]
  /\ seen \in [Subs -> Seq(Nat)]
  /\ fin \in [Subs -> {"none", "open", "clean", "error", "aborted"}]
  /\ gone \in [Subs -> BOOLEAN]
  /\ cancel \in BOOLEAN

SseInit ==
  /\ BusInit
  /\ worker = [s \in Subs |-> "none"]
  /\ chan = [s \in Subs |-> <<>>]
  /\ rx = [s \in Subs |-> FALSE]
  /\ seen = [s \in Subs |-> <<>>]
  /\ fin = [s \in Subs |-> "none"]
  /\ gone = [s \in Subs |-> FALSE]
  /\ cancel = FALSE

-----------------------------------------------------------------------------
(* The closure returns the byte stream; the response starts at once. *)
Respond(s, p) ==
  /\ Subscribe(s, p)
  /\ worker' = [worker EXCEPT ![s] = "pull"]
  /\ rx' = [rx EXCEPT ![s] = TRUE]
  /\ fin' = [fin EXCEPT ![s] = "open"]
  /\ UNCHANGED <<chan, seen, gone, cancel>>

(* reader.read: calls next() on the subscription's iterator *)
ReadStarts(s) ==
  /\ worker[s] = "pull"
  /\ Pull(s)
  /\ UNCHANGED sseOnly

(* ... which returns an event, formatted by event_to_string; the thread now
   holds the event it has taken last. *)
ReadEvent(s) ==
  /\ IterYield(s)
  /\ worker' = [worker EXCEPT ![s] = "send"]
  /\ UNCHANGED <<chan, rx, seen, fin, gone, cancel>>

(* ... or None: EOF.  stream_tx and the pipeline are dropped. *)
ReadEof(s) ==
  /\ worker[s] = "pull" /\ iter[s] = "ended"
  /\ Drop(s)
  /\ worker' = [worker EXCEPT ![s] = "done"]
  /\ UNCHANGED <<chan, rx, seen, fin, gone, cancel>>

(* The Bad... operators are faulty variants of the definition that follows. *)
BadSendChunk(s) ==           \* try_send: lose the event when the channel is full
  /\ worker[s] = "send" /\ rx[s]
  /\ chan' = [chan EXCEPT ![s] =
       IF Len(@) < StreamCap THEN Append(@, sent[s][taken[s]]) ELSE @]
  /\ worker' = [worker EXCEPT ![s] = "pull"]
  /\ UNCHANGED <<busVars, rx, seen, fin, gone, cancel>>

(* stream_tx.blocking_send: waits for room *)
SendChunk(s) ==
  /\ worker[s] = "send" /\ rx[s]
  /\ Len(chan[s]) < StreamCap
  /\ chan' = [chan EXCEPT ![s] = Append(@, sent[s][taken[s]])]
  /\ worker' = [worker EXCEPT ![s] = "pull"]
  /\ UNCHANGED <<busVars, rx, seen, fin, gone, cancel>>

BadSendFails(s) ==           \* the error is ignored and the loop goes on
  /\ worker[s] = "send" /\ ~rx[s]
  /\ worker' = [worker EXCEPT ![s] = "pull"]
  /\ UNCHANGED <<busVars, chan, rx, seen, fin, gone, cancel>>

(* ... and fails once the body is gone; the iterator is dropped. *)
SendFails(s) ==
  /\ worker[s] = "send" /\ ~rx[s]
  /\ Drop(s)
  /\ worker' = [worker EXCEPT ![s] = "done"]
  /\ UNCHANGED <<chan, rx, seen, fin, gone, cancel>>

-----------------------------------------------------------------------------
(* The response body ends and is dropped with the channel's receiver. *)
BodyEnds(s, how) ==
  /\ fin' = [fin EXCEPT ![s] = how]
  /\ rx' = [rx EXCEPT ![s] = FALSE]
  /\ UNCHANGED <<chan, seen>>

BadPoll(s) ==                \* the stream is over as soon as the thread is
  /\ fin[s] = "open" /\ ~gone[s]
  /\ IF cancel THEN BodyEnds(s, "error")
     ELSE \/ /\ chan[s] # <<>> /\ worker[s] # "done"
             /\ seen' = [seen EXCEPT ![s] = Append(@, Head(chan[s]))]
             /\ chan' = [chan EXCEPT ![s] = Tail(@)]
             /\ UNCHANGED <<fin, rx>>
          \/ worker[s] = "done" /\ BodyEnds(s, "clean")
  /\ UNCHANGED <<busVars, worker, gone, cancel>>

(* hyper polls: the token first, then data, then the end of the channel *)
Poll(s) ==
  /\ fin[s] = "open" /\ ~gone[s]
  /\ IF cancel THEN BodyEnds(s, "error")
     ELSE \/ /\ chan[s] # <<>>
             /\ seen' = [seen EXCEPT ![s] = Append(@, Head(chan[s]))]
             /\ chan' = [chan EXCEPT ![s] = Tail(@)]
             /\ UNCHANGED <<fin, rx>>
          \/ chan[s] = <<>> /\ worker[s] = "done" /\ BodyEnds(s, "clean")
  /\ UNCHANGED <<busVars, worker, gone, cancel>>

(* The client disconnects; hyper drops the body. *)
Disconnect(s) ==
  /\ fin[s] = "open" /\ ~gone[s]
  /\ gone' = [gone EXCEPT ![s] = TRUE]
  /\ UNCHANGED <<busVars, worker, chan, rx, seen, fin, cancel>>

Abort(s) ==
  /\ fin[s] = "open" /\ gone[s]
  /\ BodyEnds(s, "aborted")
  /\ UNCHANGED <<busVars, worker, gone, cancel>>

(* A reload or a shutdown cancels the engine's token. *)
CancelToken ==
  /\ ~cancel
  /\ cancel' = TRUE
  /\ UNCHANGED <<busVars, worker, chan, rx, seen, fin, gone>>

-----------------------------------------------------------------------------
(* Steps of the bus that are not the thread's *)
BusSteps ==
  /\ \/ \E t \in Topics : Publish(t)
     \/ \E s \in Subs : \/ Forwarder(s) \/ IterCheck(s) \/ IterTimeout(s)
                        \/ IterDisconnected(s)
     \/ Interrupt
  /\ UNCHANGED sseOnly

Thread(s) == ReadStarts(s) \/ ReadEvent(s) \/ ReadEof(s) \/ SendChunk(s) \/ SendFails(s)

SseNext ==
  \/ BusSteps
  \/ \E s \in Subs, p \in Patterns \cup {NoPattern} : Respond(s, p)
  \/ \E s \in Subs : Thread(s) \/ Poll(s) \/ Disconnect(s) \/ Abort(s)
  \/ CancelToken

SseSpec == SseInit /\ [][SseNext]_sseVars

(* Threads run, and clients that stay read what they are sent. *)
SseFairness ==
  \A s \in Subs :
    /\ WF_sseVars(Forwarder(s) /\ UNCHANGED sseOnly)
    /\ WF_sseVars((IterCheck(s) \/ IterTimeout(s) \/ IterDisconnected(s)) /\ UNCHANGED sseOnly)
    /\ WF_sseVars(Thread(s))
    /\ WF_sseVars(Poll(s))
    /\ WF_sseVars(Abort(s))

FairSseSpec == SseSpec /\ SseFairness

-----------------------------------------------------------------------------
(* A response that ended cleanly, with no interrupt and a working forwarder,
   was overrun in the ring, and its client has every event forwarded before.
   (README: "the SSE stream ends and the client reconnects"; a clean end is the
   one that, by the comment in build_normal_response, clients do not retry.) *)
CleanEndMeansOverrun ==
  \A s \in Subs :
    fin[s] = "clean" /\ ~interrupted /\ fwd[s] # "failed"
      => Lagged(s) /\ seen[s] = sent[s]

(* When the body is gone, the next event that reaches the subscription ends
   the evaluation thread. *)
ThreadReleased ==
  \A s \in Subs :
    (worker[s] # "none" /\ ~rx[s] /\ taken[s] < Len(sent[s])) ~> worker[s] = "done"

(* End to end, from `.bus pub` to the client's socket, the composition still
   is the abstract feed: what a client is handed next is the first matching
   event after the one before, through the ring, the forwarder's channel, the
   thread and the stream channel; then the response ends, for good. *)
ClientFeed == INSTANCE EventFeed WITH
  pos <- [s \in Subs |-> IF seen[s] = <<>> THEN start[s] ELSE seen[s][Len(seen[s])]],
  status <- [s \in Subs |->
    CASE fin[s] = "none" -> "new" [] fin[s] = "open" -> "open" [] OTHER -> "over"]

ImplementsClientFeed == ClientFeed!FeedSpec

=============================================================================
