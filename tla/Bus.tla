-------------------------------- MODULE Bus --------------------------------
(***************************************************************************)
(* The in-process event bus (src/bus.rs) and the commands `.bus pub` and   *)
(* `.bus sub` (src/commands.rs).                                           *)
(*                                                                         *)
(* `.bus sub` subscribes to a tokio broadcast ring, starts a forwarder     *)
(* thread that copies matching events from the ring into an unbounded      *)
(* std::sync::mpsc channel, and returns an iterator that a Nushell         *)
(* pipeline pulls from the other end of that channel.                      *)
(*                                                                         *)
(* An event is its position in the ring's total order; `log` keeps the     *)
(* topic of every event the ring ever stored, of which a receiver can      *)
(* still read the last Capacity ones.  The mpsc channel of s is            *)
(* sent[s][taken[s]+1 ..]: what was sent and not yet taken.                *)
(***************************************************************************)
EXTENDS Naturals, Sequences

CONSTANTS Topics,     \* topic names
          Patterns,   \* glob patterns
          NoPattern,  \* `.bus sub` without an argument
          Subs,       \* calls of `.bus sub`
          Match,      \* Match[p]: the topics pattern p matches
          Capacity,   \* ring size (Bus::new(64))
          MaxPub      \* bound: how many times `.bus pub` runs

ASSUME MatchAssumption == Match \in [Patterns -> SUBSET Topics]
ASSUME CapacityAssumption == Capacity \in Nat \ {0}
ASSUME MaxPubAssumption == MaxPub \in Nat

VARIABLES
  log,          \* topics of the events stored in the ring, oldest first
  pubs,         \* calls of `.bus pub` so far
  pattern,      \* [Subs -> pattern]
  start,        \* history: length of log when s subscribed
  next,         \* broadcast receiver's cursor: events of log already read
  fwd,          \* forwarder thread
  sent,         \* events the forwarder sent into the mpsc channel
  taken,        \* how many of them the iterator has taken
  iter,         \* iterator end
  interrupted   \* engine_state.signals()

busVars == <<log, pubs, pattern, start, next, fwd, sent, taken, iter, interrupted>>

FwdStates  == {"none", "spawned", "recv", "send", "done", "failed"}
IterStates == {"none", "body", "check", "wait", "ended", "closed", "dropped"}

BusTypeOK ==
  /\ log \in Seq(Topics)
  /\ pubs \in 0..MaxPub
  /\ pattern \in [Subs -> Patterns \cup {NoPattern}]
  /\ start \in [Subs -> Nat]
  /\ next \in [Subs -> Nat]
  /\ fwd \in [Subs -> FwdStates]
  /\ sent \in [Subs -> Seq(Nat)]
  /\ taken \in [Subs -> Nat]
  /\ iter \in [Subs -> IterStates]
  /\ interrupted \in BOOLEAN

-----------------------------------------------------------------------------
(* BusSubscription::matches *)
Matches(s, t) == pattern[s] # NoPattern => t \in Match[pattern[s]]

(* tokio broadcast: a receiver is counted from subscribe() until its thread
   drops it. *)
Receivers == {s \in Subs : fwd[s] \in {"spawned", "recv", "send"}}

Unread(s) == Len(log) - next[s]

(* tokio broadcast: the slot at the receiver's cursor has been overwritten. *)
Lagged(s) == Unread(s) > Capacity

(* The iterator's end of the mpsc channel is alive until it is dropped. *)
RxAlive(s) == iter[s] \notin {"closed", "dropped"}

(* The forwarder's end of the mpsc channel is dropped with its thread. *)
TxGone(s) == fwd[s] \in {"done", "failed"}

BusInit ==
  /\ log = <<>>
  /\ pubs = 0
  /\ pattern = [s \in Subs |-> NoPattern]
  /\ start = [s \in Subs |-> 0]
  /\ next = [s \in Subs |-> 0]
  /\ fwd = [s \in Subs |-> "none"]
  /\ sent = [s \in Subs |-> <<>>]
  /\ taken = [s \in Subs |-> 0]
  /\ iter = [s \in Subs |-> "none"]
  /\ interrupted = FALSE

-----------------------------------------------------------------------------
(* `.bus pub`: send() stores the event when there is a receiver; without one
   it returns an error, which is ignored, and stores nothing. *)
Publish(t) ==
  /\ pubs < MaxPub
  /\ pubs' = pubs + 1
  /\ log' = IF Receivers = {} THEN log ELSE Append(log, t)
  /\ UNCHANGED <<pattern, start, next, fwd, sent, taken, iter, interrupted>>

(* `.bus sub`: the receiver is created before the thread is spawned; the
   iterator is handed to the pipeline. *)
Subscribe(s, p) ==
  /\ iter[s] = "none"
  /\ pattern' = [pattern EXCEPT ![s] = p]
  /\ start' = [start EXCEPT ![s] = Len(log)]
  /\ next' = [next EXCEPT ![s] = Len(log)]
  /\ fwd' = [fwd EXCEPT ![s] = "spawned"]
  /\ iter' = [iter EXCEPT ![s] = "body"]
  /\ UNCHANGED <<log, pubs, sent, taken, interrupted>>

(* The Bad... operators are faulty variants of the definition that follows. *)
BadForwarderStart(s) ==      \* subscribe inside the thread instead
  /\ fwd[s] = "spawned"
  /\ \E ok \in BOOLEAN :
       fwd' = [fwd EXCEPT ![s] = IF ok THEN "recv" ELSE "failed"]
  /\ next' = [next EXCEPT ![s] = Len(log)]
  /\ UNCHANGED <<log, pubs, pattern, start, sent, taken, iter, interrupted>>

(* The thread builds its own tokio runtime; when that fails it returns,
   dropping the receiver and the channel. *)
ForwarderStart(s) ==
  /\ fwd[s] = "spawned"
  /\ \E ok \in BOOLEAN :
       fwd' = [fwd EXCEPT ![s] = IF ok THEN "recv" ELSE "failed"]
  /\ UNCHANGED <<log, pubs, pattern, start, next, sent, taken, iter, interrupted>>

BadRecvSkip(s) ==            \* give up on the first event that does not match
  /\ fwd[s] = "recv"
  /\ Unread(s) > 0 /\ ~Lagged(s)
  /\ ~Matches(s, log[next[s] + 1])
  /\ next' = [next EXCEPT ![s] = @ + 1]
  /\ fwd' = [fwd EXCEPT ![s] = "done"]
  /\ UNCHANGED <<log, pubs, pattern, start, sent, taken, iter, interrupted>>

(* BusSubscription::recv, one turn of its loop: Ok(ev) that does not match *)
RecvSkip(s) ==
  /\ fwd[s] = "recv"
  /\ Unread(s) > 0 /\ ~Lagged(s)
  /\ ~Matches(s, log[next[s] + 1])
  /\ next' = [next EXCEPT ![s] = @ + 1]
  /\ UNCHANGED <<log, pubs, pattern, start, fwd, sent, taken, iter, interrupted>>

(* Ok(ev) that matches: recv returns Some(ev) *)
RecvMatch(s) ==
  /\ fwd[s] = "recv"
  /\ Unread(s) > 0 /\ ~Lagged(s)
  /\ Matches(s, log[next[s] + 1])
  /\ next' = [next EXCEPT ![s] = @ + 1]
  /\ fwd' = [fwd EXCEPT ![s] = "send"]
  /\ UNCHANGED <<log, pubs, pattern, start, sent, taken, iter, interrupted>>

BadRecvLagged(s) ==          \* resume with the oldest event still in the ring
  /\ fwd[s] = "recv"
  /\ Lagged(s)
  /\ next' = [next EXCEPT ![s] = Len(log) - Capacity]
  /\ UNCHANGED <<log, pubs, pattern, start, fwd, sent, taken, iter, interrupted>>

(* Err(Lagged): recv returns None and the forwarder's loop ends.  Err(Closed)
   needs every sender dropped; the engines hold one for the process's life. *)
RecvLagged(s) ==
  /\ fwd[s] = "recv"
  /\ Lagged(s)
  /\ fwd' = [fwd EXCEPT ![s] = "done"]
  /\ UNCHANGED <<log, pubs, pattern, start, next, sent, taken, iter, interrupted>>

BadForwardSend(s) ==         \* ignore that the iterator is gone
  /\ fwd[s] = "send"
  /\ fwd' = [fwd EXCEPT ![s] = "recv"]
  /\ sent' = [sent EXCEPT ![s] = IF RxAlive(s) THEN Append(@, next[s]) ELSE @]
  /\ UNCHANGED <<log, pubs, pattern, start, next, taken, iter, interrupted>>

(* tx.send(ev): fails, ending the loop, once the iterator is gone.  The event
   being forwarded is the one the cursor has just passed. *)
ForwardSend(s) ==
  /\ fwd[s] = "send"
  /\ IF RxAlive(s)
       THEN /\ sent' = [sent EXCEPT ![s] = Append(@, next[s])]
            /\ fwd' = [fwd EXCEPT ![s] = "recv"]
       ELSE /\ fwd' = [fwd EXCEPT ![s] = "done"]
            /\ UNCHANGED sent
  /\ UNCHANGED <<log, pubs, pattern, start, next, taken, iter, interrupted>>

-----------------------------------------------------------------------------
(* The iterator behind the ListStream: its caller is in "body" and calls
   next(), which loops between "check" and "wait". *)
Pull(s) ==
  /\ iter[s] = "body"
  /\ iter' = [iter EXCEPT ![s] = "check"]
  /\ UNCHANGED <<log, pubs, pattern, start, next, fwd, sent, taken, interrupted>>

(* if signals.interrupted() { return None } *)
IterCheck(s) ==
  /\ iter[s] = "check"
  /\ iter' = [iter EXCEPT ![s] = IF interrupted THEN "ended" ELSE "wait"]
  /\ UNCHANGED <<log, pubs, pattern, start, next, fwd, sent, taken, interrupted>>

(* recv_timeout: Ok(ev), yielded as {topic, value} *)
IterYield(s) ==
  /\ iter[s] = "wait"
  /\ taken[s] < Len(sent[s])
  /\ taken' = [taken EXCEPT ![s] = @ + 1]
  /\ iter' = [iter EXCEPT ![s] = "body"]
  /\ UNCHANGED <<log, pubs, pattern, start, next, fwd, sent, interrupted>>

BadIterTimeout(s) ==         \* recv() without a timeout: never wakes up by itself
  /\ iter[s] = "wait"
  /\ UNCHANGED busVars

(* recv_timeout: Timeout after 100 ms without an event *)
IterTimeout(s) ==
  /\ iter[s] = "wait"
  /\ taken[s] = Len(sent[s]) /\ ~TxGone(s)
  /\ iter' = [iter EXCEPT ![s] = "check"]
  /\ UNCHANGED <<log, pubs, pattern, start, next, fwd, sent, taken, interrupted>>

BadIterDisconnected(s) ==    \* end as soon as the forwarder is gone
  /\ iter[s] = "wait"
  /\ TxGone(s)
  /\ iter' = [iter EXCEPT ![s] = "ended"]
  /\ UNCHANGED <<log, pubs, pattern, start, next, fwd, sent, taken, interrupted>>

(* recv_timeout: Disconnected, reported only once the channel is drained *)
IterDisconnected(s) ==
  /\ iter[s] = "wait"
  /\ taken[s] = Len(sent[s]) /\ TxGone(s)
  /\ iter' = [iter EXCEPT ![s] = "ended"]
  /\ UNCHANGED <<log, pubs, pattern, start, next, fwd, sent, taken, interrupted>>

(* The pipeline drops the iterator: after None, or early between two calls of
   next() because whoever reads its output is gone.  The channel's receiver
   is dropped with it. *)
Drop(s) ==
  /\ iter[s] \in {"body", "ended"}
  /\ iter' = [iter EXCEPT ![s] = IF @ = "ended" THEN "closed" ELSE "dropped"]
  /\ UNCHANGED <<log, pubs, pattern, start, next, fwd, sent, taken, interrupted>>

(* SIGINT: the ctrlc handler triggers the engine's signals. *)
Interrupt ==
  /\ ~interrupted
  /\ interrupted' = TRUE
  /\ UNCHANGED <<log, pubs, pattern, start, next, fwd, sent, taken, iter>>

-----------------------------------------------------------------------------
Forwarder(s) ==
  \/ ForwarderStart(s)
  \/ RecvSkip(s)
  \/ RecvMatch(s)
  \/ RecvLagged(s)
  \/ ForwardSend(s)

Iterator(s) ==
  \/ IterCheck(s)
  \/ IterYield(s)
  \/ IterTimeout(s)
  \/ IterDisconnected(s)

BusNext ==
  \/ \E t \in Topics : Publish(t)
  \/ \E s \in Subs, p \in Patterns \cup {NoPattern} : Subscribe(s, p)
  \/ \E s \in Subs : Forwarder(s) \/ Iterator(s) \/ Pull(s) \/ Drop(s)
  \/ Interrupt

BusSpec == BusInit /\ [][BusNext]_busVars

(* Threads are scheduled; a pipeline that got a value asks for the next one or
   drops the iterator.  Nobody has to publish, subscribe or interrupt. *)
BusFairness ==
  \A s \in Subs : /\ WF_busVars(Forwarder(s))
                  /\ WF_busVars(Iterator(s))
                  /\ WF_busVars(Pull(s) \/ Drop(s))

FairBusSpec == BusSpec /\ BusFairness

(* The same with pipelines that may stop asking: a slow subscriber. *)
SlowBusSpec ==
  BusSpec /\ \A s \in Subs : WF_busVars(Forwarder(s)) /\ WF_busVars(Iterator(s))

-----------------------------------------------------------------------------
(* How far the subscription has got: the last event sent, or its start. *)
LastSent(s) == IF sent[s] = <<>> THEN start[s] ELSE sent[s][Len(sent[s])]

(* What a subscriber has received is exactly the matching events published
   since its `.bus sub` call, up to the last one received, each once and in
   publication order: no event is skipped, whatever the ring overwrote
   ("we terminate the subscription rather than skip events"). *)
GapFree ==
  \A s \in Subs :
    /\ \A k \in 1..Len(sent[s]) :
         /\ sent[s][k] \in (start[s] + 1)..Len(log)
         /\ Matches(s, log[sent[s][k]])
         /\ \A j \in 1..(k - 1) : sent[s][j] < sent[s][k]
    /\ \A i \in (start[s] + 1)..LastSent(s) :
         Matches(s, log[i]) => \E k \in 1..Len(sent[s]) : sent[s][k] = i

(* A subscription that ended on its own, with no interrupt and a working
   runtime, was overrun: more than Capacity events were waiting in the ring,
   and every event forwarded before that was still yielded. *)
EndMeansOverrun ==
  \A s \in Subs :
    iter[s] \in {"ended", "closed"} /\ ~interrupted /\ fwd[s] # "failed"
      => Lagged(s) /\ taken[s] = Len(sent[s])

(* A forwarder does not outlive its iterator for long: once the iterator is
   gone, the next matching event in the ring makes the thread drop its
   receiver and exit. *)
ForwarderReleased ==
  \A s \in Subs :
    (~RxAlive(s) /\ \E i \in (next[s] + 1)..Len(log) : Matches(s, log[i]))
      ~> TxGone(s)

(* An interrupt ends every subscription, idle ones included: the iterator
   leaves its channel at least every 100 ms to look at the signal. *)
InterruptEndsIterators ==
  \A s \in Subs :
    (interrupted /\ iter[s] # "none") ~> iter[s] \in {"ended", "closed", "dropped"}

(* A matching event published while a subscription is open is eventually
   yielded, unless the reader gave up, the server was interrupted, the
   forwarder could not start, or the ring overran this subscriber. *)
EventuallyYielded ==
  \A s \in Subs, i \in 1..MaxPub :
    (/\ iter[s] # "none" /\ i > start[s] /\ i <= Len(log)
     /\ Matches(s, log[i]))
      ~> \/ \E k \in 1..taken[s] : sent[s][k] = i
         \/ iter[s] = "dropped" \/ interrupted
         \/ fwd[s] = "failed" \/ Lagged(s)

(* The subscription implements the abstract feed: every step hands over the
   first matching event after the previous one, ends the feed, or changes
   nothing its reader can see. *)
Feed == INSTANCE EventFeed WITH
  pos <- [s \in Subs |-> IF taken[s] = 0 THEN start[s] ELSE sent[s][taken[s]]],
  status <- [s \in Subs |->
    IF iter[s] = "none" THEN "new"
    ELSE IF iter[s] \in {"ended", "closed", "dropped"} THEN "over" ELSE "open"]

ImplementsFeed == Feed!FeedSpec

-----------------------------------------------------------------------------
(* README: "Slow subscribers are disconnected on overflow" - a subscription
   with more than Capacity events waiting catches up or is ended.  (The ring
   has a limit; the channel behind it, which a slow pipeline fills, has none.) *)
SlowSubscribersEnd ==
  \A s \in Subs :
    (Len(sent[s]) - taken[s] > Capacity)
      ~> \/ Len(sent[s]) - taken[s] <= Capacity
         \/ TxGone(s) \/ iter[s] \in {"ended", "closed", "dropped"}
=============================================================================
