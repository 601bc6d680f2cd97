------------------------------- MODULE Brotli -------------------------------
(***************************************************************************)
(* BrotliStream of src/compression.rs: the stream that compresses a        *)
(* response body while it is produced.  One poll drains the chunks that    *)
(* are ready into the encoder and flushes once, when the source has none   *)
(* left or the budget is used up.                                          *)
(*                                                                         *)
(* Chunks are numbered.  Compressed data is what a decoder gets out of it: *)
(* the header, chunks, and the end mark that FINISH writes.  The encoder   *)
(* (external) holds back any part of its input until it is flushed, and    *)
(* flushing what is flushed writes nothing.                                *)
(***************************************************************************)
EXTENDS Integers, Sequences

CONSTANTS DRAIN_BUDGET,  \* chunks one poll takes at most
          MaxChunks      \* bound: chunks the source produces

ASSUME BudgetAssumption == DRAIN_BUDGET \in Nat \ {0} /\ MaxChunks \in Nat

VARIABLES
  made,      \* chunks the source has produced
  inner,     \* the source: open, at its end, or failed (an event stream cancelled)
  woken,     \* the source has woken the task since it was parked
  poll,      \* idle (hyper will poll), polling, parked (Pending), closed, error, gone
  accepted,  \* chunks the encoder has been given
  buf,       \* what the encoder holds back
  started,   \* the header has left the encoder
  acc,       \* `accumulated` of this poll
  drained,   \* chunks of this poll
  finished,
  out        \* what the client has received

brVars == <<made, inner, woken, poll, accepted, buf, started, acc, drained, finished, out>>
encVars == <<accepted, buf, started, acc, drained>>

Header == 0
End == MaxChunks + 1
Items == Header..End

BrTypeOK ==
  /\ made \in 0..MaxChunks /\ accepted \in 0..made
  /\ inner \in {"open", "ended", "failed"}
  /\ woken \in BOOLEAN /\ started \in BOOLEAN /\ finished \in BOOLEAN
  /\ poll \in {"idle", "polling", "parked", "closed", "error", "gone"}
  /\ buf \in Seq(Items) /\ acc \in Seq(Items) /\ out \in Seq(Items)
  /\ drained \in 0..DRAIN_BUDGET

BrInit ==
  /\ made = 0 /\ inner = "open" /\ woken = FALSE
  /\ poll = "idle" /\ accepted = 0
  /\ buf = <<>> /\ started = FALSE /\ acc = <<>> /\ drained = 0
  /\ finished = FALSE /\ out = <<>>

-----------------------------------------------------------------------------
(* The source runs beside the poll, and wakes the task that was parked. *)
Produce ==
  /\ inner = "open" /\ made < MaxChunks
  /\ made' = made + 1 /\ woken' = TRUE
  /\ UNCHANGED <<inner, poll, encVars, finished, out>>

SourceStops(how) ==
  /\ inner = "open"
  /\ inner' = how /\ woken' = TRUE
  /\ UNCHANGED <<made, poll, encVars, finished, out>>

(* hyper drops the body of a client that is gone. *)
Gone ==
  /\ poll \in {"idle", "parked"}
  /\ poll' = "gone"
  /\ UNCHANGED <<made, inner, woken, encVars, finished, out>>

-----------------------------------------------------------------------------
(* encode(): what leaves the encoder when n items of its buffer do *)
Emitted(held, n) ==
  (IF started \/ n = 0 THEN <<>> ELSE <<Header>>) \o SubSeq(held, 1, n)

BadFlush ==                  \* PROCESS without input instead of FLUSH
  \E n \in 0..Len(buf) :
    /\ acc' = acc \o Emitted(buf, n)
    /\ buf' = SubSeq(buf, n + 1, Len(buf)) /\ started' = (started \/ n > 0)

(* FLUSH: all the input so far, and the header even if there was none *)
Flush ==
  /\ acc' = acc \o (IF started THEN <<>> ELSE <<Header>>) \o buf
  /\ buf' = <<>> /\ started' = TRUE

(* FINISH: a flush and the end mark *)
Finish ==
  /\ acc' = acc \o (IF started THEN <<>> ELSE <<Header>>) \o buf \o <<End>>
  /\ buf' = <<>> /\ started' = TRUE

(* Ready(Some(Ok(frame))): hyper takes the frame and polls again. *)
Frame ==
  /\ out' = out \o acc'
  /\ poll' = "idle"

PollStarts ==
  /\ poll = "idle" \/ (poll = "parked" /\ woken)
  /\ ~finished
  /\ poll' = "polling" /\ acc' = <<>> /\ drained' = 0
  /\ UNCHANGED <<made, inner, woken, accepted, buf, started, finished, out>>

(* Ready(None): the body is at its end. *)
PollFinished ==
  /\ poll = "idle" /\ finished
  /\ poll' = "closed"
  /\ UNCHANGED <<made, inner, woken, encVars, finished, out>>

(* A cancelled event stream fails even when chunks are ready. *)
Ready == accepted < made /\ inner # "failed"

(* A chunk is ready: PROCESS it, and go on within the budget. *)
PollChunk ==
  /\ poll = "polling" /\ Ready /\ drained + 1 < DRAIN_BUDGET
  /\ accepted' = accepted + 1 /\ drained' = drained + 1
  /\ LET held == Append(buf, accepted + 1)
     IN  \E n \in 0..Len(held) :
           /\ acc' = acc \o Emitted(held, n)
           /\ buf' = SubSeq(held, n + 1, Len(held)) /\ started' = (started \/ n > 0)
  /\ UNCHANGED <<made, inner, woken, poll, finished, out>>

BadPollBudget ==             \* hand over what PROCESS wrote, without FLUSH
  /\ poll = "polling" /\ Ready /\ drained + 1 >= DRAIN_BUDGET
  /\ accepted' = accepted + 1 /\ drained' = drained + 1
  /\ LET held == Append(buf, accepted + 1)
     IN  \E n \in 0..Len(held) :
           /\ acc' = acc \o Emitted(held, n)
           /\ buf' = SubSeq(held, n + 1, Len(held)) /\ started' = (started \/ n > 0)
  /\ Frame
  /\ UNCHANGED <<made, inner, woken, finished>>

(* The last chunk of the budget: PROCESS and FLUSH, wake, hand over. *)
PollBudget ==
  /\ poll = "polling" /\ Ready /\ drained + 1 >= DRAIN_BUDGET
  /\ accepted' = accepted + 1 /\ drained' = drained + 1
  /\ acc' = acc \o (IF started THEN <<>> ELSE <<Header>>) \o Append(buf, accepted + 1)
  /\ buf' = <<>> /\ started' = TRUE
  /\ Frame
  /\ UNCHANGED <<made, inner, woken, finished>>

BadPollIdle ==               \* Pending as soon as PROCESS has written nothing
  /\ poll = "polling" /\ ~Ready /\ inner = "open"
  /\ IF acc = <<>>
       THEN poll' = "parked" /\ woken' = FALSE /\ UNCHANGED <<buf, started, acc, out>>
       ELSE Flush /\ Frame /\ UNCHANGED woken
  /\ UNCHANGED <<made, inner, accepted, drained, finished>>

(* The source is Pending: FLUSH; Pending only if that leaves nothing. *)
PollIdle ==
  /\ poll = "polling" /\ ~Ready /\ inner = "open"
  /\ Flush
  /\ IF acc' = <<>>
       THEN poll' = "parked" /\ woken' = FALSE /\ UNCHANGED out
       ELSE Frame /\ UNCHANGED woken
  /\ UNCHANGED <<made, inner, accepted, drained, finished>>

BadPollError ==              \* an error ends the stream as its end does
  /\ poll = "polling" /\ inner = "failed"
  /\ finished' = TRUE
  /\ Finish /\ Frame
  /\ UNCHANGED <<made, inner, woken, accepted, drained>>

(* The source's error is passed on; what this poll accumulated goes with it. *)
PollError ==
  /\ poll = "polling" /\ inner = "failed"
  /\ finished' = TRUE /\ poll' = "error"
  /\ UNCHANGED <<made, inner, woken, encVars, out>>

PollEnd ==
  /\ poll = "polling" /\ ~Ready /\ inner = "ended"
  /\ finished' = TRUE
  /\ Finish /\ Frame
  /\ UNCHANGED <<made, inner, woken, accepted, drained>>

(* compress_stream refuses: the error is passed on, `finished` is not set. *)
EncodeFails ==
  /\ poll = "polling" /\ inner # "failed"
  /\ poll' = "error"
  /\ UNCHANGED <<made, inner, woken, encVars, finished, out>>

-----------------------------------------------------------------------------
PollSteps == PollStarts \/ PollFinished \/ PollChunk \/ PollBudget \/ PollIdle \/ PollError \/ PollEnd

BrNext ==
  \/ Produce \/ SourceStops("ended") \/ SourceStops("failed") \/ Gone
  \/ PollSteps \/ EncodeFails

(* hyper polls a body it holds: after a frame, and when the task is woken. *)
BrSpec == BrInit /\ [][BrNext]_brVars /\ WF_brVars(PollSteps)

-----------------------------------------------------------------------------
Complete == out # <<>> /\ out[Len(out)] = End
Received == Len(out) - (IF out = <<>> THEN 0 ELSE IF Complete THEN 2 ELSE 1)

(* Whatever the encoder holds back and wherever polls begin and end, the
   client decodes the header and the source's chunks in order without a gap,
   and the end mark only when the source has ended in order and all of it is
   there: an error leaves the body truncated ("the deliberately truncated body
   lets the client see this as a fetch error"). *)
BodyDecodes ==
  /\ \A i \in 1..Len(out) :
       IF out[i] = End THEN i = made + 2 /\ inner = "ended" ELSE out[i] = i - 1
  /\ poll = "closed" => Complete

(* A stream that is Pending has handed over everything it took: the client of
   an idle event stream is not kept waiting for the encoder's buffer. *)
PendingMeansDelivered == poll = "parked" => Received = accepted

(* A source that is never idle does not hold back the client: between two
   frames at most a budget of chunks is taken. *)
BoundedLag == accepted - Received <= DRAIN_BUDGET

(* Every chunk reaches the client, unless the stream fails or nobody is there. *)
ChunkDelivered ==
  \A n \in 1..MaxChunks :
    made >= n ~> (Received >= n \/ poll \in {"error", "gone"} \/ inner = "failed")
=============================================================================
