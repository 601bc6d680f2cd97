------------------------------ MODULE Logging ------------------------------
(* The log of src/logging.rs: every task emits events into one broadcast ring,
   and one writer thread, human or JSONL, turns them into output until it
   receives Shutdown; main() waits for it before the process ends.

   The emitters are main()/serve(), the requests (their phases are those of
   module Request) and whoever logs an error, a print or a reload ("note").
   An event is a pair <<kind, subject>>. *)
EXTENDS Integers, Sequences, FiniteSets, Functions

CONSTANTS
  MaxReqs,    \* bound: requests in one run
  MaxLoad,    \* bound: requests and notes in one run, by log format
  LogCap,     \* capacity of the ring: 65536
  Burst,      \* capacity of the token bucket: 40 requests
  Unit,       \* clock ticks that refill one token: 1/20 s
  MaxNotes    \* bound: notes (errors, prints and reloads) in one run

ASSUME LogAssumption ==
  /\ LogCap \in Nat \ {0} /\ Burst \in Nat \ {0} /\ Unit \in Nat \ {0}
  /\ MaxNotes \in Nat /\ MaxReqs \in Nat
  /\ MaxLoad \in [{"human", "jsonl"} -> Nat]

Reqs == 1..MaxReqs   \* scru128::new(): request ids grow

Phases == {"request", "response", "complete"}
Lifecycle == {"started", "stopping", "stopped", "stop_timed_out", "shutdown"}
Event == (Phases \X Reqs) \cup ({"note"} \X (1..MaxNotes)) \cup ({"life"} \X Lifecycle)
Shutdown == <<"life", "shutdown">>

VARIABLES
  fmt,        \* args.log_format
  life,       \* where main() and serve() are
  phase,      \* the last phase each request has logged
  notes,      \* how many notes were logged
  owed,       \* history: events emitted before Shutdown, not yet in the output,
              \* in a printed count of lagged events, or (phases of a request
              \* that the human log does not show) ignored
  chan,       \* the ring: events the writer has not received
  over,       \* events overwritten since the writer last received
  pc,         \* the writer thread
  buf,        \* jsonl: lines in the BufWriter
  urgent,     \* jsonl: needs_flush of the line just written
  requests,   \* human: RequestState by id
  active,     \* human: active_ids
  tokens,     \* human: the bucket's tokens, in ticks
  skipped,    \* human: requests skipped since the last summary
  skipTold    \* history: sum of the printed "skipped" summaries

emitVars == <<life, phase, notes>>
ringVars == <<chan, over>>
jsonlVars == <<buf, urgent>>
tableVars == <<requests, active>>
skipVars == <<skipped, skipTold>>
humanVars == <<tableVars, tokens, skipVars>>
writerVars == <<pc, jsonlVars, humanVars>>
logVars == <<fmt, emitVars, ringVars, owed, writerVars>>

Capacity == Burst * Unit
Least(a, b) == IF a < b THEN a ELSE b

LogInit ==
  /\ fmt \in {"human", "jsonl"}
  /\ life \in {"boot", "eval"}
  /\ phase = [r \in Reqs |-> "none"]
  /\ notes = 0 /\ owed = {}
  /\ chan = <<>> /\ over = {}
  /\ pc = IF fmt = "jsonl" THEN "start" ELSE "recv"
  /\ buf = {} /\ urgent = FALSE
  /\ requests = [r \in Reqs |-> "absent"]
  /\ active = <<>>
  /\ tokens = Capacity
  /\ skipped = 0 /\ skipTold = 0

-----------------------------------------------------------------------------
(* The writer's thread is over, and its receiver dropped. *)
WriterGone == pc \in {"done", "panicked"}

(* emit(): never waits.  A full ring overwrites its oldest event; without a
   receiver (the writer has returned or panicked) the event is dropped. *)
Emit(e) ==
  /\ owed' = IF life = "shutdown" \/ e = Shutdown THEN owed ELSE owed \cup {e}
  /\ IF WriterGone THEN UNCHANGED ringVars
     ELSE IF Len(chan) < LogCap THEN chan' = Append(chan, e) /\ UNCHANGED over
     ELSE chan' = Append(Tail(chan), e) /\ over' = over \cup {Head(chan)}

Load == notes + Cardinality({r \in Reqs : phase[r] # "none"})

Alive == life \notin {"exited", "failed"}

(* log_request, log_response, and log_complete by the drop of RequestGuard:
   a response may never come, the completion may come after serve() returned. *)
LogPhase(r, from, p) ==
  /\ phase[r] \in from
  /\ phase' = [phase EXCEPT ![r] = p]
  /\ Emit(<<p, r>>)
  /\ UNCHANGED <<fmt, life, notes, writerVars>>

log_request(r) ==
  /\ life \in {"serving", "draining"}
  /\ \A q \in 1..(r - 1) : phase[q] # "none"
  /\ Load < MaxLoad[fmt]
  /\ LogPhase(r, {"none"}, "request")
log_response(r) == Alive /\ LogPhase(r, {"request"}, "response")
log_complete(r) == Alive /\ LogPhase(r, {"request", "response"}, "complete")

(* log_error, log_print, log_reloaded: by any task, at any time. *)
LogNote ==
  /\ Alive /\ notes < MaxNotes /\ Load < MaxLoad[fmt]
  /\ notes' = notes + 1
  /\ Emit(<<"note", notes + 1>>)
  /\ UNCHANGED <<fmt, life, phase, writerVars>>

(* The steps of main() and serve() that log: Step(from, to, event). *)
Step(from, to, k) ==
  /\ life = from /\ life' = to
  /\ Emit(<<"life", k>>)
  /\ UNCHANGED <<fmt, phase, notes, writerVars>>

Inflight == {r \in Reqs : phase[r] \in {"request", "response"}}

Started == Step("boot", "serving", "started")
StopWhileWaiting == Step("boot", "ended", "stopped")
StopIdle == Inflight = {} /\ Step("serving", "ended", "stopped")
StopBusy == Step("serving", "draining", "stopping")
Drained == Inflight = {} /\ Step("draining", "ended", "stopped")
TimedOut == Step("draining", "ended", "stop_timed_out")
Shut == Step("ended", "shutdown", "shutdown")

Quiet(from, to) ==
  /\ life = from /\ life' = to
  /\ UNCHANGED <<fmt, phase, notes, owed, ringVars, writerVars>>

(* main() fails before it listens (no engine, no certificate, no address) or
   before it evaluates: it ends by an error or a panic, without a join. *)
Fails == \E from \in {"boot", "eval"} : Quiet(from, "failed")

(* The eval subcommand: the script ends with an error or an empty result, or
   with a result that main() prints with println!.  The JSONL writer holds the
   lock of stdout from its start to its end. *)
EvalSilent == Quiet("eval", "ended")
EvalResult == Quiet("eval", "result")
StdoutFree == fmt = "human" \/ pc \in {"start", "done"}
EvalPrint == StdoutFree /\ Quiet("result", "ended")

(* log_handle.join().ok() *)
Join == WriterGone /\ Quiet("shutdown", "exited")

-----------------------------------------------------------------------------
(* The JSONL writer takes the lock of stdout when its thread starts. *)
WriterStarts ==
  /\ Alive /\ pc = "start" /\ pc' = "recv"
  /\ UNCHANGED <<fmt, emitVars, ringVars, owed, jsonlVars, humanVars>>

(* blocking_recv(): Lagged once events were overwritten, else the next one. *)
Lagging == pc = "recv" /\ Alive /\ over # {}
Receives(e) ==
  /\ pc = "recv" /\ Alive /\ over = {} /\ chan # <<>>
  /\ e = Head(chan)
  /\ chan' = Tail(chan)
  /\ UNCHANGED <<fmt, emitVars, over>>

(* run_jsonl_handler.  A write may first empty a full BufWriter. *)
Write(lines) ==
  \/ buf' = buf \cup lines /\ owed' = owed
  \/ buf' = lines /\ owed' = owed \ buf

Flush == buf' = {} /\ owed' = owed \ buf

JsonlLagged ==
  /\ fmt = "jsonl" /\ Lagging
  /\ over' = {} /\ buf' = {} /\ owed' = owed \ (buf \cup over)
  /\ UNCHANGED <<fmt, emitVars, chan, pc, urgent, humanVars>>

JsonlShutdown ==
  /\ fmt = "jsonl" /\ Receives(Shutdown)
  /\ pc' = "done"
  /\ Flush
  /\ UNCHANGED <<urgent, humanVars>>

NeedsFlush(e) == e[1] = "note" \/ (e[1] = "life" /\ e[2] # "stopping")

JsonlWrite ==
  \E e \in Range(chan) \ {Shutdown} :
    /\ fmt = "jsonl" /\ Receives(e)
    /\ pc' = "wrote" /\ urgent' = NeedsFlush(e)
    /\ Write({e})
    /\ UNCHANGED humanVars

BadJsonlFlush ==             \* only lifecycle lines are flushed
  /\ pc = "wrote" /\ Alive /\ pc' = "recv" /\ urgent' = FALSE
  /\ IF urgent THEN Flush ELSE UNCHANGED <<buf, owed>>
  /\ UNCHANGED <<fmt, emitVars, ringVars, humanVars>>

(* rx.is_empty() is asked after the write, while others emit. *)
JsonlFlush ==
  /\ pc = "wrote" /\ Alive /\ pc' = "recv" /\ urgent' = FALSE
  /\ IF urgent \/ chan = <<>> THEN Flush ELSE UNCHANGED <<buf, owed>>
  /\ UNCHANGED <<fmt, emitVars, ringVars, humanVars>>

-----------------------------------------------------------------------------
(* run_human_handler.  What it repaints after an event is the ids in `active`;
   where the lines end up on the terminal is left out. *)
BadHumanLagged ==            \* the table is cleared, the ids are not
  /\ fmt = "human" /\ Lagging
  /\ over' = {} /\ owed' = owed \ over
  /\ requests' = [r \in Reqs |-> "absent"]
  /\ UNCHANGED <<fmt, emitVars, chan, pc, active, jsonlVars, tokens, skipVars>>

HumanLagged ==
  /\ fmt = "human" /\ Lagging
  /\ over' = {} /\ owed' = owed \ over
  /\ requests' = [r \in Reqs |-> "absent"] /\ active' = <<>>
  /\ UNCHANGED <<fmt, emitVars, chan, pc, jsonlVars, tokens, skipVars>>

(* A line above the in-flight zone *)
HumanLine ==
  \E e \in Range(chan) \ {Shutdown} :
    /\ e[1] \in {"note", "life"}
    /\ fmt = "human" /\ Receives(e)
    /\ owed' = owed \ {e}
    /\ UNCHANGED <<pc, jsonlVars, tableVars, tokens, skipVars>>

(* TokenBucket::try_consume, some ticks after the last one; more than Capacity
   of them make no difference. *)
Refilled(ticks) == Least(tokens + ticks, Capacity)

HumanSkip ==
  \E r \in Reqs, ticks \in 0..Capacity :
    /\ fmt = "human" /\ Receives(<<"request", r>>)
    /\ Refilled(ticks) < Unit
    /\ tokens' = Refilled(ticks)
    /\ skipped' = skipped + 1
    /\ UNCHANGED <<pc, owed, jsonlVars, tableVars, skipTold>>

BadHumanRequest ==           \* the summary forgets to reset its counter
  \E r \in Reqs, ticks \in 0..Capacity :
    /\ fmt = "human" /\ Receives(<<"request", r>>)
    /\ Refilled(ticks) >= Unit
    /\ tokens' = Refilled(ticks) - Unit
    /\ skipTold' = skipTold + skipped /\ skipped' = skipped
    /\ requests' = [requests EXCEPT ![r] = "waiting"]
    /\ active' = Append(active, r)
    /\ owed' = owed \ {<<"request", r>>}
    /\ UNCHANGED <<pc, jsonlVars>>

HumanRequest ==
  \E r \in Reqs, ticks \in 0..Capacity :
    /\ fmt = "human" /\ Receives(<<"request", r>>)
    /\ Refilled(ticks) >= Unit
    /\ tokens' = Refilled(ticks) - Unit
    /\ skipTold' = skipTold + skipped /\ skipped' = 0
    /\ requests' = [requests EXCEPT ![r] = "waiting"]
    /\ active' = Append(active, r)
    /\ owed' = owed \ {<<"request", r>>}
    /\ UNCHANGED <<pc, jsonlVars>>

(* A request whose path is longer than 40 bytes and has a character across one
   of truncate_middle's two cuts: the redraw panics at its line, the last one,
   and the thread ends without its summaries. *)
HumanPanics ==
  \E r \in Reqs, ticks \in 0..Capacity :
    /\ fmt = "human" /\ Receives(<<"request", r>>)
    /\ Refilled(ticks) >= Unit
    /\ tokens' = Refilled(ticks) - Unit
    /\ skipTold' = skipTold + skipped /\ skipped' = 0
    /\ requests' = [requests EXCEPT ![r] = "waiting"]
    /\ active' = Append(active, r)
    /\ pc' = "panicked"
    /\ UNCHANGED <<owed, jsonlVars>>

HumanResponse ==
  \E r \in Reqs :
    /\ fmt = "human" /\ Receives(<<"response", r>>)
    /\ owed' = owed \ {<<"response", r>>}
    /\ IF requests[r] = "absent"
       THEN UNCHANGED requests
       ELSE requests' = [requests EXCEPT ![r] = "answered"]
    /\ UNCHANGED <<pc, jsonlVars, active, tokens, skipVars>>

(* retain(|x| x != &id): the other ids, in their order *)
Retain(ids, r) ==
  LET kept == {i \in DOMAIN ids : ids[i] # r}
      InOrder(at) == Range(at) = kept /\ \A i, j \in DOMAIN at : i < j => at[i] < at[j]
  IN  {[i \in DOMAIN at |-> ids[at[i]]] : at \in {f \in [1..Cardinality(kept) -> kept] : InOrder(f)}}

HumanComplete ==
  \E r \in Reqs :
    /\ fmt = "human" /\ Receives(<<"complete", r>>)
    /\ owed' = owed \ {<<"complete", r>>}
    /\ IF requests[r] = "absent"
       THEN UNCHANGED tableVars
       ELSE /\ requests' = [requests EXCEPT ![r] = "absent"]
            /\ active' \in Retain(active, r)
    /\ UNCHANGED <<pc, jsonlVars, tokens, skipVars>>

BadHumanShutdown ==          \* the writer waits for the requests it shows
  /\ fmt = "human" /\ Receives(Shutdown)
  /\ pc' = IF active = <<>> THEN "done" ELSE "recv"
  /\ skipTold' = skipTold + skipped /\ skipped' = 0
  /\ UNCHANGED <<owed, jsonlVars, tableVars, tokens>>

(* Shutdown leaves the loop; the summaries follow. *)
HumanShutdown ==
  /\ fmt = "human" /\ Receives(Shutdown)
  /\ pc' = "done"
  /\ skipTold' = skipTold + skipped /\ skipped' = 0
  /\ UNCHANGED <<owed, jsonlVars, tableVars, tokens>>

-----------------------------------------------------------------------------
Main == Started \/ StopWhileWaiting \/ StopIdle \/ StopBusy \/ Drained \/ TimedOut
        \/ Shut \/ Fails \/ EvalSilent \/ EvalResult \/ EvalPrint \/ Join

Writer ==
  \/ WriterStarts
  \/ JsonlLagged \/ JsonlShutdown \/ JsonlWrite \/ JsonlFlush
  \/ HumanLagged \/ HumanLine \/ HumanSkip \/ HumanRequest \/ HumanPanics
  \/ HumanResponse \/ HumanComplete \/ HumanShutdown

LogNext ==
  \/ Main \/ Writer \/ LogNote
  \/ \E r \in Reqs : log_request(r) \/ log_response(r) \/ log_complete(r)

LogSpec == LogInit /\ [][LogNext]_logVars

(* The writer thread runs, and main() goes on where nothing outside holds it:
   it prints a result, sends Shutdown, and returns from join(). *)
FairLogSpec ==
  LogSpec /\ WF_logVars(Writer) /\ WF_logVars(EvalPrint \/ Shut \/ Join)

-----------------------------------------------------------------------------
LogTypeOK ==
  /\ fmt \in {"human", "jsonl"}
  /\ life \in {"boot", "serving", "draining", "ended", "shutdown", "exited", "failed",
               "eval", "result"}
  /\ phase \in [Reqs -> {"none"} \cup Phases]
  /\ notes \in 0..MaxNotes
  /\ owed \subseteq Event
  /\ chan \in Seq(Event) /\ Len(chan) <= LogCap
  /\ over \subseteq Event
  /\ pc \in {"start", "recv", "wrote", "done", "panicked"}
  /\ buf \subseteq Event /\ urgent \in BOOLEAN
  /\ requests \in [Reqs -> {"absent", "waiting", "answered"}]
  /\ active \in Seq(Reqs)
  /\ tokens \in 0..Capacity
  /\ skipped \in Nat /\ skipTold \in Nat

Unread == Range(chan) \cup over

(* "Clear all pending - their Response/Complete events may have been dropped":
   the in-flight zone never keeps a request whose completion the writer has
   already received, or has been told it missed, for as long as the writer
   runs; ids and states agree. *)
NoGhosts ==
  /\ \A i, j \in DOMAIN active : active[i] = active[j] => i = j
  /\ Range(active) = {r \in Reqs : requests[r] # "absent"}
  /\ \A r \in Range(active) :
        ~WriterGone /\ phase[r] = "complete" => <<"complete", r>> \in Unread

(* "Flush if lifecycle event or channel is empty (idle)": a JSONL writer that
   waits for the next event has nothing left in its buffer. *)
IdleMeansFlushed == pc = "recv" /\ chan = <<>> => buf = {}

(* When main() returns from join(), and no path made the writer panic, every event emitted before Shutdown is in
   the output or in a printed count of lagged events; the human log may also
   leave out requests (their later phases are then ignored), and its printed
   summaries count exactly those. *)
AccountedAtExit ==
  life = "exited" /\ pc # "panicked" =>
    /\ \A e \in owed : fmt = "human" /\ e[1] = "request"
    /\ Cardinality(owed) = skipTold

(* After Shutdown the process exits, whether the writer is still working or has
   panicked, unless requests that are still running emit a whole ring of events
   before the writer receives it. *)
ExitsUnlessOverrun ==
  (life = "shutdown" /\ (WriterGone \/ Shutdown \in Range(chan)))
    ~> (life = "exited" \/ Shutdown \in over)

-----------------------------------------------------------------------------
(* main.rs, the eval subcommand: "Evaluate a Nushell script with http-nu
   commands and exit": once the script has its result, the process exits. *)
EvalExits == life = "result" ~> life = "exited"
=============================================================================
