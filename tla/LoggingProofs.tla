---------------------------- MODULE LoggingProofs ----------------------------
(***************************************************************************)
(* Proofs about Logging for every ring, every token bucket and any number  *)
(* of requests, notes and overruns, in both formats.                       *)
(***************************************************************************)
EXTENDS Logging, FiniteSetTheorems, SequenceTheorems, TLAPS

Req(r) == <<"request", r>>
Compl(r) == <<"complete", r>>

(* What the writer still has before it, and what of the events emitted has
   neither reached the output nor is before the writer. *)
Waiting == Unread \cup buf
Missing == owed \ Waiting

(* Main and the writer end in order: the writer by Shutdown, main by join(). *)
Ending ==
  /\ life = "exited" => WriterGone
  /\ pc = "done" => life \in {"shutdown", "exited"}
  /\ Shutdown \in Unread => life \in {"shutdown", "exited"}
  /\ Shutdown \notin owed

(* The JSONL writer's buffer is empty unless it has more to read. *)
Buffered ==
  /\ fmt = "human" => pc \notin {"start", "wrote"}
  /\ fmt = "human" \/ pc = "start" => buf = {}
  /\ IdleMeansFlushed

(* The emitter of e has taken the step that emits e. *)
Issued(e) ==
  /\ e[1] = "request" => phase[e[2]] # "none"
  /\ e[1] = "response" => phase[e[2]] \in {"response", "complete"}
  /\ e[1] = "complete" => phase[e[2]] = "complete"
  /\ e[1] = "note" => e[2] <= notes

(* A request is in the ring at most once, before it is in the table, and its
   completion follows it there. *)
RingOf(r) ==
  /\ Req(r) \in Unread => phase[r] # "none"
  /\ Req(r) \in Range(chan) => /\ requests[r] = "absent" /\ Req(r) \notin over
                               /\ fmt = "human" => Req(r) \in owed
  /\ \A i, j \in 1..Len(chan) : chan[i] = Req(r) /\ chan[j] = Req(r) => i = j
  /\ ~WriterGone /\ phase[r] = "complete" =>
       \A i \in 1..Len(chan) : chan[i] = Req(r) => \E j \in 1..Len(chan) : i < j /\ chan[j] = Compl(r)

(* The human writer's table holds requests that were logged. *)
Table ==
  /\ NoGhosts
  /\ fmt = "jsonl" => active = <<>>
  /\ \A r \in Reqs : requests[r] # "absent" => phase[r] # "none"

(* What follows Shutdown in the ring was emitted after it. *)
Behind ==
  \A i, j \in 1..Len(chan) : chan[i] = Shutdown /\ i < j => chan[j] \notin owed

(* While the writer has not panicked, what is missing are the requests that
   the human log skipped, and its counters say how many. *)
Accounts ==
  pc # "panicked" =>
    /\ \A e \in Missing : fmt = "human" /\ e[1] = "request"
    /\ IsFiniteSet(Missing) /\ Cardinality(Missing) = skipped + skipTold
    /\ pc = "done" => skipped = 0 /\ owed \cap Waiting = {}

LogInv ==
  /\ LogTypeOK /\ Ending /\ Buffered /\ Table /\ Behind /\ Accounts
  /\ \A e \in owed : Issued(e)
  /\ \A r \in Reqs : RingOf(r)

(* Elements of a sequence, by their places. *)
LEMMA RangeSeq ==
  ASSUME NEW S, NEW s \in Seq(S)
  PROVE  /\ Range(s) \subseteq S /\ Len(s) \in Nat
         /\ \A x : x \in Range(s) <=> \E i \in 1..Len(s) : s[i] = x
<1>1. DOMAIN s = 1..Len(s) /\ Len(s) \in Nat /\ \A i \in 1..Len(s) : s[i] \in S
  OBVIOUS
<1> QED
  BY <1>1 DEF Range

(* The ring without its oldest event. *)
LEMMA TailRing ==
  ASSUME NEW S, NEW s \in Seq(S), s # <<>>
  PROVE  /\ Tail(s) \in Seq(S) /\ Len(s) \in Nat /\ Len(s) >= 1 /\ Len(Tail(s)) = Len(s) - 1
         /\ \A i \in 1..(Len(s) - 1) : Tail(s)[i] = s[i + 1]
         /\ Head(s) = s[1] /\ s[1] \in S /\ 1 \in 1..Len(s)
  OBVIOUS

(* Facts every step below uses. *)
LEMMA LogTypes ==
  ASSUME LogTypeOK
  PROVE  /\ chan \in Seq(Event) /\ Len(chan) \in Nat /\ Len(chan) <= LogCap /\ LogCap \in Nat /\ LogCap >= 1
         /\ Range(chan) \subseteq Event /\ over \subseteq Event /\ owed \subseteq Event
         /\ \A x : x \in Range(chan) <=> \E i \in 1..Len(chan) : chan[i] = x
         /\ \A i \in 1..Len(chan) : chan[i] \in Range(chan)
<1>1. chan \in Seq(Event) /\ Len(chan) <= LogCap /\ over \subseteq Event /\ owed \subseteq Event
  BY DEF LogTypeOK
<1>2. /\ Range(chan) \subseteq Event /\ Len(chan) \in Nat
      /\ \A x : x \in Range(chan) <=> \E i \in 1..Len(chan) : chan[i] = x
  BY <1>1, RangeSeq
<1>3. LogCap \in Nat /\ LogCap >= 1
  BY LogAssumption
<1> QED
  BY <1>1, <1>2, <1>3

(* emit() into a ring that is being read: d events fall out at the front. *)
Pushed(e, d) ==
  /\ d \in {0, 1} /\ d <= Len(chan)
  /\ chan' \in Seq(Event) /\ Len(chan') = (Len(chan) - d) + 1 /\ Len(chan') <= LogCap
  /\ \A i \in 1..(Len(chan) - d) : chan'[i] = chan[i + d]
  /\ chan'[(Len(chan) - d) + 1] = e
  /\ over' = IF d = 0 THEN over ELSE over \cup {chan[1]}

LEMMA EmitPushes ==
  ASSUME LogTypeOK, NEW e \in Event, Emit(e), ~WriterGone
  PROVE  \E d \in {0, 1} : Pushed(e, d)
<1>0. /\ chan \in Seq(Event) /\ Len(chan) \in Nat /\ Len(chan) <= LogCap /\ LogCap \in Nat /\ LogCap >= 1
  BY LogTypes
<1>1. CASE Len(chan) < LogCap
  <2>1. chan' = Append(chan, e) /\ over' = over
    BY <1>1 DEF Emit
  <2>2. /\ Append(chan, e) \in Seq(Event) /\ Len(Append(chan, e)) = Len(chan) + 1
        /\ \A i \in 1..Len(chan) : Append(chan, e)[i] = chan[i]
        /\ Append(chan, e)[Len(chan) + 1] = e
    BY <1>0
  <2>3. /\ Len(chan) - 0 = Len(chan) /\ Len(chan) + 1 <= LogCap /\ 0 <= Len(chan)
        /\ \A i \in 1..Len(chan) : i + 0 = i
    BY <1>0, <1>1
  <2>4. Pushed(e, 0)
    BY <1>0, <2>1, <2>2, <2>3 DEF Pushed
  <2> QED
    BY <2>4
<1>2. CASE ~(Len(chan) < LogCap)
  <2> DEFINE s == Tail(chan)
  <2>1. chan' = Append(s, e) /\ over' = over \cup {Head(chan)}
    BY <1>2 DEF Emit
  <2>2. chan # <<>>
    BY <1>0, <1>2
  <2>3. /\ s \in Seq(Event) /\ Len(s) = Len(chan) - 1 /\ Len(chan) >= 1
        /\ \A i \in 1..(Len(chan) - 1) : s[i] = chan[i + 1]
        /\ Head(chan) = chan[1]
    BY <1>0, <2>2, TailRing
  <2> HIDE DEF s
  <2>4. /\ Append(s, e) \in Seq(Event) /\ Len(Append(s, e)) = Len(s) + 1
        /\ \A i \in 1..Len(s) : Append(s, e)[i] = s[i]
        /\ Append(s, e)[Len(s) + 1] = e
    BY <2>3
  <2>5. (Len(chan) - 1) + 1 <= LogCap /\ 1 <= Len(chan)
    BY <1>0, <2>3
  <2>6. Pushed(e, 1)
    BY <2>1, <2>3, <2>4, <2>5 DEF Pushed
  <2> QED
    BY <2>6
<1> QED
  BY <1>1, <1>2

(* What a push does to the sets of events. *)
LEMMA PushSets ==
  ASSUME LogTypeOK, NEW e \in Event, NEW d \in {0, 1}, Pushed(e, d)
  PROVE  /\ \A x \in Range(chan') : x \in Range(chan) \/ x = e
         /\ Unread' = Unread \cup {e} /\ e \in Range(chan') /\ chan' # <<>>
         /\ \A x \in over : x \in over'
         /\ \A x \in over' : x \in over \/ (d = 1 /\ x = chan[1] /\ x \in Range(chan))
<1> DEFINE n == Len(chan)
<1>0. /\ chan \in Seq(Event) /\ n \in Nat
      /\ \A x : x \in Range(chan) <=> \E i \in 1..n : chan[i] = x
  BY LogTypes
<1>1. /\ d \in {0, 1} /\ d <= n /\ chan' \in Seq(Event) /\ Len(chan') = (n - d) + 1
      /\ (\A i \in 1..(n - d) : chan'[i] = chan[i + d])
      /\ chan'[(n - d) + 1] = e
      /\ over' = IF d = 0 THEN over ELSE over \cup {chan[1]}
  BY DEF Pushed
<1>2. \A x : x \in Range(chan') <=> \E i \in 1..Len(chan') : chan'[i] = x
  <2>1. chan' \in Seq(Event)
    BY <1>1
  <2> QED
    BY <2>1, RangeSeq
<1> HIDE DEF n
<1>3. \A i \in 1..(n - d) : i + d \in 1..n /\ i \in 1..((n - d) + 1)
  BY <1>0, <1>1
<1>4. (n - d) + 1 \in 1..((n - d) + 1)
  BY <1>0, <1>1
<1>5. \A i \in 1..((n - d) + 1) : i \in 1..(n - d) \/ i = (n - d) + 1
  BY <1>0, <1>1
<1>6. \A x \in Range(chan') : x \in Range(chan) \/ x = e
  BY <1>0, <1>1, <1>2, <1>3, <1>5
<1>7. e \in Range(chan')
  BY <1>1, <1>2, <1>4
<1>8. \A i \in 1..n : (i - d \in 1..(n - d) /\ (i - d) + d = i) \/ (d = 1 /\ i = 1)
  BY <1>0, <1>1
<1>9. \A x \in Range(chan) : x \in Range(chan') \/ x \in over'
  <2> SUFFICES ASSUME NEW x \in Range(chan), x \notin over' PROVE x \in Range(chan')
    OBVIOUS
  <2>1. PICK i \in 1..n : chan[i] = x
    BY <1>0
  <2>2. i - d \in 1..(n - d) /\ (i - d) + d = i
    BY <1>1, <1>8, <2>1
  <2>3. chan'[i - d] = x
    BY <1>1, <2>1, <2>2
  <2> QED
    BY <1>1, <1>2, <1>3, <2>2, <2>3
<1>10. d = 1 => chan[1] \in Range(chan)
  <2>1. d = 1 => 1 \in 1..n
    BY <1>0, <1>1
  <2> QED
    BY <1>0, <2>1
<1>11. \A x \in over' : x \in over \/ (d = 1 /\ x = chan[1] /\ x \in Range(chan))
  BY <1>1, <1>10
<1>12. \A x \in over : x \in over'
  BY <1>1
<1>13. Unread' = Unread \cup {e}
  BY <1>6, <1>7, <1>9, <1>11, <1>12 DEF Unread
<1>14. chan' # <<>>
  BY <1>0, <1>1
<1> QED
  BY <1>6, <1>7, <1>11, <1>12, <1>13, <1>14

(* A receive takes the oldest event. *)
LEMMA ReceivePops ==
  ASSUME LogTypeOK, NEW e, Receives(e)
  PROVE  /\ chan' \in Seq(Event) /\ Len(chan) \in Nat /\ Len(chan) >= 1 /\ Len(chan') = Len(chan) - 1
         /\ \A i \in 1..(Len(chan) - 1) : chan'[i] = chan[i + 1]
         /\ chan[1] = e /\ e \in Event /\ e \in Range(chan) /\ over = {} /\ over' = {}
         /\ Unread = Range(chan) /\ Unread' = Range(chan') /\ Range(chan) = {e} \cup Range(chan')
         /\ pc = "recv" /\ Alive /\ UNCHANGED <<fmt, life, phase, notes>>
<1> DEFINE n == Len(chan)
<1>1. /\ pc = "recv" /\ Alive /\ over = {} /\ over' = {} /\ chan # <<>> /\ e = Head(chan)
      /\ chan' = Tail(chan) /\ UNCHANGED <<fmt, life, phase, notes>>
  BY DEF Receives, emitVars
<1>2. /\ chan \in Seq(Event) /\ \A x : x \in Range(chan) <=> \E i \in 1..n : chan[i] = x
  BY LogTypes
<1>3. /\ chan' \in Seq(Event) /\ n \in Nat /\ n >= 1 /\ Len(chan') = n - 1
      /\ \A i \in 1..(n - 1) : chan'[i] = chan[i + 1]
      /\ chan[1] = e /\ e \in Event
  BY <1>1, <1>2, TailRing
<1>4. \A x : x \in Range(chan') <=> \E i \in 1..Len(chan') : chan'[i] = x
  <2>1. chan' \in Seq(Event)
    BY <1>3
  <2> QED
    BY <2>1, RangeSeq
<1> HIDE DEF n
<1>5. 1 \in 1..n /\ (\A i \in 1..(n - 1) : i + 1 \in 1..n) /\ (\A i \in 1..n : i = 1 \/ (i - 1 \in 1..(n - 1) /\ (i - 1) + 1 = i))
  BY <1>3
<1>6. e \in Range(chan)
  BY <1>2, <1>3, <1>5
<1>7. \A x \in Range(chan') : x \in Range(chan)
  BY <1>2, <1>3, <1>4, <1>5
<1>8. ASSUME NEW x \in Range(chan), x # e PROVE x \in Range(chan')
  <2>1. PICK i \in 1..n : chan[i] = x
    BY <1>2
  <2>2. i - 1 \in 1..(n - 1) /\ (i - 1) + 1 = i
    BY <1>3, <1>5, <1>8, <2>1
  <2>3. chan'[i - 1] = x
    BY <1>3, <2>1, <2>2
  <2> QED
    BY <1>3, <1>4, <2>2, <2>3
<1>9. Range(chan) = {e} \cup Range(chan')
  BY <1>6, <1>7, <1>8
<1>10. Unread = Range(chan) /\ Unread' = Range(chan')
  BY <1>1 DEF Unread
<1> QED
  BY <1>1, <1>3, <1>6, <1>9, <1>10 DEF n

-----------------------------------------------------------------------------
(* What the steps that emit have in common: the emitter moves forward, by the
   step that e reports; nobody starts a request or a stage after Shutdown. *)
Announces(e) ==
  /\ e \in Event /\ Emit(e) /\ UNCHANGED <<fmt, writerVars>>
  /\ Alive /\ life' \in {"serving", "draining", "ended", "shutdown", "boot", "eval", "result"}
  /\ phase' \in [Reqs -> {"none"} \cup Phases] /\ notes' \in 0..MaxNotes /\ notes <= notes'
  /\ \A r \in Reqs :
       /\ phase[r] # "none" => phase'[r] # "none"
       /\ phase[r] \in {"response", "complete"} => phase'[r] \in {"response", "complete"}
       /\ phase[r] = "complete" => phase'[r] = "complete"
       /\ phase'[r] = "complete" => phase[r] = "complete" \/ e = Compl(r)
       /\ e = Req(r) => phase[r] = "none" /\ phase'[r] = "request" /\ life # "shutdown"
  /\ Issued(e)'
  /\ life = "shutdown" => ~Issued(e) /\ e # Shutdown /\ life' = "shutdown"
  /\ e = Shutdown => life' = "shutdown"

LEMMA PhaseAnnounces ==
  ASSUME LogTypeOK, NEW r \in Reqs, NEW p \in Phases, NEW from,
         LogPhase(r, from, p), Alive, life \in {"serving", "draining"} \/ p # "request",
         \/ p = "request" /\ from = {"none"}
         \/ p = "response" /\ from = {"request"}
         \/ p = "complete" /\ from = {"request", "response"}
  PROVE  Announces(<<p, r>>)
<1> DEFINE e == <<p, r>>
<1>1. /\ e[1] = p /\ e[2] = r /\ e \in Event /\ e # Shutdown
      /\ \A q \in Reqs : (e = Req(q) <=> p = "request" /\ q = r) /\ (e = Compl(q) <=> p = "complete" /\ q = r)
  BY DEF Event, Phases, Shutdown, Req, Compl
<1>2. /\ phase[r] \in from /\ phase' = [phase EXCEPT ![r] = p] /\ Emit(e)
      /\ UNCHANGED <<fmt, life, notes, writerVars>>
  BY DEF LogPhase
<1>3. phase \in [Reqs -> {"none"} \cup Phases] /\ notes \in 0..MaxNotes
  BY DEF LogTypeOK
<1>4. notes <= notes
  BY <1>3, LogAssumption
<1>5. /\ phase' \in [Reqs -> {"none"} \cup Phases] /\ phase'[r] = p
      /\ \A q \in Reqs : q # r => phase'[q] = phase[q]
  BY <1>2, <1>3
<1> HIDE DEF e
<1>6. Issued(e)'
  BY <1>1, <1>5 DEF Issued, Phases
<1>7. ~Issued(e)
  BY <1>1, <1>2 DEF Issued
<1>8. /\ phase[r] # "none" => phase'[r] # "none"
      /\ phase[r] \in {"response", "complete"} => phase'[r] \in {"response", "complete"}
      /\ phase[r] = "complete" => phase'[r] = "complete"
      /\ phase'[r] = "complete" => phase[r] = "complete" \/ e = Compl(r)
      /\ e = Req(r) => phase[r] = "none" /\ phase'[r] = "request" /\ life # "shutdown"
  BY <1>1, <1>2, <1>5
<1>9. life' \in {"serving", "draining", "ended", "shutdown", "boot", "eval", "result"}
  BY <1>2 DEF Alive, LogTypeOK
<1>10. Announces(e)
  BY <1>1, <1>2, <1>3, <1>4, <1>5, <1>6, <1>7, <1>8, <1>9 DEF Announces
<1> QED
  BY <1>10 DEF e

LEMMA NoteAnnounces ==
  ASSUME LogTypeOK, LogNote, NEW n, n = notes + 1
  PROVE  Announces(<<"note", n>>)
<1> DEFINE e == <<"note", n>>
<1>0. notes \in Nat /\ notes < MaxNotes /\ MaxNotes \in Nat /\ phase \in [Reqs -> {"none"} \cup Phases]
  BY LogAssumption DEF LogTypeOK, LogNote
<1>1. /\ e[1] = "note" /\ e[2] = n /\ e \in Event /\ e # Shutdown
      /\ \A q \in Reqs : e # Req(q) /\ e # Compl(q)
  BY <1>0 DEF Event, Shutdown, Req, Compl
<1>2. Alive /\ notes' = notes + 1 /\ Emit(e) /\ UNCHANGED <<fmt, life, phase, writerVars>>
  BY DEF LogNote
<1>3. notes' \in 0..MaxNotes /\ notes <= notes' /\ n <= notes' /\ ~(n <= notes)
  BY <1>0, <1>2
<1> HIDE DEF e
<1>4. Issued(e)' /\ ~Issued(e)
  BY <1>1, <1>2, <1>3 DEF Issued
<1>5. life' \in {"serving", "draining", "ended", "shutdown", "boot", "eval", "result"}
  BY <1>2 DEF Alive, LogTypeOK
<1>6. Announces(e)
  BY <1>0, <1>1, <1>2, <1>3, <1>4, <1>5 DEF Announces
<1> QED
  BY <1>6 DEF e

LEMMA StepAnnounces ==
  ASSUME LogTypeOK, NEW from \in {"boot", "serving", "draining", "ended"},
         NEW to \in {"serving", "draining", "ended", "shutdown"}, NEW k \in Lifecycle,
         Step(from, to, k), k = "shutdown" => to = "shutdown"
  PROVE  Announces(<<"life", k>>)
<1> DEFINE e == <<"life", k>>
<1>0. notes \in 0..MaxNotes /\ phase \in [Reqs -> {"none"} \cup Phases]
  BY DEF LogTypeOK
<1>1. /\ e[1] = "life" /\ e \in Event /\ (e = Shutdown => k = "shutdown")
      /\ \A q \in Reqs : e # Req(q) /\ e # Compl(q)
  BY DEF Event, Shutdown, Req, Compl
<1>2. life = from /\ life' = to /\ Emit(e) /\ UNCHANGED <<fmt, phase, notes, writerVars>>
  BY DEF Step
<1>3. notes <= notes
  BY <1>0, LogAssumption
<1> HIDE DEF e
<1>4. Issued(e)'
  BY <1>1 DEF Issued
<1>5. Alive /\ life # "shutdown"
  BY <1>2 DEF Alive
<1>6. Announces(e)
  BY <1>0, <1>1, <1>2, <1>3, <1>4, <1>5 DEF Announces
<1> QED
  BY <1>6 DEF e

(* Every step that emits announces its event. *)
Emits ==
  \/ Started \/ StopWhileWaiting \/ StopIdle \/ StopBusy \/ Drained \/ TimedOut \/ Shut
  \/ LogNote \/ \E r \in Reqs : log_request(r) \/ log_response(r) \/ log_complete(r)

LEMMA EmitsAnnounce == LogTypeOK /\ Emits => \E e \in Event : Announces(e)
<1> SUFFICES ASSUME LogTypeOK, Emits PROVE \E e \in Event : Announces(e)
  OBVIOUS
<1>1. \A e : Announces(e) => e \in Event
  BY DEF Announces
<1>2. CASE LogNote
  <2>1. PICK n : n = notes + 1
    OBVIOUS
  <2> QED
    BY <1>1, <1>2, <2>1, NoteAnnounces
<1>3. ASSUME NEW r \in Reqs, log_request(r) \/ log_response(r) \/ log_complete(r)
      PROVE  \E p \in Phases : Announces(<<p, r>>)
  <2>1. CASE log_request(r)
    <3>1. Alive /\ life \in {"serving", "draining"} /\ LogPhase(r, {"none"}, "request")
      BY <2>1 DEF log_request, Alive
    <3> QED
      BY <3>1, PhaseAnnounces DEF Phases
  <2>2. CASE log_response(r)
    <3>1. Alive /\ LogPhase(r, {"request"}, "response")
      BY <2>2 DEF log_response
    <3> QED
      BY <3>1, PhaseAnnounces DEF Phases
  <2>3. CASE log_complete(r)
    <3>1. Alive /\ LogPhase(r, {"request", "response"}, "complete")
      BY <2>3 DEF log_complete
    <3> QED
      BY <3>1, PhaseAnnounces DEF Phases
  <2> QED
    BY <1>3, <2>1, <2>2, <2>3
<1>4. CASE \/ Started \/ StopWhileWaiting \/ StopIdle \/ StopBusy \/ Drained \/ TimedOut \/ Shut
  <2>1. PICK from \in {"boot", "serving", "draining", "ended"},
             to \in {"serving", "draining", "ended", "shutdown"}, k \in Lifecycle :
          Step(from, to, k) /\ (k = "shutdown" => to = "shutdown")
    BY <1>4 DEF Started, StopWhileWaiting, StopIdle, StopBusy, Drained, TimedOut, Shut, Lifecycle
  <2> QED
    BY <1>1, <2>1, StepAnnounces
<1> QED
  BY <1>1, <1>2, <1>3, <1>4 DEF Emits

LEMMA LogParts ==
  ASSUME LogInv
  PROVE  /\ LogTypeOK /\ Ending /\ Buffered /\ Table /\ Behind /\ Accounts
         /\ \A e \in owed : Issued(e)
         /\ \A r \in Reqs : RingOf(r)
  BY DEF LogInv

(* Where an announcing step leaves the ring and the history. *)
LEMMA AnnounceFacts ==
  ASSUME LogInv, NEW e, Announces(e)
  PROVE  /\ UNCHANGED <<fmt, pc, buf, urgent, requests, active, tokens, skipped, skipTold>>
         /\ WriterGone' <=> WriterGone
         /\ owed' = IF life = "shutdown" \/ e = Shutdown THEN owed ELSE owed \cup {e}
         /\ life = "shutdown" => e \notin owed
         /\ \A r \in Reqs : e = Req(r) => e \notin owed /\ e \notin Unread /\ requests[r] = "absent"
         /\ WriterGone => UNCHANGED <<chan, over>>
         /\ ~WriterGone => \E d \in {0, 1} : Pushed(e, d)
<1>0. LogTypeOK /\ Table /\ (\A x \in owed : Issued(x)) /\ (\A r \in Reqs : RingOf(r))
  BY LogParts
<1>1. /\ UNCHANGED <<fmt, pc, buf, urgent, requests, active, tokens, skipped, skipTold>>
  BY DEF Announces, writerVars, jsonlVars, humanVars, tableVars, skipVars
<1>2. WriterGone' <=> WriterGone
  BY <1>1 DEF WriterGone
<1>3. /\ owed' = IF life = "shutdown" \/ e = Shutdown THEN owed ELSE owed \cup {e}
      /\ WriterGone => UNCHANGED <<chan, over>>
  BY DEF Announces, Emit, ringVars
<1>4. life = "shutdown" => e \notin owed
  BY <1>0 DEF Announces
<1>5. ASSUME NEW r \in Reqs, e = Req(r) PROVE e \notin owed /\ e \notin Unread /\ requests[r] = "absent"
  <2>1. phase[r] = "none" /\ e[1] = "request" /\ e[2] = r
    BY <1>5 DEF Announces, Req
  <2>2. ~Issued(e)
    BY <2>1 DEF Issued
  <2> QED
    BY <1>0, <1>5, <2>1, <2>2 DEF RingOf, Table
<1>6. ~WriterGone => \E d \in {0, 1} : Pushed(e, d)
  BY <1>0, EmitPushes DEF Announces
<1> QED
  BY <1>1, <1>2, <1>3, <1>4, <1>5, <1>6

LEMMA AnnounceTypes == ASSUME LogInv, NEW e, Announces(e) PROVE LogTypeOK'
<1>0. LogTypeOK
  BY LogParts
<1>1. UNCHANGED <<fmt, pc, buf, urgent, requests, active, tokens, skipped, skipTold>>
  BY AnnounceFacts
<1>2. owed' \subseteq Event
  BY <1>0, AnnounceFacts DEF Announces, LogTypeOK
<1>3. chan' \in Seq(Event) /\ Len(chan') <= LogCap /\ over' \subseteq Event
  <2>1. CASE WriterGone
    BY <1>0, <2>1, AnnounceFacts DEF LogTypeOK
  <2>2. CASE ~WriterGone
    <3>1. PICK d \in {0, 1} : Pushed(e, d)
      BY <2>2, AnnounceFacts
    <3>2. chan' \in Seq(Event) /\ Len(chan') <= LogCap
      BY <3>1 DEF Pushed
    <3>3. \A x \in over' : x \in over \/ x \in Range(chan)
      BY <1>0, <3>1, PushSets DEF Announces
    <3> QED
      BY <1>0, <3>2, <3>3, LogTypes
  <2> QED
    BY <2>1, <2>2
<1>4. /\ life' \in {"serving", "draining", "ended", "shutdown", "boot", "eval", "result"}
      /\ phase' \in [Reqs -> {"none"} \cup Phases] /\ notes' \in 0..MaxNotes
  BY DEF Announces
<1> QED
  BY <1>0, <1>1, <1>2, <1>3, <1>4 DEF LogTypeOK

(* The sets of unread events, with and without a writer. *)
LEMMA AnnounceUnread ==
  ASSUME LogInv, NEW e, Announces(e)
  PROVE  /\ \A x \in Unread' : x \in Unread \/ x = e
         /\ ~WriterGone => Unread' = Unread \cup {e} /\ chan' # <<>>
         /\ WriterGone => Unread' = Unread
<1>0. LogTypeOK /\ e \in Event
  BY LogParts DEF Announces
<1>1. CASE WriterGone
  BY <1>1, AnnounceFacts DEF Unread
<1>2. CASE ~WriterGone
  <2>1. PICK d \in {0, 1} : Pushed(e, d)
    BY <1>2, AnnounceFacts
  <2>2. Unread' = Unread \cup {e} /\ chan' # <<>>
    BY <1>0, <2>1, PushSets
  <2> QED
    BY <1>2, <2>2
<1> QED
  BY <1>1, <1>2

LEMMA AnnounceEnds == ASSUME LogInv, NEW e, Announces(e) PROVE (Ending /\ Buffered)'
<1>0. Ending /\ Buffered
  BY LogParts
<1>1. UNCHANGED <<fmt, pc, buf>> /\ (WriterGone' <=> WriterGone)
  BY AnnounceFacts
<1>2. /\ life' # "exited" /\ life # "exited" /\ (life = "shutdown" => life' = "shutdown")
      /\ (e = Shutdown => life' = "shutdown")
  BY DEF Announces, Alive
<1>3. Ending'
  <2>1. Shutdown \in Unread' => life' = "shutdown"
    BY <1>0, <1>2, AnnounceUnread DEF Ending
  <2>2. Shutdown \notin owed'
    BY <1>0, AnnounceFacts DEF Ending
  <2> QED
    BY <1>0, <1>1, <1>2, <2>1, <2>2 DEF Ending, Shutdown
<1>4. Buffered'
  <2>1. pc = "recv" => chan' # <<>>
    BY AnnounceUnread DEF WriterGone
  <2> QED
    BY <1>0, <1>1, <2>1 DEF Buffered, IdleMeansFlushed
<1> QED
  BY <1>3, <1>4

LEMMA AnnounceTable == ASSUME LogInv, NEW e, Announces(e) PROVE Table'
<1>0. Table /\ LogTypeOK
  BY LogParts
<1>1. UNCHANGED <<fmt, requests, active>> /\ (WriterGone' <=> WriterGone)
  BY AnnounceFacts
<1>2. Range(active) \subseteq Reqs
  BY <1>0, RangeSeq DEF LogTypeOK
<1>3. ASSUME NEW r \in Range(active), ~WriterGone, phase'[r] = "complete"
      PROVE  Compl(r) \in Unread'
  <2>1. r \in Reqs /\ Unread' = Unread \cup {e}
    BY <1>2, <1>3, AnnounceUnread
  <2>2. phase[r] = "complete" \/ e = Compl(r)
    BY <1>3, <2>1 DEF Announces
  <2>3. phase[r] = "complete" => Compl(r) \in Unread
    BY <1>0, <1>3 DEF Table, NoGhosts, Compl
  <2> QED
    BY <2>1, <2>2, <2>3
<1>4. \A r \in Reqs : phase[r] # "none" => phase'[r] # "none"
  BY DEF Announces
<1>5. NoGhosts'
  BY <1>0, <1>1, <1>3 DEF Table, NoGhosts, Compl
<1> QED
  BY <1>0, <1>1, <1>4, <1>5 DEF Table

LEMMA AnnounceIssued == ASSUME LogInv, NEW e, Announces(e) PROVE (\A x \in owed : Issued(x))'
<1> SUFFICES ASSUME NEW x \in owed' PROVE Issued(x)'
  OBVIOUS
<1>0. LogTypeOK /\ \A y \in owed : Issued(y)
  BY LogParts
<1>1. CASE x = e
  BY <1>1 DEF Announces
<1>2. CASE x \in owed
  <2>1. x \in Event /\ Issued(x)
    BY <1>0, <1>2 DEF LogTypeOK
  <2>2. /\ x[1] \in Phases => x[2] \in Reqs
        /\ x[1] = "note" => x[2] \in 1..MaxNotes
    BY <2>1 DEF Event, Phases
  <2>3. x[1] = "note" => x[2] <= notes'
    <3>1. notes \in Int /\ notes' \in Int /\ notes <= notes'
      BY <1>0, LogAssumption DEF Announces, LogTypeOK
    <3> QED
      BY <2>1, <2>2, <3>1, LogAssumption DEF Issued
  <2>4. /\ x[1] = "request" => phase'[x[2]] # "none"
        /\ x[1] = "response" => phase'[x[2]] \in {"response", "complete"}
        /\ x[1] = "complete" => phase'[x[2]] = "complete"
    BY <2>1, <2>2 DEF Issued, Announces, Phases
  <2> QED
    BY <2>3, <2>4 DEF Issued
<1> QED
  BY <1>1, <1>2, AnnounceFacts

LEMMA AnnounceBehind == ASSUME LogInv, NEW e, Announces(e) PROVE Behind'
<1>0. LogTypeOK /\ Behind /\ Ending
  BY LogParts
<1>1. Shutdown \in Range(chan) => life = "shutdown" /\ owed' = owed /\ e \notin owed
  <2>1. Shutdown \in Range(chan) => life = "shutdown"
    BY <1>0 DEF Ending, Unread, Announces, Alive
  <2> QED
    BY <2>1, AnnounceFacts
<1>2. CASE WriterGone
  <2>1. chan' = chan
    BY <1>2, AnnounceFacts
  <2>2. \A i \in 1..Len(chan) : chan[i] \in Range(chan)
    BY <1>0, LogTypes
  <2> QED
    BY <1>0, <1>1, <2>1, <2>2 DEF Behind, Shutdown
<1>3. CASE ~WriterGone
  <2>1. PICK d \in {0, 1} : Pushed(e, d)
    BY <1>3, AnnounceFacts
  <2> DEFINE n == Len(chan)
  <2>2. n \in Nat /\ \A i \in 1..n : chan[i] \in Range(chan)
    BY <1>0, LogTypes
  <2>3. /\ d <= n /\ Len(chan') = (n - d) + 1 /\ (\A i \in 1..(n - d) : chan'[i] = chan[i + d])
        /\ chan'[(n - d) + 1] = e
    BY <2>1 DEF Pushed
  <2>4. \A i, j \in 1..n : chan[i] = Shutdown /\ i < j => chan[j] \notin owed
    BY <1>0 DEF Behind
  <2> HIDE DEF n
  <2>5. ASSUME NEW i \in 1..Len(chan'), NEW j \in 1..Len(chan'), chan'[i] = Shutdown, i < j
        PROVE  chan'[j] \notin owed'
    <3>1. i \in 1..(n - d) /\ i + d \in 1..n
      BY <2>2, <2>3, <2>5
    <3>2. chan[i + d] = Shutdown /\ Shutdown \in Range(chan)
      BY <2>2, <2>3, <2>5, <3>1
    <3>3. owed' = owed /\ e \notin owed
      BY <1>1, <3>2
    <3>4. CASE j = (n - d) + 1
      BY <2>3, <3>3, <3>4
    <3>5. CASE j \in 1..(n - d)
      <4>1. j + d \in 1..n /\ i + d < j + d
        BY <2>2, <2>3, <2>5, <3>5
      <4> QED
        BY <2>3, <2>4, <3>1, <3>2, <3>3, <3>5, <4>1
    <3> QED
      BY <2>2, <2>3, <3>4, <3>5
  <2> QED
    BY <2>5 DEF Behind, Shutdown
<1> QED
  BY <1>2, <1>3

(* Nothing goes missing by being emitted while a writer is there, and a writer
   that is done left after Shutdown. *)
LEMMA AnnounceAccounts == ASSUME LogInv, NEW e, Announces(e) PROVE Accounts'
<1>0. LogTypeOK /\ Accounts /\ Ending
  BY LogParts
<1>1. UNCHANGED <<fmt, pc, buf, skipped, skipTold>>
  BY AnnounceFacts
<1>2. CASE pc = "panicked"
  BY <1>1, <1>2 DEF Accounts
<1>3. CASE pc = "done"
  <2>1. life = "shutdown"
    BY <1>0, <1>3 DEF Ending, Announces, Alive
  <2>2. owed' = owed /\ Unread' = Unread
    BY <1>3, <2>1, AnnounceFacts, AnnounceUnread DEF WriterGone
  <2>3. Missing' = Missing /\ Waiting' = Waiting
    BY <1>1, <2>2 DEF Missing, Waiting
  <2> QED
    BY <1>0, <1>1, <2>2, <2>3 DEF Accounts
<1>4. CASE pc \notin {"done", "panicked"}
  <2>1. Unread' = Unread \cup {e}
    BY <1>4, AnnounceUnread DEF WriterGone
  <2>2. e \notin Missing
    <3>1. ASSUME e \in Missing PROVE FALSE
      <4>1. e \in owed /\ e[1] = "request" /\ e \in Event
        BY <1>0, <1>4, <3>1 DEF Accounts, Missing, Announces
      <4>2. PICK r \in Reqs : e = Req(r)
        BY <4>1 DEF Event, Req, Phases
      <4> QED
        BY <4>1, <4>2, AnnounceFacts
    <3> QED
      BY <3>1
  <2>3. Missing' = Missing
    <3>1. \A x \in owed' : x \in owed \/ x = e
      BY AnnounceFacts
    <3>2. \A x \in owed : x \in owed'
      BY AnnounceFacts
    <3> QED
      BY <1>1, <2>1, <2>2, <3>1, <3>2 DEF Missing, Waiting
  <2> QED
    BY <1>0, <1>1, <1>4, <2>3 DEF Accounts
<1> QED
  BY <1>2, <1>3, <1>4

LEMMA AnnounceRing == ASSUME LogInv, NEW e, Announces(e), NEW r \in Reqs PROVE RingOf(r)'
<1>0. LogTypeOK /\ RingOf(r) /\ e \in Event
  BY LogParts DEF Announces
<1>1. UNCHANGED <<fmt, pc, requests>> /\ (WriterGone' <=> WriterGone)
  BY AnnounceFacts
<1>2. /\ phase[r] # "none" => phase'[r] # "none"
      /\ phase'[r] = "complete" => phase[r] = "complete" \/ e = Compl(r)
      /\ e = Req(r) => /\ phase'[r] = "request" /\ life # "shutdown" /\ e # Shutdown
                       /\ e \notin Unread /\ requests[r] = "absent"
  BY AnnounceFacts DEF Announces, Req, Shutdown
<1>3. (\A x \in owed : x \in owed') /\ (life # "shutdown" /\ e # Shutdown => e \in owed')
  BY AnnounceFacts
<1>4. Req(r) \in Unread' => phase'[r] # "none"
  BY <1>0, <1>2, AnnounceUnread DEF RingOf
<1>5. CASE WriterGone
  <2>1. chan' = chan /\ over' = over
    BY <1>5, AnnounceFacts
  <2>2. Req(r) \in Range(chan') => /\ requests'[r] = "absent" /\ Req(r) \notin over'
                                   /\ fmt' = "human" => Req(r) \in owed'
    BY <1>0, <1>1, <1>3, <2>1 DEF RingOf
  <2>3. \A i, j \in 1..Len(chan') : chan'[i] = Req(r) /\ chan'[j] = Req(r) => i = j
    BY <1>0, <2>1 DEF RingOf
  <2> QED
    BY <1>1, <1>4, <1>5, <2>2, <2>3 DEF RingOf, Req, Compl
<1>6. CASE ~WriterGone
  <2>1. PICK d \in {0, 1} : Pushed(e, d)
    BY <1>6, AnnounceFacts
  <2> DEFINE n == Len(chan)
  <2>2. /\ n \in Nat /\ (\A i \in 1..n : chan[i] \in Range(chan))
        /\ \A x : x \in Range(chan) <=> \E i \in 1..n : chan[i] = x
    BY <1>0, LogTypes
  <2>3. /\ d <= n /\ chan' \in Seq(Event) /\ Len(chan') = (n - d) + 1
        /\ (\A i \in 1..(n - d) : chan'[i] = chan[i + d])
        /\ chan'[(n - d) + 1] = e
    BY <2>1 DEF Pushed
  <2>4. /\ \A x \in Range(chan') : x \in Range(chan) \/ x = e
        /\ \A x \in over' : x \in over \/ (d = 1 /\ x = chan[1] /\ x \in Range(chan))
    BY <1>0, <2>1, PushSets
  <2>5. \A x : x \in Range(chan') <=> \E i \in 1..Len(chan') : chan'[i] = x
    <3>1. chan' \in Seq(Event)
      BY <2>3
    <3> QED
      BY <3>1, RangeSeq
  <2>6. \A i, j \in 1..n : chan[i] = Req(r) /\ chan[j] = Req(r) => i = j
    BY <1>0 DEF RingOf
  <2>7. phase[r] = "complete" =>
          \A i \in 1..n : chan[i] = Req(r) => \E j \in 1..n : i < j /\ chan[j] = Compl(r)
    BY <1>0, <1>6 DEF RingOf
  <2> HIDE DEF n
  <2>8. /\ \A i \in 1..(n - d) : i + d \in 1..n
        /\ \A i \in 1..((n - d) + 1) : i \in 1..(n - d) \/ i = (n - d) + 1
        /\ (n - d) + 1 \in 1..((n - d) + 1)
    BY <2>2, <2>3
  <2>9. e = Req(r) => \A i \in 1..n : chan[i] # Req(r)
    BY <1>2, <2>2 DEF Unread
  <2>10. ASSUME Req(r) \in Range(chan')
         PROVE  requests'[r] = "absent" /\ Req(r) \notin over' /\ (fmt' = "human" => Req(r) \in owed')
    <3>1. CASE e = Req(r)
      BY <1>1, <1>2, <1>3, <2>4, <3>1 DEF Unread
    <3>2. CASE e # Req(r)
      <4>1. Req(r) \in Range(chan) /\ requests[r] = "absent" /\ Req(r) \notin over /\ (fmt = "human" => Req(r) \in owed)
        BY <1>0, <2>4, <2>10, <3>2 DEF RingOf
      <4>2. ASSUME d = 1, chan[1] = Req(r) PROVE FALSE
        <5>1. PICK i \in 1..Len(chan') : chan'[i] = Req(r)
          BY <2>5, <2>10
        <5>2. i \in 1..(n - d) /\ chan[i + d] = Req(r) /\ i + d \in 1..n
          BY <2>3, <2>8, <3>2, <5>1
        <5>3. 1 \in 1..n /\ i + d # 1
          BY <2>2, <4>2, <5>2
        <5> QED
          BY <2>6, <4>2, <5>2, <5>3
      <4> QED
        BY <1>1, <1>3, <2>4, <4>1, <4>2
    <3> QED
      BY <3>1, <3>2
  <2>11. ASSUME NEW i \in 1..Len(chan'), NEW j \in 1..Len(chan'), chan'[i] = Req(r), chan'[j] = Req(r)
         PROVE  i = j
    <3>1. CASE e = Req(r)
      <4>1. \A k \in 1..(n - d) : chan'[k] # Req(r)
        BY <2>3, <2>8, <2>9, <3>1
      <4> QED
        BY <2>3, <2>8, <2>11, <4>1
    <3>2. CASE e # Req(r)
      <4>1. i \in 1..(n - d) /\ j \in 1..(n - d)
        BY <2>3, <2>8, <2>11, <3>2
      <4>2. i + d = j + d
        BY <2>3, <2>6, <2>8, <2>11, <4>1
      <4> QED
        BY <2>2, <2>3, <4>1, <4>2
    <3> QED
      BY <3>1, <3>2
  <2>12. ASSUME phase'[r] = "complete", NEW i \in 1..Len(chan'), chan'[i] = Req(r)
         PROVE  \E j \in 1..Len(chan') : i < j /\ chan'[j] = Compl(r)
    <3>1. i \in 1..(n - d) /\ chan[i + d] = Req(r) /\ i + d \in 1..n
      BY <1>2, <2>3, <2>8, <2>12
    <3>2. CASE e = Compl(r)
      <4>1. i < (n - d) + 1
        BY <2>2, <2>3, <3>1
      <4> QED
        BY <2>3, <2>8, <3>2, <4>1
    <3>3. CASE phase[r] = "complete"
      <4>1. PICK j \in 1..n : i + d < j /\ chan[j] = Compl(r)
        BY <2>7, <3>1, <3>3
      <4>2. j - d \in 1..(n - d) /\ (j - d) + d = j /\ i < j - d /\ j - d \in 1..((n - d) + 1)
        BY <2>2, <2>3, <3>1, <4>1
      <4>3. chan'[j - d] = Compl(r)
        BY <2>3, <4>1, <4>2
      <4> QED
        BY <2>3, <4>2, <4>3
    <3> QED
      BY <1>2, <2>12, <3>2, <3>3
  <2> QED
    BY <1>1, <1>4, <2>10, <2>11, <2>12 DEF RingOf, Req, Compl
<1> QED
  BY <1>5, <1>6

LEMMA EmitsKeep == LogInv /\ Emits => LogInv'
<1> SUFFICES ASSUME LogInv, Emits PROVE LogInv'
  OBVIOUS
<1>1. PICK e \in Event : Announces(e)
  BY LogParts, EmitsAnnounce
<1>2. (LogTypeOK /\ Ending /\ Buffered /\ Table /\ Behind /\ Accounts)'
  BY <1>1, AnnounceTypes, AnnounceEnds, AnnounceTable, AnnounceBehind, AnnounceAccounts
<1>3. (\A x \in owed : Issued(x))'
  BY <1>1, AnnounceIssued
<1>4. \A r \in Reqs : RingOf(r)'
  BY <1>1, AnnounceRing
<1> QED
  BY <1>2, <1>3, <1>4 DEF LogInv

-----------------------------------------------------------------------------
(* Steps that move only main(), or start the JSONL writer. *)
LEMMA MovesKeep ==
  ASSUME LogInv,
         UNCHANGED <<fmt, phase, notes, owed, chan, over, buf, urgent, requests, active, tokens, skipped, skipTold>>,
         pc' = pc \/ (pc = "start" /\ pc' = "recv"),
         life' \in {"boot", "serving", "draining", "ended", "shutdown", "exited", "failed", "eval", "result"},
         life' = "exited" => WriterGone,
         life \in {"shutdown", "exited"} => life' \in {"shutdown", "exited"}
  PROVE  LogInv'
<1>0. /\ LogTypeOK /\ Ending /\ Buffered /\ Table /\ Behind /\ Accounts
      /\ \A e \in owed : Issued(e)
      /\ \A r \in Reqs : RingOf(r)
  BY LogParts
<1>1. (WriterGone' <=> WriterGone) /\ (pc' = "done" <=> pc = "done") /\ (pc' = "panicked" <=> pc = "panicked")
  BY DEF WriterGone
<1>2. Unread' = Unread /\ Waiting' = Waiting /\ Missing' = Missing
  BY DEF Unread, Waiting, Missing
<1>3. LogTypeOK'
  <2>1. pc' \in {"start", "recv", "wrote", "done", "panicked"}
    BY <1>0 DEF LogTypeOK
  <2> QED
    BY <1>0, <2>1 DEF LogTypeOK
<1>4. Ending'
  BY <1>0, <1>1, <1>2 DEF Ending, Shutdown
<1>5. Buffered'
  BY <1>0 DEF Buffered, IdleMeansFlushed
<1>6. Table'
  BY <1>0, <1>1, <1>2 DEF Table, NoGhosts
<1>7. Behind' /\ (\A e \in owed : Issued(e))'
  BY <1>0 DEF Behind, Shutdown, Issued
<1>8. Accounts'
  BY <1>0, <1>1, <1>2 DEF Accounts
<1>9. (\A r \in Reqs : RingOf(r))'
  BY <1>0, <1>1, <1>2 DEF RingOf, Req, Compl
<1> QED
  BY <1>3, <1>4, <1>5, <1>6, <1>7, <1>8, <1>9 DEF LogInv

LEMMA QuietKeeps ==
  ASSUME LogInv, Fails \/ EvalSilent \/ EvalResult \/ EvalPrint \/ Join \/ WriterStarts \/ UNCHANGED logVars
  PROVE  LogInv'
<1>0. LogTypeOK /\ Ending
  BY LogParts
<1>1. /\ UNCHANGED <<fmt, phase, notes, owed, chan, over, buf, urgent, requests, active, tokens, skipped, skipTold>>
      /\ pc' = pc \/ (pc = "start" /\ pc' = "recv")
  BY DEF Fails, EvalSilent, EvalResult, EvalPrint, Join, Quiet, WriterStarts, logVars, emitVars, ringVars,
         writerVars, jsonlVars, humanVars, tableVars, skipVars
<1>2. \/ life' = life
      \/ life \in {"boot", "eval", "result"} /\ life' \in {"failed", "ended", "result"}
      \/ life = "shutdown" /\ life' = "exited" /\ WriterGone
  BY DEF Fails, EvalSilent, EvalResult, EvalPrint, Join, Quiet, WriterStarts, logVars, emitVars
<1>3. /\ life' \in {"boot", "serving", "draining", "ended", "shutdown", "exited", "failed", "eval", "result"}
      /\ life' = "exited" => WriterGone
      /\ life \in {"shutdown", "exited"} => life' \in {"shutdown", "exited"}
  BY <1>0, <1>2 DEF LogTypeOK, Ending
<1> QED
  BY <1>1, <1>3, MovesKeep

-----------------------------------------------------------------------------
(* What the ring says of requests when its oldest event is received. *)
LEMMA ReceiveFacts ==
  ASSUME LogInv, NEW e, Receives(e), NEW r \in Reqs
  PROVE  /\ Req(r) \in Range(chan') =>
              e # Req(r) /\ requests[r] = "absent" /\ (fmt = "human" => Req(r) \in owed)
         /\ e = Req(r) => /\ phase[r] # "none" /\ requests[r] = "absent" /\ (fmt = "human" => e \in owed)
                          /\ phase[r] = "complete" => Compl(r) \in Range(chan')
<1> DEFINE n == Len(chan)
<1>0. LogTypeOK /\ RingOf(r)
  BY LogParts
<1>1. /\ chan' \in Seq(Event) /\ n \in Nat /\ n >= 1 /\ Len(chan') = n - 1
      /\ (\A i \in 1..(n - 1) : chan'[i] = chan[i + 1])
      /\ chan[1] = e /\ e \in Range(chan) /\ Range(chan) = {e} \cup Range(chan') /\ Unread = Range(chan)
      /\ pc = "recv"
  BY <1>0, ReceivePops
<1>2. \A x : x \in Range(chan') <=> \E i \in 1..Len(chan') : chan'[i] = x
  <2>1. chan' \in Seq(Event)
    BY <1>1
  <2> QED
    BY <2>1, RangeSeq
<1>3. /\ \A i, j \in 1..n : chan[i] = Req(r) /\ chan[j] = Req(r) => i = j
      /\ phase[r] = "complete" =>
           \A i \in 1..n : chan[i] = Req(r) => \E j \in 1..n : i < j /\ chan[j] = Compl(r)
      /\ Req(r) \in Range(chan) => phase[r] # "none" /\ requests[r] = "absent" /\ (fmt = "human" => Req(r) \in owed)
  BY <1>0, <1>1 DEF RingOf, WriterGone
<1> HIDE DEF n
<1>4. 1 \in 1..n /\ \A i \in 1..(n - 1) : i + 1 \in 1..n /\ i + 1 # 1
  BY <1>1
<1>5. ASSUME Req(r) \in Range(chan') PROVE e # Req(r)
  <2>1. PICK i \in 1..Len(chan') : chan'[i] = Req(r)
    BY <1>2, <1>5
  <2>2. i + 1 \in 1..n /\ i + 1 # 1 /\ chan[i + 1] = Req(r)
    BY <1>1, <1>4, <2>1
  <2> QED
    BY <1>1, <1>3, <1>4, <2>2
<1>6. ASSUME e = Req(r), phase[r] = "complete" PROVE Compl(r) \in Range(chan')
  <2>1. PICK j \in 1..n : 1 < j /\ chan[j] = Compl(r)
    BY <1>1, <1>3, <1>4, <1>6
  <2>2. j - 1 \in 1..(n - 1) /\ (j - 1) + 1 = j
    BY <1>1, <2>1
  <2>3. chan'[j - 1] = Compl(r)
    BY <1>1, <2>1, <2>2
  <2> QED
    BY <1>1, <1>2, <2>2, <2>3
<1> QED
  BY <1>1, <1>3, <1>5, <1>6

(* The ring's invariants, after a receive that leaves the unread requests out
   of the table and in the books. *)
LEMMA ReceiveRing ==
  ASSUME LogInv, NEW e, Receives(e), \A x \in owed' : x \in owed,
         \A r \in Reqs : Req(r) \in Range(chan') => requests'[r] = "absent" /\ (fmt = "human" => Req(r) \in owed')
  PROVE  (Behind /\ (\A x \in owed : Issued(x)) /\ (\A r \in Reqs : RingOf(r)))'
<1> DEFINE n == Len(chan)
<1>0. LogTypeOK /\ Behind /\ (\A x \in owed : Issued(x)) /\ (\A r \in Reqs : RingOf(r))
  BY LogParts
<1>1. /\ chan' \in Seq(Event) /\ n \in Nat /\ n >= 1 /\ Len(chan') = n - 1
      /\ (\A i \in 1..(n - 1) : chan'[i] = chan[i + 1])
      /\ over' = {} /\ Unread = Range(chan) /\ Unread' = Range(chan') /\ Range(chan) = {e} \cup Range(chan')
      /\ pc = "recv" /\ UNCHANGED <<fmt, phase, notes>>
  BY <1>0, ReceivePops
<1>2. \A i \in 1..(n - 1) : i + 1 \in 1..n
  BY <1>1
<1>3. Behind'
  <2>1. \A i, j \in 1..n : chan[i] = Shutdown /\ i < j => chan[j] \notin owed
    BY <1>0 DEF Behind
  <2> HIDE DEF n
  <2>2. ASSUME NEW i \in 1..(n - 1), NEW j \in 1..(n - 1), chan'[i] = Shutdown, i < j PROVE chan'[j] \notin owed'
    <3>1. i + 1 \in 1..n /\ j + 1 \in 1..n /\ i + 1 < j + 1
      BY <1>1, <1>2, <2>2
    <3>2. chan[i + 1] = Shutdown /\ chan'[j] = chan[j + 1]
      BY <1>1, <2>2
    <3> QED
      BY <2>1, <3>1, <3>2
  <2> QED
    BY <1>1, <2>2 DEF Behind, Shutdown
<1>4. (\A x \in owed : Issued(x))'
  BY <1>0, <1>1 DEF Issued
<1>5. ASSUME NEW r \in Reqs PROVE RingOf(r)'
  <2>1. /\ \A i, j \in 1..n : chan[i] = Req(r) /\ chan[j] = Req(r) => i = j
        /\ phase[r] = "complete" =>
             \A i \in 1..n : chan[i] = Req(r) => \E j \in 1..n : i < j /\ chan[j] = Compl(r)
        /\ Req(r) \in Range(chan) => phase[r] # "none"
    BY <1>0, <1>1 DEF RingOf, WriterGone
  <2> HIDE DEF n
  <2>2. ASSUME NEW i \in 1..(n - 1), NEW j \in 1..(n - 1), chan'[i] = Req(r), chan'[j] = Req(r) PROVE i = j
    <3>1. i + 1 \in 1..n /\ j + 1 \in 1..n /\ chan[i + 1] = Req(r) /\ chan[j + 1] = Req(r)
      BY <1>1, <1>2, <2>2
    <3>2. i + 1 = j + 1
      BY <2>1, <3>1
    <3> QED
      BY <1>1, <3>2
  <2>3. ASSUME phase[r] = "complete", NEW i \in 1..(n - 1), chan'[i] = Req(r)
        PROVE  \E j \in 1..(n - 1) : i < j /\ chan'[j] = Compl(r)
    <3>1. i + 1 \in 1..n /\ chan[i + 1] = Req(r)
      BY <1>1, <1>2, <2>3
    <3>2. PICK j \in 1..n : i + 1 < j /\ chan[j] = Compl(r)
      BY <2>1, <2>3, <3>1
    <3>3. j - 1 \in 1..(n - 1) /\ (j - 1) + 1 = j /\ i < j - 1
      BY <1>1, <3>2
    <3>4. chan'[j - 1] = Compl(r)
      BY <1>1, <3>2, <3>3
    <3> QED
      BY <3>3, <3>4
  <2>4. Req(r) \in Range(chan') => requests'[r] = "absent" /\ Req(r) \notin over' /\ (fmt' = "human" => Req(r) \in owed')
    BY <1>1
  <2>5. Req(r) \in Unread' => phase'[r] # "none"
    BY <1>1, <2>1
  <2> QED
    BY <1>1, <2>2, <2>3, <2>4, <2>5 DEF RingOf, Req, Compl
<1> QED
  BY <1>3, <1>4, <1>5

(* Behind Shutdown there is nothing that is owed. *)
LEMMA NothingBehind ==
  ASSUME LogInv, Receives(Shutdown)
  PROVE  \A x \in Range(chan') : x \notin owed
<1> DEFINE n == Len(chan)
<1>0. LogTypeOK /\ Behind
  BY LogParts
<1>1. /\ chan' \in Seq(Event) /\ n \in Nat /\ n >= 1 /\ Len(chan') = n - 1
      /\ (\A i \in 1..(n - 1) : chan'[i] = chan[i + 1]) /\ chan[1] = Shutdown
  BY <1>0, ReceivePops
<1>2. \A i, j \in 1..n : chan[i] = Shutdown /\ i < j => chan[j] \notin owed
  BY <1>0 DEF Behind
<1>3. \A x : x \in Range(chan') <=> \E i \in 1..Len(chan') : chan'[i] = x
  <2>1. chan' \in Seq(Event)
    BY <1>1
  <2> QED
    BY <2>1, RangeSeq
<1> HIDE DEF n
<1>4. 1 \in 1..n /\ \A i \in 1..(n - 1) : i + 1 \in 1..n /\ 1 < i + 1
  BY <1>1
<1> QED
  BY <1>1, <1>2, <1>3, <1>4

(* The end of main() and of the writer, after a receive. *)
LEMMA ReceiveEnds ==
  ASSUME LogInv, NEW e, Receives(e), \A x \in owed' : x \in owed, pc' = "done" => e = Shutdown
  PROVE  Ending'
<1>0. LogTypeOK /\ Ending
  BY LogParts
<1>1. /\ Alive /\ life' = life /\ e \in Range(chan) /\ Unread = Range(chan)
      /\ Unread' = Range(chan') /\ Range(chan) = {e} \cup Range(chan')
  BY <1>0, ReceivePops
<1>2. life # "exited"
  BY <1>1 DEF Alive
<1> QED
  BY <1>0, <1>1, <1>2 DEF Ending, Shutdown

(* The same, after a step that receives nothing. *)
LEMMA RestRing ==
  ASSUME LogInv, UNCHANGED <<fmt, life, phase, notes, chan>>, Alive, ~WriterGone, pc' \in {"recv", "wrote"},
         \A x \in over' : x \in over, \A x \in owed' : x \in owed,
         \A r \in Reqs : Req(r) \in Range(chan) => requests'[r] = "absent" /\ (fmt = "human" => Req(r) \in owed')
  PROVE  (Ending /\ Behind /\ (\A x \in owed : Issued(x)) /\ (\A r \in Reqs : RingOf(r)))'
<1>0. Ending /\ Behind /\ (\A x \in owed : Issued(x)) /\ (\A r \in Reqs : RingOf(r))
  BY LogParts
<1>1. \A x \in Unread' : x \in Unread
  BY DEF Unread
<1>2. Ending'
  BY <1>0, <1>1 DEF Ending, Alive, Shutdown
<1>3. Behind' /\ (\A x \in owed : Issued(x))'
  BY <1>0 DEF Behind, Issued, Shutdown
<1>4. ASSUME NEW r \in Reqs PROVE RingOf(r)'
  <2>1. /\ Req(r) \in Unread' => phase'[r] # "none"
        /\ Req(r) \in Range(chan') => /\ requests'[r] = "absent" /\ Req(r) \notin over'
                                      /\ fmt' = "human" => Req(r) \in owed'
    BY <1>0, <1>1 DEF RingOf
  <2>2. \A i, j \in 1..Len(chan') : chan'[i] = Req(r) /\ chan'[j] = Req(r) => i = j
    BY <1>0 DEF RingOf
  <2>3. phase'[r] = "complete" =>
          \A i \in 1..Len(chan') : chan'[i] = Req(r) => \E j \in 1..Len(chan') : i < j /\ chan'[j] = Compl(r)
    BY <1>0 DEF RingOf
  <2> QED
    BY <2>1, <2>2, <2>3 DEF RingOf, Req, Compl
<1> QED
  BY <1>2, <1>3, <1>4

-----------------------------------------------------------------------------
(* The JSONL writer: what is owed is before it or in its buffer. *)
LEMMA JsonlBooks ==
  ASSUME LogInv, fmt = "jsonl", pc \in {"recv", "wrote"}
  PROVE  skipped = 0 /\ skipTold = 0 /\ (\A x \in owed : x \in Waiting) /\ active = <<>>
<1>0. Accounts /\ Table /\ skipped \in Nat /\ skipTold \in Nat
  BY LogParts DEF LogTypeOK
<1>1. Missing = {} /\ Cardinality(Missing) = skipped + skipTold
  BY <1>0 DEF Accounts
<1>2. skipped + skipTold = 0
  BY <1>1, FS_EmptySet
<1> QED
  BY <1>0, <1>1, <1>2 DEF Missing, Table

LEMMA JsonlKeeps ==
  ASSUME LogInv, fmt = "jsonl", pc \in {"recv", "wrote"},
         UNCHANGED <<fmt, life, phase, notes, requests, active, tokens, skipped, skipTold>>,
         chan' \in Seq(Event), Len(chan') <= LogCap, over' \subseteq Event, pc' \in {"recv", "wrote", "done"},
         buf' \subseteq Event, urgent' \in BOOLEAN,
         \A x \in owed' : x \in owed /\ x \in Waiting', pc' = "done" => owed' = {},
         pc' = "recv" /\ chan' = <<>> => buf' = {},
         (Ending /\ Behind /\ (\A x \in owed : Issued(x)) /\ (\A r \in Reqs : RingOf(r)))'
  PROVE  LogInv'
<1>0. LogTypeOK /\ Table
  BY LogParts
<1>1. skipped = 0 /\ skipTold = 0 /\ active = <<>>
  BY JsonlBooks
<1>2. LogTypeOK'
  BY <1>0 DEF LogTypeOK
<1>3. Buffered'
  BY <1>0 DEF Buffered, IdleMeansFlushed
<1>4. Table'
  <2>1. Range(active) = {}
    BY <1>1 DEF Range
  <2>2. Range(active') = {}
    BY <1>1 DEF Range
  <2> QED
    BY <1>0, <1>1, <2>1, <2>2 DEF Table, NoGhosts
<1>5. Accounts'
  <2>1. Missing' = {}
    BY DEF Missing
  <2>2. IsFiniteSet({}) /\ Cardinality({}) = 0 /\ 0 + 0 = 0
    BY FS_EmptySet
  <2>3. pc' = "done" => owed' \cap Waiting' = {}
    OBVIOUS
  <2> QED
    BY <1>1, <2>1, <2>2, <2>3 DEF Accounts
<1> QED
  BY <1>2, <1>3, <1>4, <1>5 DEF LogInv

LEMMA JsonlLaggedKeeps == ASSUME LogInv, JsonlLagged PROVE LogInv'
<1>0. LogTypeOK /\ (\A r \in Reqs : RingOf(r))
  BY LogParts
<1>1. /\ fmt = "jsonl" /\ pc = "recv" /\ Alive /\ over' = {} /\ buf' = {} /\ owed' = owed \ (buf \cup over)
      /\ UNCHANGED <<fmt, life, phase, notes, chan, pc, urgent, requests, active, tokens, skipped, skipTold>>
  BY DEF JsonlLagged, Lagging, emitVars, humanVars, tableVars, skipVars
<1>2. \A r \in Reqs : Req(r) \in Range(chan) => requests'[r] = "absent"
  BY <1>0, <1>1 DEF RingOf
<1>3. (Ending /\ Behind /\ (\A x \in owed : Issued(x)) /\ (\A r \in Reqs : RingOf(r)))'
  <2>1. ~WriterGone
    BY <1>1 DEF WriterGone
  <2> QED
    BY <1>1, <1>2, <2>1, RestRing
<1>4. \A x \in owed' : x \in owed /\ x \in Waiting'
  BY <1>1, JsonlBooks DEF Waiting, Unread
<1>5. /\ chan' \in Seq(Event) /\ Len(chan') <= LogCap /\ over' \subseteq Event /\ urgent' \in BOOLEAN
      /\ buf' \subseteq Event
  BY <1>0, <1>1 DEF LogTypeOK
<1> QED
  BY <1>1, <1>3, <1>4, <1>5, JsonlKeeps

LEMMA JsonlShutdownKeeps == ASSUME LogInv, JsonlShutdown PROVE LogInv'
<1>0. LogTypeOK /\ Ending
  BY LogParts
<1>1. /\ fmt = "jsonl" /\ Receives(Shutdown) /\ pc' = "done" /\ buf' = {} /\ owed' = owed \ buf
      /\ UNCHANGED <<urgent, requests, active, tokens, skipped, skipTold>>
  BY DEF JsonlShutdown, Flush, humanVars, tableVars, skipVars
<1>2. PICK e : e = Shutdown
  OBVIOUS
<1>3. /\ chan' \in Seq(Event) /\ Len(chan) \in Nat /\ Len(chan') = Len(chan) - 1 /\ over' = {} /\ Unread = Range(chan)
      /\ Range(chan) = {e} \cup Range(chan') /\ pc = "recv" /\ UNCHANGED <<fmt, life, phase, notes>>
  BY <1>0, <1>1, <1>2, ReceivePops
<1>4. \A r \in Reqs : Req(r) \in Range(chan') => requests'[r] = "absent"
  BY <1>1, <1>2, ReceiveFacts
<1>5. (Behind /\ (\A x \in owed : Issued(x)) /\ (\A r \in Reqs : RingOf(r)))'
  BY <1>1, <1>2, <1>4, ReceiveRing
<1>6. Ending'
  BY <1>1, <1>2, ReceiveEnds
<1>7. \A x \in owed' : x \notin Range(chan') /\ x # e
  BY <1>0, <1>1, <1>2, NothingBehind DEF Ending
<1>8. owed' = {}
  BY <1>1, <1>3, <1>7, JsonlBooks DEF Waiting
<1>9. Len(chan') <= LogCap /\ urgent' \in BOOLEAN
  BY <1>0, <1>1, <1>3, LogAssumption DEF LogTypeOK
<1> QED
  BY <1>1, <1>3, <1>5, <1>6, <1>8, <1>9, JsonlKeeps

LEMMA JsonlWriteKeeps == ASSUME LogInv, JsonlWrite PROVE LogInv'
<1>0. LogTypeOK
  BY LogParts
<1>1. PICK e \in Range(chan) \ {Shutdown} :
        /\ fmt = "jsonl" /\ Receives(e) /\ pc' = "wrote" /\ urgent' = NeedsFlush(e) /\ Write({e})
        /\ UNCHANGED <<requests, active, tokens, skipped, skipTold>>
  BY DEF JsonlWrite, humanVars, tableVars, skipVars
<1>2. /\ chan' \in Seq(Event) /\ Len(chan) \in Nat /\ Len(chan') = Len(chan) - 1 /\ over' = {} /\ Unread = Range(chan)
      /\ Unread' = Range(chan') /\ Range(chan) = {e} \cup Range(chan') /\ e \in Event
      /\ pc = "recv" /\ UNCHANGED <<fmt, life, phase, notes>>
  BY <1>0, <1>1, ReceivePops
<1>3. /\ \A x \in owed' : x \in owed /\ (x \in buf => x \in buf')
      /\ e \in buf' /\ buf' \subseteq Event
  BY <1>0, <1>1, <1>2 DEF Write, LogTypeOK
<1>4. \A r \in Reqs : Req(r) \in Range(chan') => requests'[r] = "absent"
  BY <1>1, ReceiveFacts
<1>5. (Behind /\ (\A x \in owed : Issued(x)) /\ (\A r \in Reqs : RingOf(r)))'
  BY <1>1, <1>3, <1>4, ReceiveRing
<1>6. Ending'
  BY <1>1, <1>3, ReceiveEnds
<1>7. \A x \in owed' : x \in owed /\ x \in Waiting'
  BY <1>1, <1>2, <1>3, JsonlBooks DEF Waiting
<1>8. Len(chan') <= LogCap
  BY <1>0, <1>2, LogAssumption DEF LogTypeOK
<1>9. urgent' \in BOOLEAN
  BY <1>1 DEF NeedsFlush
<1> QED
  BY <1>1, <1>2, <1>3, <1>5, <1>6, <1>7, <1>8, <1>9, JsonlKeeps

LEMMA JsonlFlushKeeps == ASSUME LogInv, JsonlFlush PROVE LogInv'
<1>0. LogTypeOK /\ Buffered /\ Accounts /\ (\A r \in Reqs : RingOf(r))
  BY LogParts
<1>1. /\ pc = "wrote" /\ Alive /\ pc' = "recv" /\ urgent' = FALSE
      /\ IF urgent \/ chan = <<>> THEN Flush ELSE UNCHANGED <<buf, owed>>
      /\ UNCHANGED <<fmt, life, phase, notes, chan, over, requests, active, tokens, skipped, skipTold>>
  BY DEF JsonlFlush, emitVars, ringVars, humanVars, tableVars, skipVars
<1>2. /\ \A x \in owed' : x \in owed /\ (x \in buf => x \in buf')
      /\ buf' \subseteq Event /\ (chan' = <<>> => buf' = {})
  BY <1>0, <1>1 DEF Flush, LogTypeOK
<1>3. fmt = "jsonl"
  BY <1>0, <1>1 DEF Buffered, LogTypeOK
<1>4. \A r \in Reqs : Req(r) \in Range(chan) => requests'[r] = "absent"
  BY <1>0, <1>1 DEF RingOf
<1>5. (Ending /\ Behind /\ (\A x \in owed : Issued(x)) /\ (\A r \in Reqs : RingOf(r)))'
  <2>1. ~WriterGone
    BY <1>1 DEF WriterGone
  <2> QED
    BY <1>1, <1>2, <1>3, <1>4, <2>1, RestRing
<1>6. \A x \in owed' : x \in owed /\ x \in Waiting'
  BY <1>1, <1>2, <1>3, JsonlBooks DEF Waiting, Unread
<1>7. chan' \in Seq(Event) /\ Len(chan') <= LogCap /\ over' \subseteq Event
  BY <1>0, <1>1 DEF LogTypeOK
<1> QED
  BY <1>1, <1>2, <1>3, <1>5, <1>6, <1>7, JsonlKeeps

-----------------------------------------------------------------------------
(* The tables: an id joins at the end, or leaves. *)
LEMMA AppendId ==
  ASSUME NEW ids \in Seq(Reqs), NEW r \in Reqs, r \notin Range(ids),
         \A i, j \in DOMAIN ids : ids[i] = ids[j] => i = j
  PROVE  /\ Append(ids, r) \in Seq(Reqs) /\ Range(Append(ids, r)) = Range(ids) \cup {r}
         /\ \A i, j \in DOMAIN Append(ids, r) : Append(ids, r)[i] = Append(ids, r)[j] => i = j
<1> DEFINE n == Len(ids)
           s == Append(ids, r)
<1>1. n \in Nat /\ DOMAIN ids = 1..n
  OBVIOUS
<1>2. /\ s \in Seq(Reqs) /\ DOMAIN s = 1..(n + 1) /\ s[n + 1] = r
      /\ \A i \in 1..n : s[i] = ids[i]
  BY <1>1
<1>3. \A i \in 1..n : ids[i] # r
  BY <1>1 DEF Range
<1> HIDE DEF n, s
<1>4. /\ \A i \in 1..(n + 1) : i \in 1..n \/ i = n + 1
      /\ \A i \in 1..n : i \in 1..(n + 1)
      /\ n + 1 \in 1..(n + 1)
  BY <1>1
<1>5. Range(s) = Range(ids) \cup {r}
  BY <1>1, <1>2, <1>4 DEF Range
<1>6. ASSUME NEW i \in 1..(n + 1), NEW j \in 1..(n + 1), s[i] = s[j] PROVE i = j
  BY <1>1, <1>2, <1>3, <1>4, <1>6
<1> QED
  BY <1>2, <1>5, <1>6 DEF s

LEMMA RetainIds ==
  ASSUME NEW ids \in Seq(Reqs), NEW r, NEW s \in Retain(ids, r),
         \A i, j \in DOMAIN ids : ids[i] = ids[j] => i = j
  PROVE  /\ s \in Seq(Reqs) /\ Range(s) = Range(ids) \ {r}
         /\ \A i, j \in DOMAIN s : s[i] = s[j] => i = j
<1> DEFINE kept == {i \in DOMAIN ids : ids[i] # r}
           c == Cardinality(kept)
<1>1. /\ Len(ids) \in Nat /\ DOMAIN ids = 1..Len(ids) /\ (\A i \in DOMAIN ids : ids[i] \in Reqs)
      /\ kept \in SUBSET (1..Len(ids))
  OBVIOUS
<1>2. c \in Nat
  <2>1. IsFiniteSet(1..Len(ids))
    BY <1>1, FS_Interval
  <2>2. IsFiniteSet(kept)
    BY <1>1, <2>1, FS_Subset
  <2> QED
    BY <2>2, FS_CardinalityType
<1>3. PICK at \in [1..c -> kept] : /\ Range(at) = kept
                                   /\ \A i, j \in DOMAIN at : i < j => at[i] < at[j]
                                   /\ s = [i \in DOMAIN at |-> ids[at[i]]]
  BY DEF Retain
<1>4. \A i \in kept : i \in DOMAIN ids /\ i \in Nat /\ ids[i] \in Reqs /\ ids[i] # r
  BY <1>1
<1>5. \A i \in DOMAIN ids : ids[i] # r => i \in kept
  OBVIOUS
<1> HIDE DEF kept, c
<1>6. DOMAIN at = 1..c /\ DOMAIN s = 1..c /\ (\A i \in 1..c : at[i] \in kept /\ s[i] = ids[at[i]])
  BY <1>3
<1>7. s \in Seq(Reqs)
  <2>1. s \in [1..c -> Reqs]
    BY <1>3, <1>4, <1>6
  <2> QED
    BY <1>2, <2>1
<1>8. Range(s) = Range(ids) \ {r}
  <2>1. \A x \in Range(s) : x \in Range(ids) /\ x # r
    BY <1>4, <1>6 DEF Range
  <2>2. ASSUME NEW i \in DOMAIN ids, ids[i] # r PROVE ids[i] \in Range(s)
    <3>1. i \in Range(at)
      BY <1>3, <1>5, <2>2
    <3>2. PICK k \in 1..c : at[k] = i
      BY <1>6, <3>1 DEF Range
    <3>3. s[k] = ids[i]
      BY <1>6, <3>2
    <3> QED
      BY <1>6, <3>3 DEF Range
  <2>3. \A x \in Range(ids) \ {r} : x \in Range(s)
    BY <2>2 DEF Range
  <2> QED
    BY <2>1, <2>3
<1>9. ASSUME NEW i \in 1..c, NEW j \in 1..c, s[i] = s[j] PROVE i = j
  <2>1. at[i] = at[j] /\ at[i] \in Nat
    BY <1>4, <1>6, <1>9
  <2>2. ~(i < j) /\ ~(j < i)
    BY <1>3, <1>6, <2>1
  <2> QED
    BY <1>2, <2>2
<1> QED
  BY <1>6, <1>7, <1>8, <1>9

(* The bucket never holds more than it can. *)
LEMMA RefilledType ==
  ASSUME LogTypeOK, NEW ticks \in 0..Capacity
  PROVE  /\ Refilled(ticks) \in 0..Capacity /\ Unit \in Nat
         /\ Refilled(ticks) >= Unit => Refilled(ticks) - Unit \in 0..Capacity
<1>1. Capacity \in Nat /\ Unit \in Nat
  BY LogAssumption DEF Capacity
<1>2. tokens \in 0..Capacity
  BY DEF LogTypeOK
<1> HIDE DEF Capacity
<1>3. Refilled(ticks) \in 0..Capacity
  BY <1>1, <1>2 DEF Refilled, Least
<1> QED
  BY <1>1, <1>3

-----------------------------------------------------------------------------
(* The human writer's books before a receive: it has no buffer. *)
LEMMA HumanBooks ==
  ASSUME LogInv, fmt = "human", pc = "recv"
  PROVE  /\ buf = {} /\ Waiting = Unread /\ Missing = owed \ Unread
         /\ \A e \in Missing : e[1] = "request"
         /\ IsFiniteSet(Missing) /\ Cardinality(Missing) = skipped + skipTold
         /\ skipped \in Nat /\ skipTold \in Nat
<1>1. Accounts /\ Buffered /\ LogTypeOK
  BY LogParts
<1>2. buf = {}
  BY <1>1 DEF Buffered
<1> QED
  BY <1>1, <1>2 DEF Accounts, Waiting, Missing, LogTypeOK

(* A receive whose event leaves the books, with the skipped requests either
   still counted or in a printed summary. *)
LEMMA ReceiveBooks ==
  ASSUME LogInv, fmt = "human", NEW e, Receives(e), owed' = owed \ {e}, buf' = buf,
         skipped' + skipTold' = skipped + skipTold, pc' \in {"recv", "done"},
         pc' = "done" => skipped' = 0 /\ e = Shutdown
  PROVE  Accounts'
<1>0. LogTypeOK /\ Ending
  BY LogParts
<1>1. /\ pc = "recv" /\ fmt' = fmt /\ Unread = Range(chan) /\ Unread' = Range(chan')
      /\ Range(chan) = {e} \cup Range(chan')
  BY <1>0, ReceivePops
<1>2. buf = {} /\ Missing = owed \ Unread
  BY <1>1, HumanBooks
<1>3. Waiting' = Range(chan') /\ Missing' = Missing
  BY <1>1, <1>2 DEF Missing, Waiting
<1>4. pc' = "done" => owed' \cap Waiting' = {}
  BY <1>3, NothingBehind
<1> QED
  BY <1>1, <1>3, <1>4, HumanBooks DEF Accounts

(* The in-flight zone after a receive. *)
LEMMA ReceiveGhosts ==
  ASSUME LogInv, NEW e, Receives(e), active' \in Seq(Reqs),
         \A i, j \in DOMAIN active' : active'[i] = active'[j] => i = j,
         Range(active') = {r \in Reqs : requests'[r] # "absent"},
         \A r \in Range(active') : WriterGone' \/ e = Req(r) \/ (r \in Range(active) /\ e # Compl(r))
  PROVE  NoGhosts'
<1>0. LogTypeOK /\ NoGhosts
  BY LogParts DEF Table
<1>1. /\ pc = "recv" /\ phase' = phase /\ Unread = Range(chan) /\ Unread' = Range(chan')
      /\ Range(chan) = {e} \cup Range(chan')
  BY <1>0, ReceivePops
<1>2. ASSUME NEW r \in Range(active'), ~WriterGone', phase'[r] = "complete"
      PROVE  Compl(r) \in Unread'
  <2>0. r \in Reqs
    OBVIOUS
  <2>1. CASE e = Req(r)
    BY <1>1, <1>2, <2>0, <2>1, ReceiveFacts
  <2>2. CASE r \in Range(active) /\ e # Compl(r)
    <3>1. Compl(r) \in Unread
      BY <1>0, <1>1, <1>2, <2>2 DEF NoGhosts, Compl, WriterGone
    <3> QED
      BY <1>1, <2>2, <3>1
  <2> QED
    BY <1>2, <2>1, <2>2
<1> QED
  BY <1>2 DEF NoGhosts, Compl

(* A step of the human writer that receives e. *)
LEMMA HumanTurn ==
  ASSUME LogInv, fmt = "human", NEW e, Receives(e), UNCHANGED <<buf, urgent>>,
         owed' = owed \/ owed' = owed \ {e}, pc' \in {"recv", "done", "panicked"}, pc' = "done" => e = Shutdown,
         requests' \in [Reqs -> {"absent", "waiting", "answered"}], active' \in Seq(Reqs),
         \A r \in Reqs : requests[r] = "absent" /\ e # Req(r) => requests'[r] = "absent",
         tokens' \in 0..Capacity,
         skipped' \in Nat, skipTold' \in Nat, NoGhosts', Accounts'
  PROVE  LogInv'
<1>0. LogTypeOK /\ Table /\ Buffered
  BY LogParts
<1>1. /\ chan' \in Seq(Event) /\ Len(chan) \in Nat /\ Len(chan') = Len(chan) - 1 /\ over' = {}
      /\ UNCHANGED <<fmt, life, phase, notes>>
  BY <1>0, ReceivePops
<1>2. \A r \in Reqs : Req(r) \in Range(chan') => requests'[r] = "absent" /\ Req(r) \in owed'
  BY ReceiveFacts
<1>3. (Behind /\ (\A x \in owed : Issued(x)) /\ (\A r \in Reqs : RingOf(r)))'
  BY <1>2, ReceiveRing
<1>4. Ending'
  BY ReceiveEnds
<1>5. Len(chan') <= LogCap
  BY <1>0, <1>1, LogAssumption DEF LogTypeOK
<1>6. LogTypeOK'
  BY <1>0, <1>1, <1>5 DEF LogTypeOK
<1>7. Buffered'
  BY <1>0, <1>1 DEF Buffered, IdleMeansFlushed
<1>8. Table'
  <2>1. \A r \in Reqs : requests'[r] # "absent" => phase'[r] # "none"
    BY <1>0, <1>1, ReceiveFacts DEF Table
  <2> QED
    BY <1>1, <2>1 DEF Table
<1> QED
  BY <1>3, <1>4, <1>6, <1>7, <1>8 DEF LogInv

(* What a step that leaves the table alone needs of it. *)
LEMMA SameTable ==
  ASSUME LogInv, NEW e, Receives(e), UNCHANGED <<requests, active>>,
         WriterGone' \/ \A r \in Reqs : e = Compl(r) => requests[r] = "absent"
  PROVE  /\ requests' \in [Reqs -> {"absent", "waiting", "answered"}] /\ active' \in Seq(Reqs)
         /\ NoGhosts'
<1>0. LogTypeOK /\ NoGhosts
  BY LogParts DEF Table
<1>1. /\ requests' \in [Reqs -> {"absent", "waiting", "answered"}] /\ active' \in Seq(Reqs)
  BY <1>0 DEF LogTypeOK
<1>2. /\ \A i, j \in DOMAIN active' : active'[i] = active'[j] => i = j
      /\ Range(active') = {r \in Reqs : requests'[r] # "absent"}
  BY <1>0 DEF NoGhosts
<1>3. \A r \in Range(active') : WriterGone' \/ (r \in Range(active) /\ e # Compl(r))
  BY <1>2
<1> QED
  BY <1>1, <1>2, <1>3, ReceiveGhosts

LEMMA HumanLaggedKeeps == ASSUME LogInv, HumanLagged PROVE LogInv'
<1>0. LogTypeOK /\ Table /\ Buffered /\ (\A r \in Reqs : RingOf(r))
  BY LogParts
<1>1. /\ fmt = "human" /\ pc = "recv" /\ Alive /\ over' = {} /\ owed' = owed \ over
      /\ requests' = [r \in Reqs |-> "absent"] /\ active' = <<>>
      /\ UNCHANGED <<fmt, life, phase, notes, chan, pc, buf, urgent, tokens, skipped, skipTold>>
  BY DEF HumanLagged, Lagging, emitVars, jsonlVars, skipVars
<1>2. \A r \in Reqs : Req(r) \in Range(chan) => requests'[r] = "absent" /\ Req(r) \in owed'
  BY <1>0, <1>1 DEF RingOf
<1>3. (Ending /\ Behind /\ (\A x \in owed : Issued(x)) /\ (\A r \in Reqs : RingOf(r)))'
  <2>1. ~WriterGone
    BY <1>1 DEF WriterGone
  <2> QED
    BY <1>1, <1>2, <2>1, RestRing
<1>5. LogTypeOK'
  <2>1. /\ requests' \in [Reqs -> {"absent", "waiting", "answered"}] /\ active' \in Seq(Reqs)
        /\ over' \subseteq Event /\ owed' \subseteq Event
    BY <1>0, <1>1 DEF LogTypeOK
  <2> QED
    BY <1>0, <1>1, <2>1 DEF LogTypeOK
<1>6. Buffered'
  BY <1>0, <1>1 DEF Buffered, IdleMeansFlushed
<1>7. Table'
  <2>1. Range(active') = {} /\ DOMAIN active' = {}
    BY <1>1 DEF Range
  <2>2. {r \in Reqs : requests'[r] # "absent"} = {}
    BY <1>1
  <2> QED
    BY <1>1, <2>1, <2>2 DEF Table, NoGhosts
<1>8. Accounts'
  <2>1. buf = {} /\ Missing = owed \ Unread
    BY <1>1, HumanBooks
  <2>2. Missing' = Missing
    BY <1>1, <2>1 DEF Missing, Waiting, Unread
  <2> QED
    BY <1>1, <2>2, HumanBooks DEF Accounts
<1> QED
  BY <1>3, <1>5, <1>6, <1>7, <1>8 DEF LogInv

LEMMA HumanLineKeeps == ASSUME LogInv, HumanLine PROVE LogInv'
<1>0. LogTypeOK
  BY LogParts
<1>1. PICK e \in Range(chan) \ {Shutdown} :
        /\ e[1] \in {"note", "life"} /\ fmt = "human" /\ Receives(e) /\ owed' = owed \ {e}
        /\ UNCHANGED <<pc, buf, urgent, requests, active, tokens, skipped, skipTold>>
  BY DEF HumanLine, jsonlVars, tableVars, skipVars
<1>2. pc = "recv" /\ skipped \in Nat /\ skipTold \in Nat /\ tokens \in 0..Capacity /\ active \in Seq(Reqs)
  BY <1>0, <1>1 DEF Receives, LogTypeOK
<1>4. \A r \in Reqs : e # Compl(r)
  BY <1>1 DEF Compl
<1>5. /\ requests' \in [Reqs -> {"absent", "waiting", "answered"}] /\ active' \in Seq(Reqs) /\ NoGhosts'
  BY <1>1, <1>4, SameTable
<1>6. Accounts'
  BY <1>1, <1>2, ReceiveBooks
<1> QED
  BY <1>1, <1>2, <1>5, <1>6, HumanTurn

LEMMA HumanShutdownKeeps == ASSUME LogInv, HumanShutdown PROVE LogInv'
<1>0. LogTypeOK /\ Ending
  BY LogParts
<1>1. PICK e : e = Shutdown
  OBVIOUS
<1>2. /\ fmt = "human" /\ Receives(e) /\ pc' = "done"
      /\ skipTold' = skipTold + skipped /\ skipped' = 0
      /\ UNCHANGED <<owed, buf, urgent, requests, active, tokens>>
  BY <1>1 DEF HumanShutdown, jsonlVars, tableVars
<1>3. skipped \in Nat /\ skipTold \in Nat /\ tokens \in 0..Capacity
  BY <1>0 DEF LogTypeOK
<1>4. skipped' \in Nat /\ skipTold' \in Nat /\ skipped' + skipTold' = skipped + skipTold
  BY <1>2, <1>3
<1>5. owed' = owed \ {e}
  BY <1>0, <1>1, <1>2 DEF Ending
<1>7. WriterGone'
  BY <1>2 DEF WriterGone
<1>8. /\ requests' \in [Reqs -> {"absent", "waiting", "answered"}] /\ active' \in Seq(Reqs) /\ NoGhosts'
  BY <1>2, <1>7, SameTable
<1>9. Accounts'
  BY <1>1, <1>2, <1>4, <1>5, ReceiveBooks
<1> QED
  BY <1>1, <1>2, <1>3, <1>4, <1>5, <1>8, <1>9, HumanTurn

LEMMA HumanSkipKeeps == ASSUME LogInv, HumanSkip PROVE LogInv'
<1>0. LogTypeOK
  BY LogParts
<1>1. PICK r \in Reqs, ticks \in 0..Capacity :
        /\ fmt = "human" /\ Receives(Req(r)) /\ tokens' = Refilled(ticks) /\ skipped' = skipped + 1
        /\ UNCHANGED <<pc, owed, buf, urgent, requests, active, skipTold>>
  BY DEF HumanSkip, jsonlVars, tableVars, Req
<1>2. PICK e : e = Req(r)
  OBVIOUS
<1>3. /\ pc = "recv" /\ fmt' = fmt /\ Unread = Range(chan) /\ Unread' = Range(chan')
      /\ Range(chan) = {e} \cup Range(chan')
  BY <1>0, <1>1, <1>2, ReceivePops
<1>4. /\ skipped' \in Nat /\ skipTold' \in Nat /\ tokens' \in 0..Capacity
  BY <1>0, <1>1, RefilledType DEF LogTypeOK
<1>5. \A q \in Reqs : e # Compl(q)
  BY <1>2 DEF Compl, Req
<1>6. /\ requests' \in [Reqs -> {"absent", "waiting", "answered"}] /\ active' \in Seq(Reqs) /\ NoGhosts'
  BY <1>1, <1>2, <1>5, SameTable
<1>7. e \in owed /\ e \notin Range(chan') /\ e[1] = "request"
  BY <1>1, <1>2, ReceiveFacts DEF Req
<1>8. Accounts'
  <2>1. /\ buf = {} /\ Missing = owed \ Unread /\ IsFiniteSet(Missing) /\ Cardinality(Missing) = skipped + skipTold
        /\ skipped \in Nat /\ skipTold \in Nat /\ \A x \in Missing : x[1] = "request"
    BY <1>1, <1>3, HumanBooks
  <2>2. e \notin Missing /\ Missing' = Missing \cup {e}
    BY <1>1, <1>3, <1>7, <2>1 DEF Missing, Waiting
  <2>3. PICK M : M = Missing
    OBVIOUS
  <2>4. IsFiniteSet(M \cup {e}) /\ Cardinality(M \cup {e}) = Cardinality(M) + 1
    BY <2>1, <2>2, <2>3, FS_AddElement
  <2>5. (skipped + skipTold) + 1 = (skipped + 1) + skipTold
    BY <2>1
  <2>6. IsFiniteSet(Missing') /\ Cardinality(Missing') = skipped' + skipTold'
    BY <1>1, <2>1, <2>2, <2>3, <2>4, <2>5
  <2>7. \A x \in Missing' : x[1] = "request"
    BY <1>7, <2>1, <2>2
  <2> QED
    BY <1>1, <1>3, <2>6, <2>7 DEF Accounts
<1> QED
  BY <1>1, <1>2, <1>3, <1>4, <1>6, <1>8, HumanTurn

(* A request that gets a line: its id and its state enter together. *)
LEMMA EnterTable ==
  ASSUME LogInv, fmt = "human", NEW r \in Reqs, NEW e, e = Req(r), Receives(e),
         requests' = [requests EXCEPT ![r] = "waiting"], active' = Append(active, r)
  PROVE  /\ requests' \in [Reqs -> {"absent", "waiting", "answered"}] /\ active' \in Seq(Reqs)
         /\ \A q \in Reqs : requests[q] = "absent" /\ e # Req(q) => requests'[q] = "absent"
         /\ NoGhosts'
<1>0. LogTypeOK /\ NoGhosts
  BY LogParts DEF Table
<1>1. requests \in [Reqs -> {"absent", "waiting", "answered"}] /\ active \in Seq(Reqs)
  BY <1>0 DEF LogTypeOK
<1>2. /\ requests' \in [Reqs -> {"absent", "waiting", "answered"}] /\ requests'[r] = "waiting"
      /\ \A q \in Reqs : q # r => requests'[q] = requests[q]
  BY <1>1
<1>3. \A q \in Reqs : (e = Req(q) <=> q = r) /\ e # Compl(q)
  BY DEF Req, Compl
<1>4. r \notin Range(active) /\ (\A i, j \in DOMAIN active : active[i] = active[j] => i = j)
      /\ Range(active) = {q \in Reqs : requests[q] # "absent"}
  BY <1>0, ReceiveFacts DEF NoGhosts
<1>5. /\ active' \in Seq(Reqs) /\ Range(active') = Range(active) \cup {r}
      /\ \A i, j \in DOMAIN active' : active'[i] = active'[j] => i = j
  BY <1>1, <1>4, AppendId
<1>6. Range(active') = {q \in Reqs : requests'[q] # "absent"}
  BY <1>2, <1>4, <1>5
<1>7. \A q \in Range(active') : e = Req(q) \/ (q \in Range(active) /\ e # Compl(q))
  BY <1>3, <1>5, <1>6
<1>8. NoGhosts'
  BY <1>5, <1>6, <1>7, ReceiveGhosts
<1> QED
  BY <1>2, <1>3, <1>5, <1>8

LEMMA HumanRequestKeeps == ASSUME LogInv, HumanRequest PROVE LogInv'
<1>0. LogTypeOK
  BY LogParts
<1>1. PICK r \in Reqs, ticks \in 0..Capacity :
        /\ fmt = "human" /\ Receives(Req(r)) /\ Refilled(ticks) >= Unit /\ tokens' = Refilled(ticks) - Unit
        /\ skipTold' = skipTold + skipped /\ skipped' = 0
        /\ requests' = [requests EXCEPT ![r] = "waiting"] /\ active' = Append(active, r)
        /\ owed' = owed \ {Req(r)}
        /\ UNCHANGED <<pc, buf, urgent>>
  BY DEF HumanRequest, jsonlVars, Req
<1>2. PICK e : e = Req(r)
  OBVIOUS
<1>3. skipped \in Nat /\ skipTold \in Nat /\ pc = "recv"
  BY <1>0, <1>1 DEF LogTypeOK, Receives
<1>4. skipped' \in Nat /\ skipTold' \in Nat /\ skipped' + skipTold' = skipped + skipTold
  BY <1>1, <1>3
<1>5. tokens' \in 0..Capacity
  BY <1>0, <1>1, RefilledType
<1>6. /\ requests' \in [Reqs -> {"absent", "waiting", "answered"}] /\ active' \in Seq(Reqs)
      /\ \A q \in Reqs : requests[q] = "absent" /\ e # Req(q) => requests'[q] = "absent"
      /\ NoGhosts'
  BY <1>1, <1>2, EnterTable
<1>8. Accounts'
  BY <1>1, <1>2, <1>3, <1>4, ReceiveBooks
<1> QED
  BY <1>1, <1>2, <1>3, <1>4, <1>5, <1>6, <1>8, HumanTurn

LEMMA HumanPanicsKeeps == ASSUME LogInv, HumanPanics PROVE LogInv'
<1>0. LogTypeOK
  BY LogParts
<1>1. PICK r \in Reqs, ticks \in 0..Capacity :
        /\ fmt = "human" /\ Receives(Req(r)) /\ Refilled(ticks) >= Unit /\ tokens' = Refilled(ticks) - Unit
        /\ skipTold' = skipTold + skipped /\ skipped' = 0
        /\ requests' = [requests EXCEPT ![r] = "waiting"] /\ active' = Append(active, r)
        /\ pc' = "panicked"
        /\ UNCHANGED <<owed, buf, urgent>>
  BY DEF HumanPanics, jsonlVars, Req
<1>2. PICK e : e = Req(r)
  OBVIOUS
<1>3. skipped \in Nat /\ skipTold \in Nat
  BY <1>0 DEF LogTypeOK
<1>4. skipped' \in Nat /\ skipTold' \in Nat
  BY <1>1, <1>3
<1>5. tokens' \in 0..Capacity
  BY <1>0, <1>1, RefilledType
<1>6. /\ requests' \in [Reqs -> {"absent", "waiting", "answered"}] /\ active' \in Seq(Reqs)
      /\ \A q \in Reqs : requests[q] = "absent" /\ e # Req(q) => requests'[q] = "absent"
      /\ NoGhosts'
  BY <1>1, <1>2, EnterTable
<1>8. Accounts'
  BY <1>1 DEF Accounts
<1> QED
  BY <1>1, <1>2, <1>4, <1>5, <1>6, <1>8, HumanTurn

LEMMA HumanResponseKeeps == ASSUME LogInv, HumanResponse PROVE LogInv'
<1>0. LogTypeOK /\ NoGhosts
  BY LogParts DEF Table
<1>1. PICK r \in Reqs :
        /\ fmt = "human" /\ Receives(<<"response", r>>) /\ owed' = owed \ {<<"response", r>>}
        /\ IF requests[r] = "absent"
           THEN UNCHANGED requests
           ELSE /\ requests' = [requests EXCEPT ![r] = "answered"]
        /\ UNCHANGED <<pc, buf, urgent, active, tokens, skipped, skipTold>>
  BY DEF HumanResponse, jsonlVars, skipVars
<1>2. PICK e : e = <<"response", r>>
  OBVIOUS
<1>3. /\ skipped \in Nat /\ skipTold \in Nat /\ tokens \in 0..Capacity /\ pc = "recv"
      /\ requests \in [Reqs -> {"absent", "waiting", "answered"}] /\ active \in Seq(Reqs)
  BY <1>0, <1>1 DEF LogTypeOK, Receives
<1>4. \A q \in Reqs : e # Req(q) /\ e # Compl(q)
  BY <1>2 DEF Req, Compl
<1>5. /\ requests' \in [Reqs -> {"absent", "waiting", "answered"}]
      /\ \A q \in Reqs : requests'[q] = "absent" <=> requests[q] = "absent"
  BY <1>1, <1>3
<1>6. /\ \A i, j \in DOMAIN active' : active'[i] = active'[j] => i = j
      /\ Range(active') = {q \in Reqs : requests'[q] # "absent"}
      /\ active' \in Seq(Reqs)
  BY <1>0, <1>1, <1>3, <1>5 DEF NoGhosts
<1>7. NoGhosts'
  BY <1>1, <1>2, <1>4, <1>6, ReceiveGhosts
<1>9. Accounts'
  BY <1>1, <1>2, <1>3, ReceiveBooks
<1> QED
  BY <1>1, <1>2, <1>3, <1>5, <1>6, <1>7, <1>9, HumanTurn

LEMMA HumanCompleteKeeps == ASSUME LogInv, HumanComplete PROVE LogInv'
<1>0. LogTypeOK /\ NoGhosts
  BY LogParts DEF Table
<1>1. PICK r \in Reqs :
        /\ fmt = "human" /\ Receives(Compl(r)) /\ owed' = owed \ {Compl(r)}
        /\ IF requests[r] = "absent"
           THEN UNCHANGED <<requests, active>>
           ELSE /\ requests' = [requests EXCEPT ![r] = "absent"] /\ active' \in Retain(active, r)
        /\ UNCHANGED <<pc, buf, urgent, tokens, skipped, skipTold>>
  BY DEF HumanComplete, jsonlVars, tableVars, skipVars, Compl
<1>2. PICK e : e = Compl(r)
  OBVIOUS
<1>3. /\ skipped \in Nat /\ skipTold \in Nat /\ tokens \in 0..Capacity /\ pc = "recv"
      /\ requests \in [Reqs -> {"absent", "waiting", "answered"}] /\ active \in Seq(Reqs)
  BY <1>0, <1>1 DEF LogTypeOK, Receives
<1>4. \A q \in Reqs : e # Req(q) /\ (e = Compl(q) <=> q = r)
  BY <1>2 DEF Req, Compl
<1>5. Accounts'
  BY <1>1, <1>2, <1>3, ReceiveBooks
<1>6. CASE requests[r] = "absent"
  <2>1. UNCHANGED <<requests, active>>
    BY <1>1, <1>6
  <2>2. /\ requests' \in [Reqs -> {"absent", "waiting", "answered"}] /\ active' \in Seq(Reqs) /\ NoGhosts'
    BY <1>1, <1>2, <1>4, <1>6, <2>1, SameTable
  <2> QED
    BY <1>1, <1>2, <1>3, <1>5, <2>1, <2>2, HumanTurn
<1>7. CASE requests[r] # "absent"
  <2>1. /\ requests' = [requests EXCEPT ![r] = "absent"] /\ active' \in Retain(active, r)
    BY <1>1, <1>7
  <2>2. /\ requests' \in [Reqs -> {"absent", "waiting", "answered"}] /\ requests'[r] = "absent"
        /\ \A q \in Reqs : q # r => requests'[q] = requests[q]
    BY <1>3, <2>1
  <2>3. /\ \A i, j \in DOMAIN active : active[i] = active[j] => i = j
        /\ Range(active) = {q \in Reqs : requests[q] # "absent"}
    BY <1>0 DEF NoGhosts
  <2>4. /\ active' \in Seq(Reqs) /\ Range(active') = Range(active) \ {r}
        /\ \A i, j \in DOMAIN active' : active'[i] = active'[j] => i = j
    BY <1>3, <2>1, <2>3, RetainIds
  <2>5. Range(active') = {q \in Reqs : requests'[q] # "absent"}
    BY <2>2, <2>3, <2>4
  <2>6. \A q \in Range(active') : q \in Range(active) /\ e # Compl(q)
    BY <1>4, <2>4, <2>5
  <2>7. NoGhosts'
    BY <1>1, <1>2, <2>4, <2>5, <2>6, ReceiveGhosts
  <2>9. \A q \in Reqs : requests[q] = "absent" => requests'[q] = "absent"
    BY <2>2
  <2> QED
    BY <1>1, <1>2, <1>3, <1>5, <2>2, <2>4, <2>7, <2>9, HumanTurn
<1> QED
  BY <1>6, <1>7

-----------------------------------------------------------------------------
LEMMA LogInitially == LogInit => LogInv
<1> SUFFICES ASSUME LogInit PROVE LogInv
  OBVIOUS
<1>1. /\ chan = <<>> /\ over = {} /\ owed = {} /\ buf = {} /\ active = <<>>
      /\ life \in {"boot", "eval"} /\ pc \in {"start", "recv"} /\ (fmt = "human" => pc = "recv")
      /\ skipped = 0 /\ skipTold = 0
  BY DEF LogInit
<1>2. Range(chan) = {} /\ Range(active) = {} /\ Unread = {} /\ Missing = {}
  BY <1>1 DEF Range, Unread, Missing
<1>3. LogTypeOK
  <2>1. Capacity \in Nat /\ 0 <= LogCap /\ MaxNotes \in Nat
    BY LogAssumption DEF Capacity
  <2>2. chan \in Seq(Event) /\ Len(chan) <= LogCap /\ active \in Seq(Reqs)
    BY <1>1, <2>1
  <2>3. tokens \in 0..Capacity
    BY <2>1 DEF LogInit
  <2>4. /\ phase \in [Reqs -> {"none"} \cup Phases]
        /\ requests \in [Reqs -> {"absent", "waiting", "answered"}]
    BY DEF LogInit
  <2>5. notes \in 0..MaxNotes
    BY <2>1 DEF LogInit
  <2>6. fmt \in {"human", "jsonl"} /\ urgent \in BOOLEAN
    BY DEF LogInit
  <2> QED
    BY <1>1, <2>2, <2>3, <2>4, <2>5, <2>6 DEF LogTypeOK
<1>4. Ending /\ Buffered
  BY <1>1, <1>2 DEF LogInit, Ending, Buffered, IdleMeansFlushed
<1>5. Table
  BY <1>1, <1>2 DEF LogInit, Table, NoGhosts
<1>6. Behind /\ (\A r \in Reqs : RingOf(r))
  BY <1>1, <1>2 DEF Behind, RingOf
<1>7. Accounts
  <2>1. IsFiniteSet({}) /\ Cardinality({}) = 0 /\ 0 + 0 = 0
    BY FS_EmptySet
  <2> QED
    BY <1>1, <1>2, <2>1 DEF Accounts
<1> QED
  BY <1>1, <1>3, <1>4, <1>5, <1>6, <1>7 DEF LogInv

LEMMA LogStep == LogInv /\ [LogNext]_logVars => LogInv'
<1> SUFFICES ASSUME LogInv, [LogNext]_logVars PROVE LogInv'
  OBVIOUS
<1>1. \/ Emits
      \/ Fails \/ EvalSilent \/ EvalResult \/ EvalPrint \/ Join \/ WriterStarts \/ UNCHANGED logVars
      \/ JsonlLagged \/ JsonlShutdown \/ JsonlWrite \/ JsonlFlush
      \/ HumanLagged \/ HumanLine \/ HumanSkip \/ HumanRequest \/ HumanPanics
      \/ HumanResponse \/ HumanComplete \/ HumanShutdown
  BY DEF LogNext, Main, Writer, Emits
<1>2. CASE Emits
  BY <1>2, EmitsKeep
<1>3. CASE Fails \/ EvalSilent \/ EvalResult \/ EvalPrint \/ Join \/ WriterStarts \/ UNCHANGED logVars
  BY <1>3, QuietKeeps
<1>4. CASE JsonlLagged \/ JsonlShutdown \/ JsonlWrite \/ JsonlFlush
  BY <1>4, JsonlLaggedKeeps, JsonlShutdownKeeps, JsonlWriteKeeps, JsonlFlushKeeps
<1>5. CASE HumanLagged \/ HumanLine \/ HumanSkip \/ HumanRequest
  BY <1>5, HumanLaggedKeeps, HumanLineKeeps, HumanSkipKeeps, HumanRequestKeeps
<1>6. CASE HumanPanics \/ HumanResponse \/ HumanComplete \/ HumanShutdown
  BY <1>6, HumanPanicsKeeps, HumanResponseKeeps, HumanCompleteKeeps, HumanShutdownKeeps
<1> QED
  BY <1>1, <1>2, <1>3, <1>4, <1>5, <1>6

(* The inductive invariant of the log: the ring, the history of what is owed,
   the two writers and their books agree at every step of main(), of the
   emitters and of the writer. *)
THEOREM LogInvariance == LogSpec => []LogInv
  BY LogInitially, LogStep, PTL DEF LogSpec

(* The state of both writers keeps its types: the ring never holds more than
   its capacity, and the bucket never more tokens than a burst. *)
THEOREM LogTypeCorrect == LogSpec => []LogTypeOK
<1>1. LogInv => LogTypeOK
  BY DEF LogInv
<1> QED
  BY <1>1, LogInvariance, PTL

(* run_human_handler never keeps a line for a request whose completion it has
   received or was told it missed, whatever the ring drops; active_ids and
   requests agree and hold no id twice. *)
THEOREM ZoneNeverGhosts == LogSpec => []NoGhosts
<1>1. LogInv => NoGhosts
  BY DEF LogInv, Table
<1> QED
  BY <1>1, LogInvariance, PTL

(* run_jsonl_handler never waits for an event with lines in its BufWriter,
   whichever events arrive between a write and rx.is_empty(). *)
THEOREM IdleIsFlushed == LogSpec => []IdleMeansFlushed
<1>1. LogInv => IdleMeansFlushed
  BY DEF LogInv, Buffered
<1> QED
  BY <1>1, LogInvariance, PTL

(* When main() returns from the join of a writer that did not panic, every
   event emitted before Shutdown was written, counted as lagged, or is a
   request that the human log skipped; its summaries count exactly those. *)
THEOREM ExitAccounts == LogSpec => []AccountedAtExit
<1>1. LogInv => AccountedAtExit
  <2> SUFFICES ASSUME LogInv, life = "exited", pc # "panicked"
               PROVE  /\ \A e \in owed : fmt = "human" /\ e[1] = "request"
                      /\ Cardinality(owed) = skipTold
    BY DEF AccountedAtExit
  <2>1. pc = "done" /\ skipTold \in Nat
    BY DEF LogInv, Ending, WriterGone, LogTypeOK
  <2>2. owed \cap Waiting = {} /\ skipped = 0 /\ Cardinality(Missing) = skipped + skipTold
        /\ \A e \in Missing : fmt = "human" /\ e[1] = "request"
    BY <2>1 DEF LogInv, Accounts
  <2>3. owed = Missing /\ 0 + skipTold = skipTold
    BY <2>1, <2>2 DEF Missing
  <2> QED
    BY <2>2, <2>3
<1> QED
  BY <1>1, LogInvariance, PTL
=============================================================================
