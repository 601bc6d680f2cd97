---------------------------- MODULE SseBusProofs ----------------------------
(***************************************************************************)
(* Proofs about SseBus for every ring and stream capacity and every set of *)
(* subscriptions, topics and patterns.  The bus's own invariant is reused: *)
(* a step of the composition is a step of the bus or leaves it alone.      *)
(***************************************************************************)
EXTENDS SseBus, BusProofs, SequenceTheorems

(* What is left of a sequence without its first element. *)
LEMMA TailProps ==
  ASSUME NEW q \in Seq(Nat), q # <<>>
  PROVE  /\ Len(Tail(q)) = Len(q) - 1 /\ Len(q) > 0
         /\ \A i \in 1..Len(Tail(q)) : Tail(q)[i] = q[i + 1]
  OBVIOUS

(* Events of s that have left the thread. *)
Passed(s) == Len(seen[s]) + Len(chan[s])

(* The client has a prefix of what was forwarded, the stream channel the part
   that follows, and the thread at most one event more. *)
Relayed(s) ==
  /\ Passed(s) <= taken[s]
  /\ \A i \in 1..Len(seen[s]) : seen[s][i] = sent[s][i]
  /\ \A i \in 1..Len(chan[s]) : chan[s][i] = sent[s][Len(seen[s]) + i]
  /\ worker[s] = "pull" => Passed(s) = taken[s]
  /\ worker[s] = "send" => Passed(s) + 1 = taken[s]
  /\ iter[s] = "closed" => Passed(s) = taken[s]

(* Thread, iterator and response body start together; the thread ends with
   its iterator, and gives it up before its end only when the body is gone. *)
Paired(s) ==
  /\ worker[s] = "none" <=> iter[s] = "none"
  /\ fin[s] = "none" <=> iter[s] = "none"
  /\ iter[s] = "none" => chan[s] = <<>> /\ seen[s] = <<>>
  /\ worker[s] = "pull" => iter[s] \in {"body", "check", "wait", "ended"}
  /\ worker[s] = "send" => iter[s] = "body"
  /\ worker[s] = "done" => iter[s] \in {"closed", "dropped"}
  /\ iter[s] = "dropped" => ~rx[s]
  /\ rx[s] <=> fin[s] = "open"
  /\ fin[s] = "clean" => iter[s] = "closed" /\ chan[s] = <<>>

SseInv == BusInv /\ SseTypeOK /\ \A s \in Subs : Relayed(s) /\ Paired(s)

(* A step leaves the response of s alone. *)
SameSse(s) ==
  /\ worker'[s] = worker[s] /\ chan'[s] = chan[s] /\ rx'[s] = rx[s]
  /\ seen'[s] = seen[s] /\ fin'[s] = fin[s]

(* A step of the composition is a step of the bus, or leaves the bus alone. *)
LEMMA SseIsBus == [SseNext]_sseVars => [BusNext]_busVars
<1>1. BusSteps => BusNext
  BY DEF BusSteps, BusNext, Iterator
<1>2. ASSUME NEW s \in Subs, NEW p \in Patterns \cup {NoPattern}, Respond(s, p) PROVE BusNext
  BY <1>2 DEF Respond, BusNext
<1>3. ASSUME NEW s \in Subs, Thread(s) PROVE [BusNext]_busVars
  BY <1>3 DEF Thread, ReadStarts, ReadEvent, ReadEof, SendChunk, SendFails, BusNext, Iterator
<1>4. ASSUME NEW s \in Subs, Poll(s) \/ Disconnect(s) \/ Abort(s) PROVE UNCHANGED busVars
  BY <1>4 DEF Poll, Disconnect, Abort
<1>5. CancelToken => UNCHANGED busVars
  BY DEF CancelToken
<1>6. UNCHANGED sseVars => UNCHANGED busVars
  BY DEF sseVars
<1> QED
  BY <1>1, <1>2, <1>3, <1>4, <1>5, <1>6 DEF SseNext

(* SSE responses read the bus through the iterator `.bus sub` gave them and never
   touch it otherwise: every behaviour of responses and bus together is one of
   the bus, so what is proved of Bus holds under SSE load, and a subscription
   that a response reads still gets the feed the abstract bus promises. *)
THEOREM SseImplementsBus == SseSpec => BusSpec /\ ImplementsFeed
<1>1. SseInit => BusInit
  BY DEF SseInit
<1>2. SseSpec => BusSpec
  BY <1>1, SseIsBus, PTL DEF SseSpec, BusSpec
<1> QED
  BY <1>2, BusImplementsFeed, PTL

(* Facts about one response's state that every step below uses. *)
LEMMA SseTypes ==
  ASSUME SseInv, NEW s \in Subs
  PROVE  /\ seen[s] \in Seq(Nat) /\ chan[s] \in Seq(Nat) /\ sent[s] \in Seq(Nat)
         /\ Len(seen[s]) \in Nat /\ Len(chan[s]) \in Nat /\ Len(sent[s]) \in Nat
         /\ Passed(s) \in Nat /\ taken[s] \in Nat /\ taken[s] <= Len(sent[s])
         /\ Relayed(s) /\ Paired(s) /\ SubInv(s) /\ iter[s] \in IterStates
         /\ seen \in [Subs -> Seq(Nat)] /\ chan \in [Subs -> Seq(Nat)]
         /\ sent \in [Subs -> Seq(Nat)] /\ taken \in [Subs -> Nat]
<1>1. BusTypeOK /\ SubInv(s) /\ Relayed(s) /\ Paired(s) /\ SseTypeOK
  BY DEF SseInv, BusInv
<1>2. /\ seen \in [Subs -> Seq(Nat)] /\ chan \in [Subs -> Seq(Nat)]
      /\ sent \in [Subs -> Seq(Nat)] /\ taken \in [Subs -> Nat]
  BY <1>1 DEF SseTypeOK, BusTypeOK
<1>3. taken[s] <= Len(sent[s])
  BY <1>1 DEF SubInv, Cursors
<1>4. Len(seen[s]) \in Nat /\ Len(chan[s]) \in Nat
  BY <1>2
<1>5. Passed(s) \in Nat
  BY <1>2, <1>4 DEF Passed
<1> QED
  BY <1>1, <1>2, <1>3, <1>4, <1>5, SubTypes

(* The types of the responses. *)
LEMMA SseTypeStep ==
  ASSUME SseInv, [SseNext]_sseVars, BusTypeOK'
  PROVE  SseTypeOK'
<1>0. SseTypeOK
  BY DEF SseInv
<1>1. CASE UNCHANGED sseOnly
  BY <1>0, <1>1 DEF sseOnly, SseTypeOK
<1>2. ASSUME NEW s \in Subs, NEW p \in Patterns \cup {NoPattern}, Respond(s, p) PROVE SseTypeOK'
  BY <1>0, <1>2 DEF Respond, SseTypeOK
<1>3. ASSUME NEW s \in Subs, ReadStarts(s) \/ ReadEvent(s) \/ ReadEof(s) \/ SendFails(s)
      PROVE SseTypeOK'
  BY <1>0, <1>3 DEF ReadStarts, ReadEvent, ReadEof, SendFails, SseTypeOK, sseOnly
<1>4. ASSUME NEW s \in Subs, SendChunk(s) PROVE SseTypeOK'
  <2>1. taken[s] \in 1..Len(sent[s])
    BY <1>4, SseTypes DEF SendChunk, Relayed
  <2>2. sent[s][taken[s]] \in Nat
    BY <2>1, SseTypes
  <2>3. chan' = [chan EXCEPT ![s] = Append(chan[s], sent[s][taken[s]])]
    BY <1>4 DEF SendChunk
  <2>4. /\ Append(chan[s], sent[s][taken[s]]) \in Seq(Nat)
        /\ Len(Append(chan[s], sent[s][taken[s]])) <= StreamCap
    BY <1>4, <2>2, SseTypes, StreamCapAssumption DEF SendChunk
  <2>5. chan' \in [Subs -> Seq(Nat)] /\ \A r \in Subs : Len(chan'[r]) <= StreamCap
    BY <1>0, <2>3, <2>4 DEF SseTypeOK
  <2> QED
    BY <1>0, <1>4, <2>5 DEF SendChunk, SseTypeOK
<1>5. ASSUME NEW s \in Subs, NEW how \in {"clean", "error", "aborted"}, BodyEnds(s, how),
             UNCHANGED <<worker, gone, cancel>>
      PROVE SseTypeOK'
  BY <1>0, <1>5 DEF BodyEnds, SseTypeOK
<1>6. ASSUME NEW s \in Subs, Poll(s) PROVE SseTypeOK'
  <2>1. CASE /\ chan[s] # <<>>
             /\ seen' = [seen EXCEPT ![s] = Append(@, Head(chan[s]))]
             /\ chan' = [chan EXCEPT ![s] = Tail(@)]
             /\ UNCHANGED <<fin, rx>>
    <3>1. /\ Append(seen[s], Head(chan[s])) \in Seq(Nat)
          /\ Tail(chan[s]) \in Seq(Nat) /\ Len(Tail(chan[s])) <= Len(chan[s])
      BY <2>1, SseTypes
    <3>2. Len(Tail(chan[s])) <= StreamCap
      <4>1. Len(chan[s]) <= StreamCap /\ StreamCap \in Nat
        BY <1>0, StreamCapAssumption DEF SseTypeOK
      <4> QED
        BY <3>1, <4>1, SseTypes
    <3>3. seen' \in [Subs -> Seq(Nat)]
      BY <1>0, <2>1, <3>1 DEF SseTypeOK
    <3>4. chan' \in [Subs -> Seq(Nat)] /\ \A r \in Subs : Len(chan'[r]) <= StreamCap
      BY <1>0, <2>1, <3>1, <3>2 DEF SseTypeOK
    <3> QED
      BY <1>0, <1>6, <2>1, <3>3, <3>4 DEF Poll, SseTypeOK
  <2> QED
    BY <1>5, <1>6, <2>1 DEF Poll
<1>7. ASSUME NEW s \in Subs, Disconnect(s) \/ Abort(s) PROVE SseTypeOK'
  <2>1. CASE Disconnect(s)
    BY <1>0, <2>1 DEF Disconnect, SseTypeOK
  <2>2. CASE Abort(s)
    BY <1>5, <2>2 DEF Abort
  <2> QED
    BY <1>7, <2>1, <2>2
<1>8. CASE CancelToken
  BY <1>0, <1>8 DEF CancelToken, SseTypeOK
<1> QED
  BY <1>1, <1>2, <1>3, <1>4, <1>6, <1>7, <1>8 DEF SseNext, Thread, BusSteps, sseVars

(* A response nobody touches stays as it was. *)
LEMMA SseFrame ==
  ASSUME NEW s \in Subs, Relayed(s), Paired(s), SameSse(s), SameSub(s)
  PROVE  Relayed(s)' /\ Paired(s)'
  BY DEF Relayed, Paired, Passed, SameSse, SameSub

(* What the bus forwards later does not change what was taken. *)
LEMMA ForwarderKeeps ==
  ASSUME SseInv, NEW s \in Subs, Forwarder(s), SameSse(s)
  PROVE  Relayed(s)' /\ Paired(s)'
<1>1. iter' = iter /\ taken' = taken
  BY DEF Forwarder, ForwarderStart, RecvSkip, RecvMatch, RecvLagged, ForwardSend
<1>2. \A i \in 1..taken[s] : sent'[s][i] = sent[s][i]
  <2>1. CASE sent' = sent
    BY <2>1
  <2>2. CASE sent' = [sent EXCEPT ![s] = Append(@, next[s])]
    <3>1. sent'[s] = Append(sent[s], next[s]) /\ next[s] \in Nat
      BY <2>2 DEF SseInv, BusInv, BusTypeOK
    <3>2. \A i \in 1..Len(sent[s]) : sent'[s][i] = sent[s][i]
      BY <3>1, SseTypes
    <3>3. /\ taken[s] \in Nat /\ Len(sent[s]) \in Nat /\ taken[s] <= Len(sent[s])
          /\ sent \in [Subs -> Seq(Nat)] /\ taken \in [Subs -> Nat]
      BY SseTypes
    <3>4. \A i \in 1..taken[s] : i \in 1..Len(sent[s])
      BY <3>3
    <3> QED
      BY <3>2, <3>4
  <2> QED
    BY <2>1, <2>2 DEF Forwarder, ForwarderStart, RecvSkip, RecvMatch, RecvLagged, ForwardSend
<1>3. Relayed(s) /\ Paired(s)
  BY SseTypes
<1>7. Len(seen[s]) + Len(chan[s]) <= taken[s]
  BY <1>3 DEF Relayed, Passed
<1>8. /\ Len(seen[s]) \in Nat /\ Len(chan[s]) \in Nat /\ taken[s] \in Nat
      /\ seen \in [Subs -> Seq(Nat)] /\ chan \in [Subs -> Seq(Nat)] /\ taken \in [Subs -> Nat]
  BY SseTypes
<1>4. \A i \in 1..Len(seen[s]) : i \in 1..taken[s]
  BY <1>7, <1>8
<1>5. \A i \in 1..Len(chan[s]) : Len(seen[s]) + i \in 1..taken[s]
  BY <1>7, <1>8
<1>6. Relayed(s)'
  BY <1>1, <1>2, <1>3, <1>4, <1>5 DEF Relayed, Passed, SameSse
<1> QED
  BY <1>1, <1>3, <1>6 DEF Paired, SameSse

(* The iterator's own steps between two events, and dropping it: what was
   taken stays, and the thread that pulls is the one that drops. *)
LEMMA IteratorKeeps ==
  ASSUME SseInv, NEW s \in Subs, SameSse(s),
         IterCheck(s) \/ IterTimeout(s) \/ IterDisconnected(s) \/ (worker[s] = "pull" /\ Pull(s))
  PROVE  Relayed(s)' /\ Paired(s)'
<1>1. /\ taken' = taken /\ sent' = sent
      /\ iter[s] \in {"body", "check", "wait"} /\ iter'[s] \in {"check", "wait", "ended"}
  <2>1. CASE interrupted
    BY <2>1 DEF IterCheck, IterTimeout, IterDisconnected, Pull, SseInv, BusInv, BusTypeOK
  <2>2. CASE ~interrupted
    BY <2>2 DEF IterCheck, IterTimeout, IterDisconnected, Pull, SseInv, BusInv, BusTypeOK
  <2> QED
    BY <2>1, <2>2
<1>2. worker[s] = "pull"
  <2>1. iter[s] \in {"check", "wait"} \/ worker[s] = "pull"
    BY DEF IterCheck, IterTimeout, IterDisconnected
  <2>2. worker[s] \in {"none", "pull", "send", "done"} /\ Paired(s)
    BY SseTypes DEF SseInv, SseTypeOK
  <2> QED
    BY <2>1, <2>2 DEF Paired
<1>3. Relayed(s) /\ Paired(s)
  BY SseTypes
<1>4. Relayed(s)'
  BY <1>1, <1>3 DEF Relayed, Passed, SameSse
<1>5. Paired(s)'
  BY <1>1, <1>2, <1>3 DEF Paired, SameSse
<1> QED
  BY <1>4, <1>5

(* The response starts. *)
LEMMA RespondStarts ==
  ASSUME SseInv, NEW s \in Subs, NEW p \in Patterns \cup {NoPattern}, Respond(s, p)
  PROVE  Relayed(s)' /\ Paired(s)'
<1>1. /\ iter[s] = "none" /\ iter'[s] = "body" /\ taken' = taken /\ sent' = sent
      /\ worker'[s] = "pull" /\ rx'[s] = TRUE /\ fin'[s] = "open" /\ chan' = chan /\ seen' = seen
  BY DEF Respond, Subscribe, SseInv, SseTypeOK, BusTypeOK
<1>2. chan[s] = <<>> /\ seen[s] = <<>>
  BY <1>1, SseTypes DEF Paired
<1>3. taken[s] = 0
  <2>1. sent[s] = <<>>
    BY <1>1, SseTypes DEF SubInv, Cursors
  <2> QED
    BY <2>1, SseTypes
<1>4. Len(chan'[s]) = 0 /\ Len(seen'[s]) = 0 /\ taken'[s] = 0
  BY <1>1, <1>2, <1>3
<1>5. Relayed(s)'
  BY <1>1, <1>4 DEF Relayed, Passed
<1> QED
  BY <1>1, <1>5 DEF Paired

(* The thread takes an event: one more than has left it. *)
LEMMA ReadEventKeeps ==
  ASSUME SseInv, NEW s \in Subs, ReadEvent(s)
  PROVE  Relayed(s)' /\ Paired(s)'
<1>1. /\ iter[s] = "wait" /\ iter'[s] = "body" /\ taken'[s] = taken[s] + 1 /\ sent' = sent
      /\ worker'[s] = "send" /\ rx' = rx /\ fin' = fin /\ chan' = chan /\ seen' = seen
  BY DEF ReadEvent, IterYield, SseInv, SseTypeOK, BusTypeOK
<1>2. Relayed(s) /\ Paired(s) /\ worker[s] \in {"none", "pull", "send", "done"}
  BY SseTypes DEF SseInv, SseTypeOK
<1>3. worker[s] = "pull" /\ Passed(s) = taken[s]
  BY <1>1, <1>2 DEF Paired, Relayed
<1>4. Passed(s)' = Passed(s)
  BY <1>1 DEF Passed
<1>5. Passed(s)' + 1 = taken'[s] /\ Passed(s)' <= taken'[s]
  BY <1>1, <1>3, <1>4, SseTypes
<1>6. Relayed(s)'
  BY <1>1, <1>2, <1>5 DEF Relayed
<1>7. Paired(s)'
  BY <1>1, <1>2 DEF Paired
<1> QED
  BY <1>6, <1>7

(* The thread ends: at the end of the iterator, or with the body gone. *)
LEMMA ThreadEnds ==
  ASSUME SseInv, NEW s \in Subs, ReadEof(s) \/ SendFails(s)
  PROVE  Relayed(s)' /\ Paired(s)'
<1>1. /\ taken' = taken /\ sent' = sent
      /\ worker'[s] = "done" /\ rx' = rx /\ fin' = fin /\ chan' = chan /\ seen' = seen
  BY DEF ReadEof, SendFails, Drop, SseInv, SseTypeOK, BusTypeOK
<1>2. Relayed(s) /\ Paired(s)
  BY SseTypes
<1>3. \/ worker[s] = "pull" /\ iter[s] = "ended" /\ iter'[s] = "closed"
      \/ worker[s] = "send" /\ iter[s] = "body" /\ iter'[s] = "dropped" /\ ~rx[s]
  <2>1. iter[s] = "ended" => iter'[s] = "closed"
    BY DEF ReadEof, SendFails, Drop, SseInv, BusInv, BusTypeOK
  <2>2. iter[s] = "body" => iter'[s] = "dropped"
    BY DEF ReadEof, SendFails, Drop, SseInv, BusInv, BusTypeOK
  <2> QED
    BY <1>2, <2>1, <2>2 DEF ReadEof, SendFails, Paired
<1>4. Relayed(s)'
  BY <1>1, <1>2, <1>3 DEF Relayed, Passed
<1>5. Paired(s)'
  BY <1>1, <1>2, <1>3 DEF Paired
<1> QED
  BY <1>4, <1>5

(* The thread puts the event it took into the channel, behind its elders. *)
LEMMA SendChunkKeeps ==
  ASSUME SseInv, NEW s \in Subs, SendChunk(s), SseTypeOK'
  PROVE  Relayed(s)' /\ Paired(s)'
<1> DEFINE e == sent[s][taken[s]]
<1>1. /\ worker[s] = "send" /\ iter' = iter /\ taken' = taken /\ sent' = sent
      /\ worker'[s] = "pull" /\ rx' = rx /\ fin' = fin /\ seen' = seen /\ rx[s]
      /\ chan'[s] = Append(chan[s], e)
  BY DEF SendChunk, SseInv, SseTypeOK, busVars
<1>2. Relayed(s) /\ Paired(s)
  BY SseTypes
<1>3. /\ Len(seen[s]) + Len(chan[s]) + 1 = taken[s] /\ iter[s] = "body"
      /\ Len(seen[s]) \in Nat /\ Len(chan[s]) \in Nat /\ taken[s] \in Nat
      /\ seen \in [Subs -> Seq(Nat)] /\ chan \in [Subs -> Seq(Nat)] /\ chan' \in [Subs -> Seq(Nat)]
  BY <1>1, <1>2, SseTypes DEF SseTypeOK, Relayed, Paired, Passed
<1>4. e \in Nat
  <2>1. taken[s] \in 1..Len(sent[s])
    BY <1>3, SseTypes
  <2> QED
    BY <2>1, SseTypes
<1> HIDE DEF e
<1>5. /\ Len(chan'[s]) = Len(chan[s]) + 1
      /\ \A i \in 1..Len(chan[s]) : chan'[s][i] = chan[s][i]
      /\ chan'[s][Len(chan[s]) + 1] = e
  BY <1>1, <1>4, SseTypes
<1>6. Passed(s)' = taken'[s]
  BY <1>1, <1>3, <1>5 DEF Passed
<1>7. \A i \in 1..Len(chan'[s]) : chan'[s][i] = sent'[s][Len(seen'[s]) + i]
  <2>1. TAKE i \in 1..Len(chan'[s])
  <2>2. i \in 1..Len(chan[s]) \/ i = Len(chan[s]) + 1
    BY <1>3, <1>5
  <2>3. CASE i \in 1..Len(chan[s])
    BY <1>1, <1>2, <1>5, <2>3 DEF Relayed
  <2>4. CASE i = Len(chan[s]) + 1
    <3>1. Len(seen'[s]) + i = taken[s]
      BY <1>1, <1>3, <2>4
    <3> QED
      BY <1>1, <1>5, <2>4, <3>1 DEF e
  <2> QED
    BY <2>2, <2>3, <2>4
<1>8. Relayed(s)'
  BY <1>1, <1>2, <1>3, <1>6, <1>7 DEF Relayed
<1>9. Paired(s)'
  BY <1>1, <1>2, <1>3 DEF Paired
<1> QED
  BY <1>8, <1>9

(* The body ends, or hands its client the oldest event in the channel. *)
LEMMA BodyKeeps ==
  ASSUME SseInv, NEW s \in Subs, Poll(s) \/ Abort(s), SseTypeOK'
  PROVE  Relayed(s)' /\ Paired(s)'
<1>1. iter' = iter /\ taken' = taken /\ sent' = sent /\ worker' = worker /\ fin[s] = "open"
  BY DEF Poll, Abort, busVars
<1>2. Relayed(s) /\ Paired(s) /\ SseTypeOK
  BY SseTypes DEF SseInv
<1>3. CASE \E how \in {"clean", "error", "aborted"} :
             /\ BodyEnds(s, how)
             /\ how = "clean" => chan[s] = <<>> /\ worker[s] = "done"
  <2>1. /\ fin'[s] \in {"clean", "error", "aborted"} /\ rx'[s] = FALSE
        /\ chan' = chan /\ seen' = seen
        /\ fin'[s] = "clean" => chan[s] = <<>> /\ worker[s] = "done"
    BY <1>2, <1>3 DEF BodyEnds, SseTypeOK
  <2>2. Relayed(s)'
    BY <1>1, <1>2, <2>1 DEF Relayed, Passed
  <2>3. fin'[s] = "clean" => iter'[s] = "closed"
    BY <1>1, <1>2, <2>1 DEF Paired
  <2>4. Paired(s)'
    BY <1>1, <1>2, <2>1, <2>3 DEF Paired
  <2> QED
    BY <2>2, <2>4
<1>4. CASE /\ chan[s] # <<>>
           /\ seen' = [seen EXCEPT ![s] = Append(@, Head(chan[s]))]
           /\ chan' = [chan EXCEPT ![s] = Tail(@)]
           /\ UNCHANGED <<fin, rx>>
  <2>1. seen'[s] = Append(seen[s], Head(chan[s])) /\ chan'[s] = Tail(chan[s])
    BY <1>2, <1>4 DEF SseTypeOK
  <2>2. /\ Len(chan'[s]) = Len(chan[s]) - 1 /\ Len(chan[s]) > 0
        /\ \A i \in 1..Len(chan'[s]) : chan'[s][i] = chan[s][i + 1]
    BY <1>4, <2>1, SseTypes, TailProps
  <2>3. Head(chan[s]) = sent[s][Len(seen[s]) + 1] /\ Head(chan[s]) \in Nat
    BY <1>2, <1>4, <2>2, SseTypes DEF Relayed
  <2>4. /\ Len(seen'[s]) = Len(seen[s]) + 1
        /\ \A i \in 1..Len(seen[s]) : seen'[s][i] = seen[s][i]
        /\ seen'[s][Len(seen[s]) + 1] = Head(chan[s])
    BY <2>1, <2>3, SseTypes
  <2>5. Passed(s)' = Passed(s)
    <3>1. /\ Len(seen[s]) \in Nat /\ Len(chan[s]) \in Nat
          /\ seen \in [Subs -> Seq(Nat)] /\ chan \in [Subs -> Seq(Nat)]
          /\ seen' \in [Subs -> Seq(Nat)] /\ chan' \in [Subs -> Seq(Nat)]
      BY SseTypes DEF SseTypeOK
    <3>2. Len(chan'[s]) = Len(chan[s]) - 1 /\ Len(seen'[s]) = Len(seen[s]) + 1
      BY <2>2, <2>4
    <3> QED
      BY <3>1, <3>2 DEF Passed
  <2>6. \A i \in 1..Len(seen'[s]) : seen'[s][i] = sent'[s][i]
    <3>1. TAKE i \in 1..Len(seen'[s])
    <3>2. i \in 1..Len(seen[s]) \/ i = Len(seen[s]) + 1
      BY <2>4, SseTypes
    <3> QED
      BY <1>1, <1>2, <2>3, <2>4, <3>2 DEF Relayed
  <2>7. \A i \in 1..Len(chan'[s]) : chan'[s][i] = sent'[s][Len(seen'[s]) + i]
    <3>1. TAKE i \in 1..Len(chan'[s])
    <3>2. i + 1 \in 1..Len(chan[s]) /\ Len(seen'[s]) + i = Len(seen[s]) + (i + 1)
      <4>1. Len(chan'[s]) = Len(chan[s]) - 1 /\ Len(seen'[s]) = Len(seen[s]) + 1
        BY <2>2, <2>4
      <4>2. /\ Len(chan[s]) \in Nat /\ Len(seen[s]) \in Nat
            /\ chan \in [Subs -> Seq(Nat)] /\ seen \in [Subs -> Seq(Nat)]
            /\ chan' \in [Subs -> Seq(Nat)] /\ seen' \in [Subs -> Seq(Nat)]
        BY SseTypes DEF SseTypeOK
      <4> QED
        BY <4>1, <4>2
    <3>3. chan[s][i + 1] = sent[s][Len(seen[s]) + (i + 1)]
      BY <1>2, <3>2 DEF Relayed
    <3> QED
      BY <1>1, <2>2, <3>2, <3>3
  <2>8. Relayed(s)'
    BY <1>1, <1>2, <2>5, <2>6, <2>7 DEF Relayed
  <2>9. Paired(s)'
    BY <1>1, <1>2, <1>4 DEF Paired
  <2> QED
    BY <2>8, <2>9
<1> QED
  BY <1>3, <1>4 DEF Poll, Abort

(* A step of the response or the subscription r leaves every other s alone. *)
LEMMA OthersSameSse ==
  ASSUME SseInv, NEW r \in Subs, NEW s \in Subs, s # r,
         \/ \E p \in Patterns \cup {NoPattern} : Respond(r, p)
         \/ Thread(r) \/ Poll(r) \/ Abort(r)
  PROVE  SameSse(s) /\ SameSub(s)
<1>0. SseTypeOK /\ BusTypeOK
  BY DEF SseInv, BusInv
<1>1. SameSse(s)
  <2>1. CASE \E p \in Patterns \cup {NoPattern} : Respond(r, p)
    BY <1>0, <2>1 DEF Respond, SameSse, SseTypeOK
  <2>2. CASE Thread(r)
    BY <1>0, <2>2 DEF Thread, ReadStarts, ReadEvent, ReadEof, SendChunk, SendFails, SameSse, SseTypeOK,
                      sseOnly
  <2>3. CASE Poll(r) \/ Abort(r)
    BY <1>0, <2>3 DEF Poll, Abort, BodyEnds, SameSse, SseTypeOK
  <2> QED
    BY <2>1, <2>2, <2>3
<1>2. SameSub(s)
  <2>1. CASE UNCHANGED busVars
    BY <2>1 DEF busVars, SameSub
  <2>2. CASE \/ \E p \in Patterns \cup {NoPattern} : Subscribe(r, p)
             \/ Iterator(r) \/ Pull(r) \/ Drop(r)
    BY <1>0, <2>2, OthersSame
  <2> QED
    BY <2>1, <2>2 DEF Respond, Thread, ReadStarts, ReadEvent, ReadEof, SendChunk, SendFails, Poll,
                      Abort, Iterator
<1> QED
  BY <1>1, <1>2

(* Every step of the composition preserves the inductive invariant. *)
LEMMA SseInvStep == SseInv /\ [SseNext]_sseVars => SseInv'
<1> SUFFICES ASSUME SseInv, [SseNext]_sseVars PROVE SseInv'
  OBVIOUS
<1>1. BusInv'
  BY SseIsBus, InvStep DEF SseInv
<1>2. SseTypeOK'
  BY <1>1, SseTypeStep DEF BusInv
<1>3. ASSUME NEW s \in Subs PROVE Relayed(s)' /\ Paired(s)'
  <2>0. Relayed(s) /\ Paired(s) /\ BusTypeOK
    BY SseTypes DEF SseInv, BusInv
  <2>1. CASE BusSteps
    <3>0. SameSse(s)
      BY <2>1 DEF BusSteps, sseOnly, SameSse
    <3>1. CASE (\E t \in Topics : Publish(t)) \/ Interrupt
      BY <2>0, <3>0, <3>1, SseFrame DEF Publish, Interrupt, SameSub
    <3>2. ASSUME NEW r \in Subs, Forwarder(r) PROVE Relayed(s)' /\ Paired(s)'
      <4>1. CASE r = s
        BY <3>0, <3>2, <4>1, ForwarderKeeps
      <4>2. CASE r # s
        BY <2>0, <3>0, <3>2, <4>2, OthersSame, SseFrame
      <4> QED
        BY <4>1, <4>2
    <3>3. ASSUME NEW r \in Subs, IterCheck(r) \/ IterTimeout(r) \/ IterDisconnected(r)
          PROVE Relayed(s)' /\ Paired(s)'
      <4>1. CASE r = s
        BY <3>0, <3>3, <4>1, IteratorKeeps
      <4>2. CASE r # s
        BY <2>0, <3>0, <3>3, <4>2, OthersSame, SseFrame DEF Iterator
      <4> QED
        BY <4>1, <4>2
    <3> QED
      BY <2>1, <3>1, <3>2, <3>3 DEF BusSteps
  <2>2. ASSUME NEW r \in Subs, \/ \E p \in Patterns \cup {NoPattern} : Respond(r, p)
                               \/ Thread(r) \/ Poll(r) \/ Abort(r)
        PROVE Relayed(s)' /\ Paired(s)'
    <3>1. CASE r # s
      BY <2>0, <2>2, <3>1, OthersSameSse, SseFrame
    <3>2. CASE r = s
      <4>1. CASE \E p \in Patterns \cup {NoPattern} : Respond(s, p)
        BY <4>1, RespondStarts
      <4>2. CASE ReadStarts(s)
        <5>1. SameSse(s)
          BY <4>2 DEF ReadStarts, sseOnly, SameSse
        <5> QED
          BY <4>2, <5>1, IteratorKeeps DEF ReadStarts
      <4>3. CASE ReadEvent(s)
        BY <4>3, ReadEventKeeps
      <4>4. CASE ReadEof(s) \/ SendFails(s)
        BY <4>4, ThreadEnds
      <4>5. CASE SendChunk(s)
        BY <1>2, <4>5, SendChunkKeeps
      <4>6. CASE Poll(s) \/ Abort(s)
        BY <1>2, <4>6, BodyKeeps
      <4> QED
        BY <2>2, <3>2, <4>1, <4>2, <4>3, <4>4, <4>5, <4>6 DEF Thread
    <3> QED
      BY <3>1, <3>2
  <2>3. CASE UNCHANGED <<busVars, worker, chan, rx, seen, fin>>
    BY <2>0, <2>3, SseFrame DEF busVars, SameSse, SameSub
  <2>4. (\E r \in Subs : Disconnect(r)) \/ CancelToken \/ UNCHANGED sseVars
          => UNCHANGED <<busVars, worker, chan, rx, seen, fin>>
    BY DEF Disconnect, CancelToken, sseVars, sseOnly
  <2> QED
    BY <2>1, <2>2, <2>3, <2>4 DEF SseNext
<1> QED
  BY <1>1, <1>2, <1>3 DEF SseInv

LEMMA SseInvInit == SseInit => SseInv
<1> SUFFICES ASSUME SseInit PROVE SseInv
  OBVIOUS
<1>1. BusInv
  BY InvInit DEF SseInit
<1>2. SseTypeOK
  <2>1. chan \in [Subs -> Seq(Nat)] /\ seen \in [Subs -> Seq(Nat)]
        /\ \A s \in Subs : Len(chan[s]) <= StreamCap
    BY StreamCapAssumption DEF SseInit
  <2>2. rx \in [Subs -> BOOLEAN] /\ gone \in [Subs -> BOOLEAN] /\ cancel \in BOOLEAN
    BY DEF SseInit
  <2> QED
    BY <1>1, <2>1, <2>2 DEF SseInit, SseTypeOK, BusInv
<1>3. ASSUME NEW s \in Subs PROVE Relayed(s) /\ Paired(s)
  <2>1. /\ Len(chan[s]) = 0 /\ Len(seen[s]) = 0 /\ taken[s] = 0 /\ iter[s] = "none"
        /\ worker[s] = "none" /\ fin[s] = "none" /\ rx[s] = FALSE
        /\ chan[s] = <<>> /\ seen[s] = <<>>
    BY DEF SseInit, BusInit
  <2> QED
    BY <2>1 DEF Relayed, Paired, Passed
<1> QED
  BY <1>1, <1>2, <1>3 DEF SseInv

LEMMA SseInvariance == SseSpec => []SseInv
  BY SseInvInit, SseInvStep, PTL DEF SseSpec

(* The variables of the composition keep their types and the stream channel
   its capacity (mpsc::channel(32) in worker.rs). *)
THEOREM SseTypeCorrect == SseSpec => []SseTypeOK
<1>1. SseInv => SseTypeOK
  BY DEF SseInv
<1> QED
  BY <1>1, SseInvariance, PTL

(* A response that ends cleanly was overrun in the ring, and only after its
   client was given every event forwarded before: nothing is lost between the
   iterator, the evaluation thread, the stream channel and the client. *)
THEOREM SseCleanEnd == SseSpec => []CleanEndMeansOverrun
<1>1. SseInv => CleanEndMeansOverrun
  <2> SUFFICES ASSUME SseInv, NEW s \in Subs, fin[s] = "clean", ~interrupted, fwd[s] # "failed"
               PROVE  Lagged(s) /\ seen[s] = sent[s]
    BY DEF CleanEndMeansOverrun
  <2>1. iter[s] = "closed" /\ chan[s] = <<>> /\ Passed(s) = taken[s]
    BY SseTypes DEF Paired, Relayed
  <2>2. Lagged(s) /\ taken[s] = Len(sent[s])
    BY <2>1, SseTypes DEF SubInv, Ends, TxGone
  <2>3. Len(seen[s]) = Len(sent[s])
    <3>1. Len(chan[s]) = 0
      BY <2>1
    <3> QED
      BY <2>1, <2>2, <3>1, SseTypes DEF Passed
  <2>4. \A i \in 1..Len(seen[s]) : seen[s][i] = sent[s][i]
    BY SseTypes DEF Relayed
  <2> QED
    BY <2>2, <2>3, <2>4, SseTypes, SeqEqual
<1> QED
  BY <1>1, SseInvariance, PTL

-----------------------------------------------------------------------------
(* The refinement mapping of ClientFeed, named. *)
ClientPos == [s \in Subs |-> IF seen[s] = <<>> THEN start[s] ELSE seen[s][Len(seen[s])]]
ClientStatus == [s \in Subs |->
    CASE fin[s] = "none" -> "new" [] fin[s] = "open" -> "open" [] OTHER -> "over"]

(* An event handed to the client is the first wanted one after the previous. *)
LEMMA PollDelivers ==
  ASSUME SseInv, NEW s \in Subs, Poll(s), chan[s] # <<>>,
         seen' = [seen EXCEPT ![s] = Append(@, Head(chan[s]))],
         UNCHANGED <<fin, rx>>
  PROVE  ClientFeed!FeedDeliver(s)
<1> DEFINE t == Len(seen[s])
           i == sent[s][t + 1]
           p == ClientPos[s]
<1>1. BusTypeOK /\ SubInv(s) /\ Relayed(s)
  BY SseTypes DEF SseInv, BusInv
<1>2. /\ t \in Nat /\ start[s] \in Nat
      /\ sent[s] \in Seq(Nat) /\ next[s] \in Nat /\ Len(log) \in Nat
  BY <1>1, SubTypes, SseTypes
<1>3. t + 1 \in 1..Len(sent[s]) /\ Len(chan[s]) > 0
  <2>1. Len(chan[s]) > 0
    BY SseTypes
  <2>2. Len(seen[s]) + Len(chan[s]) <= taken[s]
    BY <1>1 DEF Relayed, Passed
  <2>3. /\ Len(seen[s]) \in Nat /\ Len(chan[s]) \in Nat /\ taken[s] \in Nat
        /\ Len(sent[s]) \in Nat /\ taken[s] <= Len(sent[s])
        /\ seen \in [Subs -> Seq(Nat)] /\ chan \in [Subs -> Seq(Nat)]
        /\ sent \in [Subs -> Seq(Nat)] /\ taken \in [Subs -> Nat]
    BY SseTypes
  <2> QED
    BY <2>1, <2>2, <2>3
<1>4. /\ \A k \in 1..Len(sent[s]) : sent[s][k] \in (start[s] + 1)..next[s]
      /\ \A k \in 1..Len(sent[s]) : Matches(s, log[sent[s][k]])
      /\ \A k \in 1..Len(sent[s]) : \A j \in 1..(k - 1) : sent[s][j] < sent[s][k]
      /\ next[s] <= Len(log)
  BY <1>1 DEF SubInv, SentOK, Cursors
<1>5. p = IF t = 0 THEN start[s] ELSE sent[s][t]
  <2>1. CASE seen[s] = <<>>
    BY <2>1 DEF ClientPos
  <2>2. CASE seen[s] # <<>>
    <3>1. t \in 1..t /\ t # 0
      BY <2>2, SseTypes
    <3>2. seen[s][t] = sent[s][t]
      BY <1>1, <3>1 DEF Relayed
    <3> QED
      BY <2>2, <3>1, <3>2 DEF ClientPos
  <2> QED
    BY <2>1, <2>2
<1>6. \A j \in (start[s] + 1)..next[s] :
        Matches(s, log[j]) /\ j # next[s] => \E k \in 1..Len(sent[s]) : sent[s][k] = j
  BY <1>1 DEF SubInv, Covered
<1>7. Matches(s, log[i])
  BY <1>3, <1>4
<1>8. ClientPos' = [ClientPos EXCEPT ![s] = i]
  <2>1. Head(chan[s]) = i /\ Head(chan[s]) \in Nat
    BY <1>1, <1>3, SseTypes DEF Relayed
  <2>2. seen'[s] = Append(seen[s], i) /\ \A r \in Subs : r # s => seen'[r] = seen[r]
    BY <2>1, SseTypes
  <2>3. seen'[s] # <<>> /\ Len(seen'[s]) = t + 1 /\ seen'[s][t + 1] = i
    <3>1. ASSUME NEW q \in Seq(Nat), NEW e \in Nat
          PROVE  /\ Append(q, e) # <<>> /\ Len(Append(q, e)) = Len(q) + 1
                 /\ Append(q, e)[Len(q) + 1] = e
      OBVIOUS
    <3>2. i \in Nat /\ seen[s] \in Seq(Nat)
      BY <2>1, SseTypes
    <3> HIDE DEF i
    <3> QED
      BY <2>2, <3>1, <3>2
  <2>4. start' = start
    BY DEF Poll, busVars
  <2>5. \A r \in Subs : ClientPos'[r] = IF r = s THEN i ELSE ClientPos[r]
    BY <2>2, <2>3, <2>4 DEF ClientPos
  <2>6. ClientPos' = [r \in Subs |-> ClientPos'[r]] /\ ClientPos = [r \in Subs |-> ClientPos[r]]
    BY DEF ClientPos
  <2> HIDE DEF i
  <2> QED
    BY <2>5, <2>6
<1>9. ClientStatus[s] = "open" /\ ClientStatus' = ClientStatus
  BY DEF ClientStatus, Poll
<1>10. log' = log /\ pattern' = pattern
  BY DEF Poll, busVars
<1> HIDE DEF t, p
<1>11. /\ p \in Nat /\ start[s] <= p /\ p < i /\ i \in (start[s] + 1)..next[s]
       /\ \A k \in 1..Len(sent[s]) : ~(p < sent[s][k] /\ sent[s][k] < i)
  BY <1>2, <1>3, <1>4, <1>5, Neighbours
<1> HIDE DEF i
<1>12. i \in (p + 1)..Len(log)
  BY <1>2, <1>4, <1>11
<1>13. ASSUME NEW j \in (p + 1)..(i - 1) PROVE ~Matches(s, log[j])
  <2>1. j \in (start[s] + 1)..next[s] /\ j < i /\ p < j /\ j # next[s]
    BY <1>2, <1>11
  <2> QED
    BY <2>1, <1>6, <1>11
<1>14. \E e \in (p + 1)..Len(log) :
         /\ Matches(s, log[e])
         /\ \A j \in (p + 1)..(e - 1) : ~Matches(s, log[j])
         /\ ClientPos' = [ClientPos EXCEPT ![s] = e]
  BY <1>7, <1>8, <1>12, <1>13
<1> QED
  BY <1>9, <1>10, <1>14 DEF ClientFeed!FeedDeliver, ClientFeed!Wanted, Matches, ClientPos,
                            ClientStatus, p

(* Every step of the composition is a step of its clients' feeds, or one that
   they cannot see. *)
LEMMA ClientFeedStep ==
  SseInv /\ [SseNext]_sseVars => [ClientFeed!FeedNext]_(ClientFeed!feedVars)
<1> SUFFICES ASSUME SseInv, [SseNext]_sseVars
             PROVE  [ClientFeed!FeedNext]_(ClientFeed!feedVars)
  OBVIOUS
<1> DEFINE Still == log' = log /\ pattern' = pattern /\ ClientPos' = ClientPos
                    /\ ClientStatus' = ClientStatus
           Goal == [ClientFeed!FeedNext]_(ClientFeed!feedVars)
<1>0. Still => UNCHANGED ClientFeed!feedVars
  BY DEF ClientFeed!feedVars, ClientPos, ClientStatus
<1>1. BusTypeOK /\ SseTypeOK
  BY DEF SseInv, BusInv
<1>2. ASSUME UNCHANGED <<start, seen, fin>> PROVE ClientPos' = ClientPos /\ ClientStatus' = ClientStatus
  BY <1>2 DEF ClientPos, ClientStatus
<1>3. CASE UNCHANGED <<log, pattern, start, seen, fin>>
  BY <1>0, <1>2, <1>3
<1>4. CASE BusSteps
  <2>1. UNCHANGED <<pattern, start, seen, fin>>
    BY <1>4 DEF BusSteps, Publish, Forwarder, ForwarderStart, RecvSkip, RecvMatch, RecvLagged,
         ForwardSend, IterCheck, IterTimeout, IterDisconnected, Interrupt, sseOnly
  <2>2. log' = log \/ \E t \in Topics : log' = Append(log, t)
    BY <1>4 DEF BusSteps, Publish, Forwarder, ForwarderStart, RecvSkip, RecvMatch, RecvLagged,
         ForwardSend, IterCheck, IterTimeout, IterDisconnected, Interrupt
  <2>3. CASE log' = log
    BY <1>3, <2>1, <2>3
  <2>4. CASE \E t \in Topics : log' = Append(log, t)
    BY <1>2, <2>1, <2>4 DEF ClientFeed!FeedNext, ClientFeed!FeedPublish, ClientPos, ClientStatus
  <2> QED
    BY <2>2, <2>3, <2>4
<1>5. ASSUME NEW s \in Subs, NEW p \in Patterns \cup {NoPattern}, Respond(s, p) PROVE Goal
  <2>1. fin[s] = "none" /\ seen[s] = <<>>
    BY <1>5, SseTypes DEF Respond, Subscribe, Paired
  <2>2. /\ ClientStatus[s] = "new" /\ ClientStatus' = [ClientStatus EXCEPT ![s] = "open"]
        /\ ClientPos' = [ClientPos EXCEPT ![s] = Len(log)]
    <3>1. /\ start' = [start EXCEPT ![s] = Len(log)] /\ fin' = [fin EXCEPT ![s] = "open"]
          /\ seen' = seen
      BY <1>5 DEF Respond, Subscribe
    <3>2. \A r \in Subs : ClientStatus'[r] = IF r = s THEN "open" ELSE ClientStatus[r]
      BY <1>1, <3>1 DEF ClientStatus, SseTypeOK
    <3>3. \A r \in Subs : ClientPos'[r] = IF r = s THEN Len(log) ELSE ClientPos[r]
      BY <1>1, <2>1, <3>1 DEF ClientPos, BusTypeOK
    <3> QED
      BY <2>1, <3>2, <3>3 DEF ClientStatus, ClientPos
  <2>3. log' = log /\ pattern' = [pattern EXCEPT ![s] = p]
    BY <1>5 DEF Respond, Subscribe
  <2>4. ClientFeed!FeedOpen(s)
    BY <2>2, <2>3 DEF ClientFeed!FeedOpen, ClientPos, ClientStatus
  <2> QED
    BY <2>4 DEF ClientFeed!FeedNext
<1>6. ASSUME NEW s \in Subs, Thread(s) PROVE Goal
  BY <1>3, <1>6 DEF Thread, ReadStarts, ReadEvent, ReadEof, SendChunk, SendFails, Pull, IterYield,
       Drop, busVars, sseOnly
<1>7. ASSUME NEW s \in Subs, NEW how \in {"clean", "error", "aborted"}, fin[s] = "open",
             BodyEnds(s, how), UNCHANGED busVars
      PROVE  Goal
  <2>1. ClientStatus[s] = "open"
    BY <1>7 DEF ClientStatus
  <2>2. \A r \in Subs : ClientStatus'[r] = IF r = s THEN "over" ELSE ClientStatus[r]
    BY <1>1, <1>7 DEF BodyEnds, ClientStatus, SseTypeOK
  <2>3. ClientStatus' = [ClientStatus EXCEPT ![s] = "over"]
    BY <2>2 DEF ClientStatus
  <2>4. log' = log /\ pattern' = pattern /\ ClientPos' = ClientPos
    BY <1>7 DEF BodyEnds, busVars, ClientPos
  <2> QED
    BY <2>1, <2>3, <2>4 DEF ClientFeed!FeedNext, ClientFeed!FeedOver, ClientPos, ClientStatus
<1>8. ASSUME NEW s \in Subs, Poll(s) PROVE Goal
  <2>1. CASE \E how \in {"clean", "error"} : BodyEnds(s, how)
    BY <1>7, <1>8, <2>1 DEF Poll
  <2>2. CASE /\ chan[s] # <<>> /\ UNCHANGED <<fin, rx>>
             /\ seen' = [seen EXCEPT ![s] = Append(@, Head(chan[s]))]
    BY <1>8, <2>2, PollDelivers DEF ClientFeed!FeedNext
  <2> QED
    BY <1>8, <2>1, <2>2 DEF Poll
<1>9. ASSUME NEW s \in Subs, Abort(s) PROVE Goal
  BY <1>7, <1>9 DEF Abort
<1>10. (\E s \in Subs : Disconnect(s)) \/ CancelToken \/ UNCHANGED sseVars
         => UNCHANGED <<log, pattern, start, seen, fin>>
  BY DEF Disconnect, CancelToken, sseVars, sseOnly, busVars
<1> QED
  BY <1>3, <1>4, <1>5, <1>6, <1>8, <1>9, <1>10 DEF SseNext

(* From `.bus pub` to the client's socket the composition implements the
   abstract feed, for every value of the constants. *)
THEOREM SseImplementsFeed == SseSpec => ImplementsClientFeed
<1>1. SseInit => ClientFeed!FeedInit
  BY DEF SseInit, BusInit, ClientFeed!FeedInit
<1> QED
  BY <1>1, ClientFeedStep, SseInvariance, PTL DEF SseSpec, ImplementsClientFeed, ClientFeed!FeedSpec
=============================================================================
