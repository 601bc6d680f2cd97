----------------------------- MODULE BusProofs -----------------------------
(***************************************************************************)
(* Proofs about Bus for every ring capacity, every set of subscriptions,   *)
(* topics and patterns and every bound on the number of events.            *)
(***************************************************************************)
EXTENDS Bus, TLAPS

(* Where subscription s stands: the receiver's cursor lies between the start
   and the end of the log, the iterator has taken no more than was sent, and
   a subscription that has not begun to receive has sent nothing. *)
Cursors(s) ==
  /\ start[s] <= next[s]
  /\ next[s] <= Len(log)
  /\ taken[s] <= Len(sent[s])
  /\ iter[s] = "none" => fwd[s] = "none"
  /\ fwd[s] \in {"none", "spawned"} => sent[s] = <<>> /\ next[s] = start[s]

(* What was sent: matching events the cursor has passed, in order.  An event
   in the forwarder's hands is the one just passed; it matches and is not
   sent yet. *)
SentOK(s) ==
  /\ \A k \in 1..Len(sent[s]) :
       /\ sent[s][k] \in (start[s] + 1)..next[s]
       /\ Matches(s, log[sent[s][k]])
       /\ \A j \in 1..(k - 1) : sent[s][j] < sent[s][k]
  /\ fwd[s] = "send" =>
       /\ next[s] > start[s]
       /\ Matches(s, log[next[s]])
       /\ \A k \in 1..Len(sent[s]) : sent[s][k] < next[s]

(* No matching event the cursor has passed is missing, except the one in the
   forwarder's hands, or that it held when it found the iterator gone. *)
Covered(s) ==
  \A i \in (start[s] + 1)..next[s] :
    Matches(s, log[i])
      => \/ \E k \in 1..Len(sent[s]) : sent[s][k] = i
         \/ fwd[s] \in {"send", "done"} /\ i = next[s]

(* Why a forwarder stopped, and what an ended iterator implies. *)
Ends(s) ==
  /\ fwd[s] = "done" => Lagged(s) \/ iter[s] = "dropped" \/ interrupted
  /\ iter[s] \in {"ended", "closed"} /\ ~interrupted
       => TxGone(s) /\ taken[s] = Len(sent[s])

SubInv(s) == Cursors(s) /\ SentOK(s) /\ Covered(s) /\ Ends(s)

BusInv == BusTypeOK /\ \A s \in Subs : SubInv(s)

(* A step leaves subscription s alone. *)
SameSub(s) ==
  /\ pattern'[s] = pattern[s] /\ start'[s] = start[s] /\ next'[s] = next[s]
  /\ fwd'[s] = fwd[s] /\ sent'[s] = sent[s] /\ taken'[s] = taken[s]
  /\ iter'[s] = iter[s]

(* Every action preserves the types. *)
LEMMA TypeStep == BusTypeOK /\ [BusNext]_busVars => BusTypeOK'
<1> SUFFICES ASSUME BusTypeOK, [BusNext]_busVars PROVE BusTypeOK'
  OBVIOUS
<1> USE MaxPubAssumption
<1>1. CASE UNCHANGED busVars
  BY <1>1 DEF BusTypeOK, busVars
<1>2. ASSUME NEW t \in Topics, Publish(t) PROVE BusTypeOK'
  BY <1>2 DEF BusTypeOK, Publish
<1>3. ASSUME NEW s \in Subs, NEW p \in Patterns \cup {NoPattern}, Subscribe(s, p)
      PROVE BusTypeOK'
  BY <1>3 DEF BusTypeOK, Subscribe, FwdStates, IterStates
<1>4. ASSUME NEW s \in Subs, Forwarder(s) PROVE BusTypeOK'
  <2>1. CASE ForwarderStart(s)
    BY <2>1 DEF BusTypeOK, ForwarderStart, FwdStates
  <2>2. CASE RecvSkip(s)
    BY <2>2 DEF BusTypeOK, RecvSkip
  <2>3. CASE RecvMatch(s)
    BY <2>3 DEF BusTypeOK, RecvMatch, FwdStates
  <2>4. CASE RecvLagged(s)
    BY <2>4 DEF BusTypeOK, RecvLagged, FwdStates
  <2>5. CASE ForwardSend(s)
    <3>1. CASE RxAlive(s)
      <4>1. sent' = [sent EXCEPT ![s] = Append(@, next[s])]
        BY <2>5, <3>1 DEF ForwardSend
      <4>2. Append(sent[s], next[s]) \in Seq(Nat)
        BY DEF BusTypeOK
      <4>3. sent' \in [Subs -> Seq(Nat)]
        BY <4>1, <4>2 DEF BusTypeOK
      <4> QED
        BY <2>5, <3>1, <4>3 DEF BusTypeOK, ForwardSend, FwdStates
    <3>2. CASE ~RxAlive(s)
      BY <2>5, <3>2 DEF BusTypeOK, ForwardSend, FwdStates
    <3> QED
      BY <3>1, <3>2
  <2> QED
    BY <1>4, <2>1, <2>2, <2>3, <2>4, <2>5 DEF Forwarder
<1>5. ASSUME NEW s \in Subs, Iterator(s) \/ Pull(s) \/ Drop(s) PROVE BusTypeOK'
  <2>1. CASE IterCheck(s)
    <3>1. iter' \in [Subs -> IterStates]
      <4>1. CASE interrupted
        BY <2>1, <4>1 DEF BusTypeOK, IterCheck, IterStates
      <4>2. CASE ~interrupted
        BY <2>1, <4>2 DEF BusTypeOK, IterCheck, IterStates
      <4> QED
        BY <4>1, <4>2
    <3> QED
      BY <2>1, <3>1 DEF BusTypeOK, IterCheck
  <2>2. CASE IterYield(s)
    BY <2>2 DEF BusTypeOK, IterYield, IterStates
  <2>3. CASE IterTimeout(s) \/ IterDisconnected(s) \/ Pull(s) \/ Drop(s)
    BY <2>3 DEF BusTypeOK, IterTimeout, IterDisconnected, Pull, Drop, IterStates
  <2> QED
    BY <1>5, <2>1, <2>2, <2>3 DEF Iterator
<1>6. CASE Interrupt
  BY <1>6 DEF BusTypeOK, Interrupt
<1> QED
  BY <1>1, <1>2, <1>3, <1>4, <1>5, <1>6 DEF BusNext

(* The types of Bus hold for every value of the constants. *)
THEOREM BusTypeCorrect == BusSpec => []BusTypeOK
<1>1. BusInit => BusTypeOK
  <2> SUFFICES ASSUME BusInit PROVE BusTypeOK
    OBVIOUS
  <2>1. log \in Seq(Topics) /\ sent \in [Subs -> Seq(Nat)]
    BY DEF BusInit
  <2>2. pubs \in 0..MaxPub
    BY MaxPubAssumption DEF BusInit
  <2> QED
    BY <2>1, <2>2 DEF BusInit, BusTypeOK, FwdStates, IterStates
<1> QED
  BY <1>1, TypeStep, PTL DEF BusSpec

(* What holds of a subscription keeps holding while it is left alone: later
   events only lengthen the log, and the interrupt flag is only ever set. *)
LEMMA Frame ==
  ASSUME BusTypeOK, NEW s \in Subs, SubInv(s), SameSub(s),
         log' \in Seq(Topics), Len(log') >= Len(log),
         \A i \in 1..Len(log) : log'[i] = log[i],
         interrupted => interrupted'
  PROVE  SubInv(s)'
<1>1. Len(log) \in Nat /\ Len(log') \in Nat /\ start[s] \in Nat /\ next[s] \in Nat
      /\ taken[s] \in Nat /\ sent[s] \in Seq(Nat)
  BY DEF BusTypeOK
<1>2. Cursors(s)'
  BY <1>1 DEF SubInv, Cursors, SameSub
<1>3. \A i \in 1..Len(log) : Matches(s, log[i]) <=> Matches(s, log[i])'
  BY DEF Matches, SameSub
<1>4. next[s] <= Len(log)
  BY DEF SubInv, Cursors
<1>5. SentOK(s)'
  <2>1. ASSUME NEW k \in 1..Len(sent[s])
        PROVE  /\ sent[s][k] \in (start[s] + 1)..next[s]
               /\ Matches(s, log[sent[s][k]])'
               /\ \A j \in 1..(k - 1) : sent[s][j] < sent[s][k]
    <3>1. sent[s][k] \in (start[s] + 1)..next[s] /\ Matches(s, log[sent[s][k]])
          /\ \A j \in 1..(k - 1) : sent[s][j] < sent[s][k]
      BY DEF SubInv, SentOK
    <3>2. sent[s][k] \in 1..Len(log)
      <4>1. sent[s][k] \in Nat /\ start[s] + 1 <= sent[s][k] /\ sent[s][k] <= next[s]
        BY <3>1, <1>1
      <4> QED
        BY <4>1, <1>1, <1>4
    <3>3. log'[sent'[s][k]] = log[sent[s][k]]
      BY <3>2 DEF SameSub
    <3>4. Matches(s, log[sent[s][k]])'
      BY <3>1, <3>3 DEF Matches, SameSub
    <3> QED
      BY <3>1, <3>4
  <2>2. ASSUME fwd[s] = "send"
        PROVE  /\ next[s] > start[s]
               /\ Matches(s, log[next[s]])'
               /\ \A k \in 1..Len(sent[s]) : sent[s][k] < next[s]
    <3>1. /\ next[s] > start[s] /\ Matches(s, log[next[s]])
          /\ \A k \in 1..Len(sent[s]) : sent[s][k] < next[s]
      BY <2>2 DEF SubInv, SentOK
    <3>2. next[s] \in 1..Len(log)
      BY <3>1, <1>1, <1>4
    <3>3. log'[next'[s]] = log[next[s]]
      BY <3>2 DEF SameSub
    <3>4. Matches(s, log[next[s]])'
      BY <3>1, <3>3 DEF Matches, SameSub
    <3> QED
      BY <3>1, <3>4
  <2> QED
    BY <2>1, <2>2 DEF SentOK, SameSub
<1>6. Covered(s)'
  <2>1. ASSUME NEW i \in (start[s] + 1)..next[s], Matches(s, log[i])'
        PROVE  \/ \E k \in 1..Len(sent[s]) : sent[s][k] = i
               \/ fwd[s] \in {"send", "done"} /\ i = next[s]
    <3>1. i \in 1..Len(log)
      BY <1>1, <1>4
    <3>2. Matches(s, log[i])
      BY <2>1, <3>1, <1>3
    <3> QED
      BY <3>2 DEF SubInv, Covered
  <2> QED
    BY <2>1 DEF Covered, SameSub
<1>7. Ends(s)'
  <2>1. Lagged(s) => Lagged(s)'
    BY <1>1, CapacityAssumption DEF Lagged, Unread, SameSub
  <2> QED
    BY <2>1 DEF SubInv, Ends, SameSub, TxGone
<1> QED
  BY <1>2, <1>5, <1>6, <1>7 DEF SubInv

(* Facts about one subscription's state that every step below uses. *)
LEMMA SubTypes ==
  ASSUME BusTypeOK, NEW s \in Subs
  PROVE  /\ Len(log) \in Nat /\ start[s] \in Nat /\ next[s] \in Nat
         /\ taken[s] \in Nat /\ sent[s] \in Seq(Nat) /\ Len(sent[s]) \in Nat
         /\ fwd[s] \in FwdStates /\ iter[s] \in IterStates
  BY DEF BusTypeOK

(* `.bus sub` starts a subscription in a good state. *)
LEMMA SubscribeStep ==
  ASSUME BusTypeOK, NEW s \in Subs, NEW p \in Patterns \cup {NoPattern},
         SubInv(s), Subscribe(s, p)
  PROVE  SubInv(s)'
<1>1. /\ start'[s] = Len(log) /\ next'[s] = Len(log) /\ log' = log
      /\ fwd'[s] = "spawned" /\ iter'[s] = "body" /\ sent'[s] = sent[s]
      /\ taken'[s] = taken[s] /\ interrupted' = interrupted
  BY DEF Subscribe, BusTypeOK
<1>2. sent[s] = <<>> /\ taken[s] <= Len(sent[s])
  BY DEF SubInv, Cursors, Subscribe
<1>3. Len(log) \in Nat
  BY SubTypes
<1>4. Cursors(s)'
  BY <1>1, <1>2, <1>3 DEF Cursors
<1>5. SentOK(s)'
  BY <1>1, <1>2 DEF SentOK
<1>6. Covered(s)'
  BY <1>1, <1>3 DEF Covered
<1>7. Ends(s)'
  BY <1>1 DEF Ends
<1> QED
  BY <1>4, <1>5, <1>6, <1>7 DEF SubInv

(* Steps of the iterator and of its caller change neither what was sent nor
   the cursor. *)
LEMMA IterStep ==
  ASSUME BusTypeOK, NEW s \in Subs, SubInv(s),
         Iterator(s) \/ Pull(s) \/ Drop(s)
  PROVE  SubInv(s)'
<1> DEFINE Same == /\ log' = log /\ pattern' = pattern /\ start' = start
                   /\ next' = next /\ fwd' = fwd /\ sent' = sent
                   /\ interrupted' = interrupted
<1>1. Same
  BY DEF Iterator, IterCheck, IterYield, IterTimeout, IterDisconnected, Pull, Drop
<1>2. SentOK(s)' /\ Covered(s)'
  BY <1>1 DEF SubInv, SentOK, Covered, Matches
<1>3. iter[s] # "none" /\ iter'[s] # "none" /\ iter[s] \notin {"closed", "dropped"}
  <2>1. CASE IterCheck(s)
    <3>1. CASE interrupted
      BY <2>1, <3>1 DEF BusTypeOK, IterCheck
    <3>2. CASE ~interrupted
      BY <2>1, <3>2 DEF BusTypeOK, IterCheck
    <3> QED
      BY <3>1, <3>2
  <2>2. CASE IterYield(s) \/ IterTimeout(s) \/ IterDisconnected(s) \/ Pull(s) \/ Drop(s)
    BY <2>2 DEF BusTypeOK, IterYield, IterTimeout, IterDisconnected, Pull, Drop
  <2> QED
    BY <2>1, <2>2 DEF Iterator
<1>4. taken'[s] <= Len(sent[s])
  BY SubTypes DEF SubInv, Cursors, Iterator, IterCheck, IterYield, IterTimeout,
     IterDisconnected, Pull, Drop, BusTypeOK
<1>5. Cursors(s)'
  BY <1>1, <1>3, <1>4 DEF SubInv, Cursors
<1>6. Ends(s)'
  <2>1. fwd'[s] = "done" => Lagged(s)' \/ iter'[s] = "dropped" \/ interrupted'
    BY <1>1, <1>3 DEF SubInv, Ends, Lagged, Unread
  <2>2. ASSUME iter'[s] \in {"ended", "closed"}, ~interrupted
        PROVE  TxGone(s)' /\ taken'[s] = Len(sent[s])
    <3>1. CASE IterCheck(s)
      BY <3>1, <2>2 DEF IterCheck, BusTypeOK
    <3>2. CASE IterYield(s) \/ IterTimeout(s) \/ Pull(s)
      BY <3>2, <2>2 DEF IterYield, IterTimeout, Pull, BusTypeOK
    <3>3. CASE IterDisconnected(s)
      BY <3>3, <1>1 DEF IterDisconnected, TxGone
    <3>4. CASE Drop(s)
      <4>1. iter[s] = "ended" /\ taken' = taken
        BY <3>4, <2>2 DEF Drop, BusTypeOK
      <4> QED
        BY <4>1, <2>2, <1>1 DEF SubInv, Ends, TxGone
    <3> QED
      BY <3>1, <3>2, <3>3, <3>4 DEF Iterator
  <2> QED
    BY <2>1, <2>2, <1>1 DEF Ends
<1> QED
  BY <1>2, <1>5, <1>6 DEF SubInv

(* Starting the forwarder and ending it on a lag move nothing. *)
LEMMA ForwarderIdleStep ==
  ASSUME BusTypeOK, NEW s \in Subs, SubInv(s), ForwarderStart(s) \/ RecvLagged(s)
  PROVE  SubInv(s)'
<1>1. /\ log' = log /\ pattern' = pattern /\ start' = start /\ next' = next
      /\ sent' = sent /\ taken' = taken /\ iter' = iter
      /\ interrupted' = interrupted
  BY DEF ForwarderStart, RecvLagged
<1>2. /\ fwd'[s] \in {"recv", "failed", "done"} /\ fwd[s] \in {"spawned", "recv"}
      /\ fwd'[s] = "done" => Lagged(s)
  BY DEF ForwarderStart, RecvLagged, BusTypeOK
<1>3. Cursors(s)'
  BY <1>1, <1>2 DEF SubInv, Cursors
<1>4. SentOK(s)' /\ Covered(s)'
  BY <1>1, <1>2 DEF SubInv, SentOK, Covered, Matches
<1>5. Lagged(s) => Lagged(s)'
  BY <1>1 DEF Lagged, Unread
<1>6. Ends(s)'
  BY <1>1, <1>2, <1>5 DEF SubInv, Ends, TxGone
<1> QED
  BY <1>3, <1>4, <1>6 DEF SubInv

(* Reading one event from the ring keeps the forwarder's books. *)
LEMMA RecvStep ==
  ASSUME BusTypeOK, NEW s \in Subs, SubInv(s), RecvSkip(s) \/ RecvMatch(s)
  PROVE  SubInv(s)'
<1> DEFINE e == next[s] + 1
<1>1. /\ log' = log /\ pattern' = pattern /\ start' = start
      /\ sent' = sent /\ taken' = taken /\ iter' = iter
      /\ interrupted' = interrupted
  BY DEF RecvSkip, RecvMatch
<1>2. /\ fwd[s] = "recv" /\ next'[s] = e /\ e <= Len(log)
      /\ \/ fwd'[s] = "recv" /\ ~Matches(s, log[e])
         \/ fwd'[s] = "send" /\ Matches(s, log[e])
  BY SubTypes DEF RecvSkip, RecvMatch, Unread, BusTypeOK
<1>3. Cursors(s)'
  BY <1>1, <1>2, SubTypes DEF SubInv, Cursors
<1>4. \A t : Matches(s, t)' <=> Matches(s, t)
  BY <1>1 DEF Matches
<1>5. \A k \in 1..Len(sent[s]) :
        /\ sent[s][k] \in (start[s] + 1)..next[s]
        /\ sent[s][k] \in (start[s] + 1)..e /\ sent[s][k] < e
  BY SubTypes DEF SubInv, SentOK
<1>6. SentOK(s)'
  <2>1. \A k \in 1..Len(sent[s]) :
          /\ sent[s][k] \in (start[s] + 1)..e
          /\ Matches(s, log[sent[s][k]])
          /\ \A j \in 1..(k - 1) : sent[s][j] < sent[s][k]
    BY <1>5 DEF SubInv, SentOK
  <2>2. fwd'[s] = "send" =>
          /\ e > start[s]
          /\ Matches(s, log[e])
          /\ \A k \in 1..Len(sent[s]) : sent[s][k] < e
    BY <1>2, <1>5, SubTypes DEF SubInv, Cursors
  <2> HIDE DEF e
  <2> QED
    BY <2>1, <2>2, <1>1, <1>2 DEF SentOK, Matches
<1>7. Covered(s)'
  <2>1. ASSUME NEW i \in (start[s] + 1)..e, Matches(s, log[i])
        PROVE  \/ \E k \in 1..Len(sent[s]) : sent[s][k] = i
               \/ fwd'[s] \in {"send", "done"} /\ i = e
    <3>1. CASE i = e
      BY <3>1, <2>1, <1>2
    <3>2. CASE i # e
      <4>1. i \in (start[s] + 1)..next[s]
        BY <3>2, SubTypes
      <4> QED
        BY <4>1, <2>1, <1>2 DEF SubInv, Covered
    <3> QED
      BY <3>1, <3>2
  <2> HIDE DEF e
  <2> QED
    BY <2>1, <1>1, <1>2 DEF Covered, Matches
<1>8. Ends(s)'
  BY <1>1, <1>2 DEF SubInv, Ends, TxGone
<1> QED
  BY <1>3, <1>6, <1>7, <1>8 DEF SubInv

(* Sending the event in hand appends the next matching one; finding the
   iterator gone ends the thread. *)
LEMMA SendStep ==
  ASSUME BusTypeOK, NEW s \in Subs, SubInv(s), ForwardSend(s)
  PROVE  SubInv(s)'
<1>1. /\ log' = log /\ pattern' = pattern /\ start' = start /\ next' = next
      /\ taken' = taken /\ iter' = iter /\ interrupted' = interrupted
      /\ fwd[s] = "send"
  BY DEF ForwardSend
<1>2. CASE RxAlive(s)
  <2> DEFINE n == Len(sent[s]) + 1
  <2>1. fwd'[s] = "recv" /\ sent'[s] = Append(sent[s], next[s])
    BY <1>2 DEF ForwardSend, BusTypeOK
  <2>2. /\ Len(sent'[s]) = n /\ sent'[s][n] = next[s]
        /\ \A k \in 1..Len(sent[s]) : sent'[s][k] = sent[s][k]
    BY <2>1, SubTypes
  <2>3. Cursors(s)'
    BY <1>1, <2>1, <2>2, SubTypes DEF SubInv, Cursors
  <2>4. SentOK(s)'
    <3>1. ASSUME NEW k \in 1..n
          PROVE  /\ sent'[s][k] \in (start[s] + 1)..next[s]
                 /\ Matches(s, log[sent'[s][k]])
                 /\ \A j \in 1..(k - 1) : sent'[s][j] < sent'[s][k]
      <4>1. CASE k = n
        <5>1. \A j \in 1..(k - 1) : j \in 1..Len(sent[s])
          BY <4>1, SubTypes
        <5>2. next[s] \in (start[s] + 1)..next[s] /\ Matches(s, log[next[s]])
              /\ \A j \in 1..Len(sent[s]) : sent[s][j] < next[s]
          BY <1>1, SubTypes DEF SubInv, SentOK
        <5> HIDE DEF n
        <5> QED
          BY <4>1, <5>1, <5>2, <2>2
      <4>2. CASE k \in 1..Len(sent[s])
        <5>1. \A j \in 1..(k - 1) : j \in 1..Len(sent[s])
          BY <4>2, SubTypes
        <5> QED
          BY <4>2, <5>1, <2>2 DEF SubInv, SentOK
      <4>3. k = n \/ k \in 1..Len(sent[s])
        BY SubTypes
      <4> QED
        BY <4>1, <4>2, <4>3
    <3> HIDE DEF n
    <3> QED
      BY <3>1, <1>1, <2>1, <2>2 DEF SentOK, Matches
  <2>5. Covered(s)'
    <3>1. ASSUME NEW i \in (start[s] + 1)..next[s], Matches(s, log[i])
          PROVE  \E k \in 1..n : sent'[s][k] = i
      <4>1. CASE i = next[s]
        <5>1. n \in 1..n
          BY SubTypes
        <5> QED
          BY <4>1, <5>1, <2>2
      <4>2. CASE \E k \in 1..Len(sent[s]) : sent[s][k] = i
        <5>1. \A k \in 1..Len(sent[s]) : k \in 1..n
          BY SubTypes
        <5> QED
          BY <4>2, <5>1, <2>2
      <4> QED
        BY <3>1, <4>1, <4>2 DEF SubInv, Covered
    <3> QED
      BY <3>1, <1>1, <2>2 DEF Covered, Matches
  <2>6. Ends(s)'
    BY <1>1, <1>2, <2>1 DEF SubInv, Ends, TxGone, RxAlive
  <2> QED
    BY <2>3, <2>4, <2>5, <2>6 DEF SubInv
<1>3. CASE ~RxAlive(s)
  <2>1. fwd'[s] = "done" /\ sent' = sent
    BY <1>3 DEF ForwardSend, BusTypeOK
  <2>2. Cursors(s)' /\ SentOK(s)' /\ Covered(s)'
    BY <1>1, <2>1 DEF SubInv, Cursors, SentOK, Covered, Matches
  <2>3. iter[s] = "dropped" \/ interrupted
    BY <1>1, <1>3 DEF SubInv, Ends, TxGone, RxAlive
  <2>4. Ends(s)'
    BY <1>1, <2>1, <2>3 DEF SubInv, Ends, TxGone
  <2> QED
    BY <2>2, <2>4 DEF SubInv
<1> QED
  BY <1>2, <1>3

(* A step of subscription r leaves every other subscription alone. *)
LEMMA OthersSame ==
  ASSUME BusTypeOK, NEW r \in Subs, NEW s \in Subs, s # r,
         \/ \E p \in Patterns \cup {NoPattern} : Subscribe(r, p)
         \/ Forwarder(r) \/ Iterator(r) \/ Pull(r) \/ Drop(r)
  PROVE  SameSub(s) /\ log' = log /\ interrupted' = interrupted
<1>1. CASE \E p \in Patterns \cup {NoPattern} : Subscribe(r, p)
  BY <1>1 DEF Subscribe, SameSub, BusTypeOK
<1>2. CASE Forwarder(r)
  <2>1. CASE ForwarderStart(r) \/ RecvSkip(r) \/ RecvMatch(r) \/ RecvLagged(r)
    BY <2>1 DEF ForwarderStart, RecvSkip, RecvMatch, RecvLagged, SameSub, BusTypeOK
  <2>2. CASE ForwardSend(r)
    <3>1. CASE RxAlive(r)
      BY <2>2, <3>1 DEF ForwardSend, SameSub, BusTypeOK
    <3>2. CASE ~RxAlive(r)
      BY <2>2, <3>2 DEF ForwardSend, SameSub, BusTypeOK
    <3> QED
      BY <3>1, <3>2
  <2> QED
    BY <1>2, <2>1, <2>2 DEF Forwarder
<1>3. CASE Iterator(r) \/ Pull(r) \/ Drop(r)
  BY <1>3 DEF Iterator, IterCheck, IterYield, IterTimeout, IterDisconnected,
     Pull, Drop, SameSub, BusTypeOK
<1> QED
  BY <1>1, <1>2, <1>3

(* Every step of the bus preserves the inductive invariant. *)
LEMMA InvStep == BusInv /\ [BusNext]_busVars => BusInv'
<1> SUFFICES ASSUME BusInv, [BusNext]_busVars, NEW s \in Subs PROVE SubInv(s)'
  BY TypeStep DEF BusInv
<1>1. BusTypeOK /\ SubInv(s) /\ BusTypeOK' /\ Len(log) \in Nat
      /\ log' \in Seq(Topics)
  BY TypeStep, SubTypes DEF BusInv, BusTypeOK
<1>2. CASE UNCHANGED busVars
  BY <1>1, <1>2, Frame DEF busVars, SameSub
<1>3. ASSUME NEW t \in Topics, Publish(t) PROVE SubInv(s)'
  <2>1. SameSub(s) /\ interrupted' = interrupted
    BY <1>3 DEF Publish, SameSub
  <2>2. log' = log \/ log' = Append(log, t)
    BY <1>3 DEF Publish
  <2>3. log \in Seq(Topics)
    BY <1>1 DEF BusTypeOK
  <2>4. Len(log') >= Len(log) /\ \A i \in 1..Len(log) : log'[i] = log[i]
    BY <2>2, <2>3, <1>1
  <2> QED
    BY <1>1, <2>1, <2>4, Frame
<1>4. ASSUME NEW r \in Subs,
             \/ \E p \in Patterns \cup {NoPattern} : Subscribe(r, p)
             \/ Forwarder(r) \/ Iterator(r) \/ Pull(r) \/ Drop(r)
      PROVE  SubInv(s)'
  <2>1. CASE s # r
    <3>1. SameSub(s) /\ log' = log /\ interrupted' = interrupted
      BY <1>1, <1>4, <2>1, OthersSame
    <3> QED
      BY <1>1, <3>1, Frame
  <2>2. CASE s = r
    <3>1. CASE \E p \in Patterns \cup {NoPattern} : Subscribe(s, p)
      BY <3>1, <1>1, SubscribeStep
    <3>2. CASE Forwarder(s)
      BY <3>2, <1>1, ForwarderIdleStep, RecvStep, SendStep DEF Forwarder
    <3>3. CASE Iterator(s) \/ Pull(s) \/ Drop(s)
      BY <3>3, <1>1, IterStep
    <3> QED
      BY <1>4, <2>2, <3>1, <3>2, <3>3
  <2> QED
    BY <2>1, <2>2
<1>5. CASE Interrupt
  BY <1>1, <1>5, Frame DEF Interrupt, SameSub
<1> QED
  BY <1>2, <1>3, <1>4, <1>5 DEF BusNext

(* The inductive invariant holds before anyone publishes or subscribes. *)
LEMMA InvInit == BusInit => BusInv
<1> SUFFICES ASSUME BusInit PROVE BusInv
  OBVIOUS
<1>1. BusTypeOK
  <2>1. log \in Seq(Topics) /\ sent \in [Subs -> Seq(Nat)]
    BY DEF BusInit
  <2>2. pubs \in 0..MaxPub
    BY MaxPubAssumption DEF BusInit
  <2> QED
    BY <2>1, <2>2 DEF BusInit, BusTypeOK, FwdStates, IterStates
<1>2. ASSUME NEW s \in Subs PROVE SubInv(s)
  <2>1. /\ Len(log) = 0 /\ start[s] = 0 /\ next[s] = 0 /\ taken[s] = 0
        /\ sent[s] = <<>> /\ Len(sent[s]) = 0 /\ fwd[s] = "none" /\ iter[s] = "none"
    BY DEF BusInit
  <2> QED
    BY <2>1 DEF SubInv, Cursors, SentOK, Covered, Ends
<1> QED
  BY <1>1, <1>2 DEF BusInv

(* The inductive invariant holds in every reachable state. *)
LEMMA BusInvariance == BusSpec => []BusInv
  BY InvInit, InvStep, PTL DEF BusSpec

(* The invariant implies GapFree: the cursor has passed the last event sent. *)
LEMMA InvGapFree == BusInv => GapFree
<1> SUFFICES ASSUME BusInv, NEW s \in Subs
             PROVE /\ \A k \in 1..Len(sent[s]) :
                         /\ sent[s][k] \in (start[s] + 1)..Len(log)
                         /\ Matches(s, log[sent[s][k]])
                         /\ \A j \in 1..(k - 1) : sent[s][j] < sent[s][k]
                   /\ \A i \in (start[s] + 1)..LastSent(s) :
                         Matches(s, log[i])
                           => \E k \in 1..Len(sent[s]) : sent[s][k] = i
  BY DEF GapFree
<1>1. BusTypeOK /\ SubInv(s)
  BY DEF BusInv
<1>2. next[s] <= Len(log)
  BY <1>1 DEF SubInv, Cursors
<1>3. \A k \in 1..Len(sent[s]) :
         /\ sent[s][k] \in (start[s] + 1)..next[s]
         /\ Matches(s, log[sent[s][k]])
         /\ \A j \in 1..(k - 1) : sent[s][j] < sent[s][k]
  BY <1>1 DEF SubInv, SentOK
<1>4. \A k \in 1..Len(sent[s]) : sent[s][k] \in (start[s] + 1)..Len(log)
  BY <1>1, <1>2, <1>3, SubTypes
<1>5. ASSUME NEW i \in (start[s] + 1)..LastSent(s), Matches(s, log[i])
      PROVE  \E k \in 1..Len(sent[s]) : sent[s][k] = i
  <2>1. CASE sent[s] = <<>>
    BY <2>1, <1>1, SubTypes DEF LastSent
  <2>2. CASE sent[s] # <<>>
    <3> DEFINE n == Len(sent[s])
    <3>1. n \in 1..n /\ LastSent(s) = sent[s][n]
      BY <2>2, <1>1, SubTypes DEF LastSent
    <3>2. sent[s][n] \in (start[s] + 1)..next[s]
      BY <3>1, <1>3
    <3>3. i \in (start[s] + 1)..next[s] /\ (i = next[s] => i = sent[s][n])
      BY <3>1, <3>2, <1>1, SubTypes
    <3> QED
      BY <3>1, <3>3, <1>5, <1>1 DEF SubInv, Covered
  <2> QED
    BY <2>1, <2>2
<1> QED
  BY <1>3, <1>4, <1>5

(* Every subscriber receives exactly the matching events since its call, up to
   the last one it received, in order, whatever the ring's capacity. *)
THEOREM BusGapFree == BusSpec => []GapFree
  BY BusInvariance, InvGapFree, PTL

(* A subscription ends by itself only when the ring has overrun it, and only
   after yielding everything forwarded before. *)
THEOREM BusEndMeansOverrun == BusSpec => []EndMeansOverrun
<1>1. BusInv => EndMeansOverrun
  BY DEF BusInv, SubInv, Ends, EndMeansOverrun, TxGone
<1> QED
  BY <1>1, BusInvariance, PTL

(* The refinement mapping of Feed, named. *)
FeedPos == [s \in Subs |-> IF taken[s] = 0 THEN start[s] ELSE sent[s][taken[s]]]
FeedStatus == [s \in Subs |->
    IF iter[s] = "none" THEN "new"
    ELSE IF iter[s] \in {"ended", "closed", "dropped"} THEN "over" ELSE "open"]

(* In an increasing sequence nothing lies between two neighbours. *)
LEMMA Neighbours ==
  ASSUME NEW q \in Seq(Nat), NEW t \in Nat, t + 1 \in 1..Len(q),
         NEW a \in Nat, NEW b \in Nat,
         \A k \in 1..Len(q) : q[k] \in (a + 1)..b,
         \A k \in 1..Len(q) : \A j \in 1..(k - 1) : q[j] < q[k],
         NEW p, p = IF t = 0 THEN a ELSE q[t]
  PROVE  /\ p \in Nat /\ a <= p /\ p < q[t + 1] /\ q[t + 1] \in (a + 1)..b
         /\ \A k \in 1..Len(q) : ~(p < q[k] /\ q[k] < q[t + 1])
<1>0. Len(q) \in Nat
  OBVIOUS
<1>1. q[t + 1] \in (a + 1)..b /\ q[t + 1] \in Nat
  OBVIOUS
<1>2. p \in Nat /\ a <= p /\ p < q[t + 1]
  <2>1. CASE t = 0
    BY <2>1, <1>1
  <2>2. CASE t # 0
    <3>1. t \in 1..Len(q) /\ t \in 1..(t + 1 - 1)
      BY <2>2, <1>0
    <3>2. q[t] \in (a + 1)..b /\ q[t] < q[t + 1]
      BY <3>1
    <3> QED
      BY <2>2, <3>2
  <2> QED
    BY <2>1, <2>2
<1>3. ASSUME NEW k \in 1..Len(q), p < q[k], q[k] < q[t + 1] PROVE FALSE
  <2>0. q[k] \in Nat
    OBVIOUS
  <2>1. CASE k > t + 1
    <3>1. t + 1 \in 1..(k - 1)
      BY <2>1, <1>0
    <3>2. q[t + 1] < q[k]
      BY <3>1
    <3> QED
      BY <3>2, <2>0, <1>1, <1>3
  <2>2. CASE k = t + 1
    BY <2>2, <1>1, <1>3
  <2>3. CASE k = t
    <3>1. p = q[k]
      BY <2>3
    <3> QED
      BY <3>1, <2>0, <1>3
  <2>4. CASE k < t
    <3>1. k \in 1..(t - 1) /\ t \in 1..Len(q) /\ t # 0
      BY <2>4, <1>0
    <3>2. q[k] < q[t] /\ p = q[t]
      BY <3>1
    <3> QED
      BY <3>2, <2>0, <1>2, <1>3
  <2> QED
    BY <2>1, <2>2, <2>3, <2>4, <1>0
<1> QED
  BY <1>1, <1>2, <1>3

(* Yielding an event hands over the first wanted one after the previous. *)
LEMMA YieldDelivers ==
  ASSUME BusInv, NEW s \in Subs, IterYield(s)
  PROVE  Feed!FeedDeliver(s)
<1> DEFINE t == taken[s]
           i == sent[s][t + 1]
           p == FeedPos[s]
<1>1. BusTypeOK /\ SubInv(s)
  BY DEF BusInv
<1>2. /\ t + 1 \in 1..Len(sent[s]) /\ t \in Nat /\ start[s] \in Nat
      /\ sent[s] \in Seq(Nat) /\ next[s] \in Nat /\ Len(log) \in Nat
  BY <1>1, SubTypes DEF IterYield
<1>3. /\ \A k \in 1..Len(sent[s]) : sent[s][k] \in (start[s] + 1)..next[s]
      /\ \A k \in 1..Len(sent[s]) : Matches(s, log[sent[s][k]])
      /\ \A k \in 1..Len(sent[s]) : \A j \in 1..(k - 1) : sent[s][j] < sent[s][k]
      /\ next[s] <= Len(log)
  BY <1>1 DEF SubInv, SentOK, Cursors
<1>4. p = IF t = 0 THEN start[s] ELSE sent[s][t]
  BY DEF FeedPos
<1>5. \A j \in (start[s] + 1)..next[s] :
        Matches(s, log[j]) /\ j # next[s] => \E k \in 1..Len(sent[s]) : sent[s][k] = j
  BY <1>1 DEF SubInv, Covered
<1>6. Matches(s, log[i])
  BY <1>2, <1>3
<1>7. FeedPos' = [FeedPos EXCEPT ![s] = i]
  <2>1. taken' = [taken EXCEPT ![s] = t + 1] /\ sent' = sent /\ start' = start
        /\ taken \in [Subs -> Nat]
    BY <1>1 DEF IterYield, BusTypeOK
  <2>2. \A r \in Subs : FeedPos'[r] = IF r = s THEN i ELSE FeedPos[r]
    BY <2>1, <1>2 DEF FeedPos
  <2> QED
    BY <2>2 DEF FeedPos
<1>8. FeedStatus[s] = "open" /\ FeedStatus' = FeedStatus
  BY <1>1 DEF FeedStatus, IterYield, BusTypeOK
<1>9. log' = log /\ pattern' = pattern
  BY DEF IterYield
<1> HIDE DEF t, p
<1>10. /\ p \in Nat /\ start[s] <= p /\ p < i /\ i \in (start[s] + 1)..next[s]
       /\ \A k \in 1..Len(sent[s]) : ~(p < sent[s][k] /\ sent[s][k] < i)
  BY <1>2, <1>3, <1>4, Neighbours
<1> HIDE DEF i
<1>11. i \in (p + 1)..Len(log)
  BY <1>2, <1>3, <1>10
<1>12. ASSUME NEW j \in (p + 1)..(i - 1) PROVE ~Matches(s, log[j])
  <2>1. j \in (start[s] + 1)..next[s] /\ j < i /\ p < j /\ j # next[s]
    BY <1>2, <1>10
  <2> QED
    BY <2>1, <1>5, <1>10
<1>13. \E e \in (p + 1)..Len(log) :
         /\ Matches(s, log[e])
         /\ \A j \in (p + 1)..(e - 1) : ~Matches(s, log[j])
         /\ FeedPos' = [FeedPos EXCEPT ![s] = e]
  BY <1>6, <1>7, <1>11, <1>12
<1> QED
  BY <1>8, <1>9, <1>13 DEF Feed!FeedDeliver, Feed!Wanted, Matches, FeedPos, FeedStatus, p

(* Every step of the bus is a step of the feeds or invisible to them. *)
LEMMA FeedStep ==
  BusInv /\ [BusNext]_busVars => [Feed!FeedNext]_(Feed!feedVars)
<1> SUFFICES ASSUME BusInv, [BusNext]_busVars
             PROVE  [Feed!FeedNext]_(Feed!feedVars)
  OBVIOUS
<1> DEFINE Still == log' = log /\ pattern' = pattern /\ FeedPos' = FeedPos
                    /\ FeedStatus' = FeedStatus
<1>0. Still => UNCHANGED Feed!feedVars
  BY DEF Feed!feedVars, FeedPos, FeedStatus
<1>1. BusTypeOK /\ \A s \in Subs : SubInv(s)
  BY DEF BusInv
<1>2. CASE UNCHANGED busVars
  BY <1>2, <1>0 DEF busVars, FeedPos, FeedStatus
<1>3. ASSUME NEW t \in Topics, Publish(t) PROVE [Feed!FeedNext]_(Feed!feedVars)
  <2>1. pattern' = pattern /\ FeedPos' = FeedPos /\ FeedStatus' = FeedStatus
    BY <1>3 DEF Publish, FeedPos, FeedStatus
  <2>2. log' = log \/ log' = Append(log, t)
    BY <1>3 DEF Publish
  <2>3. CASE log' = log
    BY <2>1, <2>3, <1>0
  <2>4. CASE log' = Append(log, t)
    BY <2>1, <2>4 DEF Feed!FeedNext, Feed!FeedPublish, FeedPos, FeedStatus
  <2> QED
    BY <2>2, <2>3, <2>4
<1>4. ASSUME NEW s \in Subs, NEW p \in Patterns \cup {NoPattern}, Subscribe(s, p)
      PROVE  [Feed!FeedNext]_(Feed!feedVars)
  <2>1. taken[s] = 0
    BY <1>1, <1>4, SubTypes DEF Subscribe, SubInv, Cursors
  <2>2. /\ FeedStatus[s] = "new" /\ FeedStatus' = [FeedStatus EXCEPT ![s] = "open"]
        /\ FeedPos' = [FeedPos EXCEPT ![s] = Len(log)]
    BY <1>1, <1>4, <2>1 DEF Subscribe, FeedStatus, FeedPos, BusTypeOK
  <2>3. log' = log /\ pattern' = [pattern EXCEPT ![s] = p]
    BY <1>4 DEF Subscribe
  <2>4. Feed!FeedOpen(s)
    BY <2>2, <2>3 DEF Feed!FeedOpen, FeedPos, FeedStatus
  <2> QED
    BY <2>4 DEF Feed!FeedNext
<1>5. ASSUME NEW s \in Subs, Forwarder(s) PROVE [Feed!FeedNext]_(Feed!feedVars)
  <2>1. /\ log' = log /\ pattern' = pattern /\ start' = start /\ iter' = iter
        /\ taken' = taken
    BY <1>5 DEF Forwarder, ForwarderStart, RecvSkip, RecvMatch, RecvLagged, ForwardSend
  <2>2. ASSUME NEW r \in Subs, taken[r] # 0 PROVE sent'[r][taken[r]] = sent[r][taken[r]]
    <3>1. CASE sent' = sent
      BY <3>1
    <3>2. CASE sent' = [sent EXCEPT ![s] = Append(@, next[s])]
      <4>1. taken[r] \in 1..Len(sent[r]) /\ sent[r] \in Seq(Nat) /\ next[r] \in Nat
        BY <2>2, <1>1, SubTypes DEF SubInv, Cursors
      <4>2. sent'[r] = sent[r] \/ sent'[r] = Append(sent[r], next[r])
        BY <3>2, <1>1 DEF BusTypeOK
      <4> QED
        BY <4>1, <4>2
    <3> QED
      BY <3>1, <3>2, <1>5
      DEF Forwarder, ForwarderStart, RecvSkip, RecvMatch, RecvLagged, ForwardSend
  <2>3. FeedPos' = FeedPos /\ FeedStatus' = FeedStatus
    BY <2>1, <2>2 DEF FeedPos, FeedStatus
  <2> QED
    BY <2>1, <2>3, <1>0
<1>6. ASSUME NEW s \in Subs, Iterator(s) \/ Pull(s) \/ Drop(s)
      PROVE  [Feed!FeedNext]_(Feed!feedVars)
  <2>1. CASE IterYield(s)
    BY <2>1, YieldDelivers DEF Feed!FeedNext
  <2>2. CASE ~IterYield(s)
    <3>1. /\ log' = log /\ pattern' = pattern /\ FeedPos' = FeedPos
      BY <1>6, <2>2 DEF Iterator, IterCheck, IterTimeout, IterDisconnected,
         Pull, Drop, FeedPos
    <3>2. \/ FeedStatus' = FeedStatus
          \/ FeedStatus[s] = "open" /\ FeedStatus' = [FeedStatus EXCEPT ![s] = "over"]
      <4>1. PICK x \in IterStates : iter' = [iter EXCEPT ![s] = x]
        <5>1. CASE interrupted
          BY <1>6, <2>2, <5>1 DEF Iterator, IterCheck, IterTimeout,
             IterDisconnected, Pull, Drop, IterStates
        <5>2. CASE ~interrupted
          BY <1>6, <2>2, <5>2 DEF Iterator, IterCheck, IterTimeout,
             IterDisconnected, Pull, Drop, IterStates
        <5> QED
          BY <5>1, <5>2
      <4>2. \/ iter[s] \in {"body", "check", "wait"} /\ x # "none"
            \/ iter[s] = "ended" /\ x = "closed"
        <5>1. CASE interrupted
          BY <1>1, <1>6, <2>2, <4>1, <5>1 DEF Iterator, IterCheck, IterTimeout,
             IterDisconnected, Pull, Drop, BusTypeOK
        <5>2. CASE ~interrupted
          BY <1>1, <1>6, <2>2, <4>1, <5>2 DEF Iterator, IterCheck, IterTimeout,
             IterDisconnected, Pull, Drop, BusTypeOK
        <5> QED
          BY <5>1, <5>2
      <4> QED
        BY <4>1, <4>2, <1>1 DEF FeedStatus, BusTypeOK
    <3>3. CASE FeedStatus' = FeedStatus
      BY <3>1, <3>3, <1>0
    <3>4. CASE FeedStatus[s] = "open" /\ FeedStatus' = [FeedStatus EXCEPT ![s] = "over"]
      BY <3>1, <3>4 DEF Feed!FeedNext, Feed!FeedOver, FeedPos, FeedStatus
    <3> QED
      BY <3>2, <3>3, <3>4
  <2> QED
    BY <2>1, <2>2
<1>7. CASE Interrupt
  BY <1>7, <1>0 DEF Interrupt, FeedPos, FeedStatus
<1> QED
  BY <1>2, <1>3, <1>4, <1>5, <1>6, <1>7 DEF BusNext

(* The bus implements the abstract feed, for every value of the constants. *)
THEOREM BusImplementsFeed == BusSpec => ImplementsFeed
<1>1. BusInit => Feed!FeedInit
  BY DEF BusInit, Feed!FeedInit
<1> QED
  BY <1>1, FeedStep, BusInvariance, PTL DEF BusSpec, ImplementsFeed, Feed!FeedSpec
=============================================================================
