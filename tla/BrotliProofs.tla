---------------------------- MODULE BrotliProofs ----------------------------
(***************************************************************************)
(* Proofs about Brotli for every budget, every number of chunks and every  *)
(* choice the encoder makes of what to hold back.                          *)
(***************************************************************************)
EXTENDS Brotli, SequenceTheorems, TLAPS

(* The chunks the client has received, as long as the end mark has not left. *)
Chunks == IF out = <<>> THEN 0 ELSE Len(out) - 1

(* The end mark has left the encoder: all of an orderly end is there. *)
Whole ==
  finished /\ poll # "error" =>
    /\ poll \in {"idle", "closed", "gone"} /\ inner = "ended"
    /\ accepted = made /\ Len(out) = made + 2 /\ out[made + 2] = End
    /\ \A i \in 1..(made + 1) : out[i] = i - 1

(* Until then, and for ever when the stream fails, the client has the header
   and a prefix of the chunks, no more than a budget behind. *)
Prefix ==
  ~finished \/ poll = "error" =>
    /\ poll # "closed"
    /\ \A i \in 1..Len(out) : out[i] = i - 1
    /\ Len(out) <= accepted + 1 /\ accepted - Chunks <= DRAIN_BUDGET

(* Between polls the encoder holds nothing back. *)
Between ==
  ~finished /\ poll \in {"idle", "parked"} =>
    /\ buf = <<>> /\ (~started => accepted = 0)
    /\ Len(out) = IF started THEN accepted + 1 ELSE 0

(* o items are out, c accumulated and b held back after `a` chunks: together
   they are the header and those chunks. *)
InOrder(a, st, o, c, b) ==
  /\ \A i \in 1..Len(c) : c[i] = o + i - 1
  /\ \A i \in 1..Len(b) : b[i] = a - Len(b) + i
  /\ st => o + Len(c) + Len(b) = a + 1
  /\ ~st => o = 0 /\ Len(c) = 0 /\ Len(b) = a

(* Within a poll nothing is lost between the source and the client. *)
Within ==
  poll = "polling" =>
    /\ ~finished /\ drained < DRAIN_BUDGET /\ accepted = Chunks + drained
    /\ InOrder(accepted, started, Len(out), acc, buf)

BrInv == BrTypeOK /\ Whole /\ Prefix /\ Between /\ Within

(* The header, where it is still to leave the encoder. *)
Pre(st) == IF st THEN <<>> ELSE <<Header>>

(* Facts every step below uses. *)
LEMMA BrTypes ==
  ASSUME BrTypeOK
  PROVE  /\ DRAIN_BUDGET \in Nat /\ DRAIN_BUDGET > 0 /\ MaxChunks \in Nat
         /\ made \in Nat /\ made <= MaxChunks /\ accepted \in Nat /\ accepted <= made
         /\ buf \in Seq(Items) /\ acc \in Seq(Items) /\ out \in Seq(Items)
         /\ Len(buf) \in Nat /\ Len(acc) \in Nat /\ Len(out) \in Nat
         /\ drained \in Nat /\ drained <= DRAIN_BUDGET
         /\ started \in BOOLEAN /\ finished \in BOOLEAN
         /\ Header \in Items /\ End \in Items /\ Header = 0 /\ End = MaxChunks + 1
         /\ Items \subseteq Int /\ (\A v \in 1..made : v \in Items)
<1>1. DRAIN_BUDGET \in Nat /\ DRAIN_BUDGET > 0 /\ MaxChunks \in Nat
  BY BudgetAssumption
<1>2. made \in Nat /\ made <= MaxChunks /\ accepted \in Nat /\ accepted <= made
  BY <1>1 DEF BrTypeOK
<1>3. /\ Header \in Items /\ End \in Items /\ Header = 0 /\ End = MaxChunks + 1
      /\ Items \subseteq Int /\ (\A v \in 1..made : v \in Items)
  BY <1>1, <1>2 DEF Header, End, Items
<1> QED
  BY <1>1, <1>2, <1>3 DEF BrTypeOK

LEMMA ChunksNat == BrTypeOK => Chunks \in Nat
<1> SUFFICES ASSUME BrTypeOK PROVE Chunks \in Nat
  OBVIOUS
<1>1. CASE out = <<>>
  BY <1>1 DEF Chunks
<1>2. CASE out # <<>>
  <2>1. Len(out) > 0
    BY <1>2, BrTypes
  <2> QED
    BY <1>2, <2>1, BrTypes DEF Chunks
<1> QED
  BY <1>1, <1>2

(* Flushing: what was accumulated, the header if it is due, and all that is
   held back continue what is out, up to the last chunk. *)
LEMMA Flushed ==
  ASSUME NEW S, NEW a \in Nat, NEW st \in BOOLEAN, NEW o \in Nat,
         NEW c \in Seq(S), NEW b \in Seq(S), Header \in S, InOrder(a, st, o, c, b)
  PROVE  LET d == c \o Pre(st) \o b
         IN  /\ d \in Seq(S) /\ Len(d) \in Nat /\ o + Len(d) = a + 1
             /\ \A i \in 1..Len(d) : d[i] = o + i - 1
<1> DEFINE h == Pre(st)
<1> DEFINE cd == c \o h
<1> DEFINE d == cd \o b
<1>1. /\ h \in Seq(S) /\ Len(h) \in Nat /\ (st => Len(h) = 0)
      /\ ~st => Len(h) = 1 /\ h[1] = 0
  BY DEF Pre, Header
<1>2. /\ Len(c) \in Nat /\ Len(b) \in Nat
      /\ (\A i \in 1..Len(c) : c[i] = o + i - 1)
      /\ (\A i \in 1..Len(b) : b[i] = a - Len(b) + i)
      /\ (st => o + Len(c) + Len(b) = a + 1)
      /\ (~st => o = 0 /\ Len(c) = 0 /\ Len(b) = a)
  BY DEF InOrder
<1> HIDE DEF h
<1>3. /\ cd \in Seq(S) /\ Len(cd) = Len(c) + Len(h)
      /\ \A i \in 1..(Len(c) + Len(h)) : cd[i] = IF i <= Len(c) THEN c[i] ELSE h[i - Len(c)]
  BY <1>1, ConcatProperties
<1> HIDE DEF cd
<1>4. /\ d \in Seq(S) /\ Len(d) = Len(cd) + Len(b)
      /\ \A i \in 1..(Len(cd) + Len(b)) : d[i] = IF i <= Len(cd) THEN cd[i] ELSE b[i - Len(cd)]
  <2>1. cd \in Seq(S)
    BY <1>3
  <2> QED
    BY <2>1, ConcatProperties, Zenon
<1> HIDE DEF d
<1>5. Len(d) \in Nat /\ o + Len(d) = a + 1
  <2>1. Len(d) = Len(c) + Len(h) + Len(b)
    BY <1>3, <1>4
  <2>2. o + (Len(c) + Len(h) + Len(b)) = a + 1
    <3>0. Len(c) \in Nat /\ Len(b) \in Nat /\ Len(h) \in Nat
      BY <1>1, <1>2
    <3>1. CASE st
      <4>1. Len(h) = 0 /\ o + Len(c) + Len(b) = a + 1
        BY <1>1, <1>2, <3>1
      <4> QED
        BY <3>0, <4>1
    <3>2. CASE ~st
      <4>1. Len(h) = 1 /\ o = 0 /\ Len(c) = 0 /\ Len(b) = a
        BY <1>1, <1>2, <3>2
      <4> QED
        BY <4>1
    <3> QED
      BY <3>1, <3>2
  <2> QED
    BY <1>1, <1>2, <2>1, <2>2
<1>6. \A i \in 1..Len(d) : d[i] = o + i - 1
  <2>1. CASE st
    <3>1. Len(cd) = Len(c) /\ \A i \in 1..Len(c) : cd[i] = c[i]
      BY <1>1, <1>2, <1>3, <2>1
    <3>2. ASSUME NEW i \in 1..Len(d) PROVE d[i] = o + i - 1
      <4>1. CASE i <= Len(c)
        <5>1. i \in 1..Len(c) /\ d[i] = cd[i]
          BY <1>2, <1>4, <3>1, <4>1
        <5> QED
          BY <1>2, <3>1, <5>1
      <4>2. CASE ~(i <= Len(c))
        <5>1. i - Len(c) \in 1..Len(b) /\ d[i] = b[i - Len(c)]
          BY <1>2, <1>4, <3>1, <4>2
        <5>2. b[i - Len(c)] = a - Len(b) + (i - Len(c))
          BY <1>2, <5>1
        <5>3. o + Len(c) + Len(b) = a + 1
          BY <1>2, <2>1
        <5>4. a - Len(b) + (i - Len(c)) = o + i - 1
          <6>1. Len(c) \in Nat /\ Len(b) \in Nat /\ i \in Int
            BY <1>2, <1>5
          <6> QED
            BY <5>3, <6>1
        <5> QED
          BY <5>1, <5>2, <5>4
      <4> QED
        BY <4>1, <4>2
    <3> QED
      BY <3>2
  <2>2. CASE ~st
    <3>0. Len(h) = 1 /\ h[1] = 0 /\ o = 0 /\ Len(c) = 0
      BY <1>1, <1>2, <2>2
    <3>1. Len(cd) = 1 /\ cd[1] = 0 /\ o = 0
      BY <1>3, <3>0
    <3>2. ASSUME NEW i \in 1..Len(d) PROVE d[i] = o + i - 1
      <4>1. CASE i = 1
        BY <1>2, <1>4, <3>1, <4>1
      <4>2. CASE i # 1
        <5>1. i - 1 \in 1..Len(b) /\ d[i] = b[i - 1]
          BY <1>2, <1>4, <3>1, <4>2
        <5>2. b[i - 1] = a - Len(b) + (i - 1) /\ Len(b) = a
          BY <1>2, <2>2, <5>1
        <5> QED
          BY <1>2, <3>1, <5>1, <5>2
      <4> QED
        BY <4>1, <4>2
    <3> QED
      BY <3>2
  <2> QED
    BY <2>1, <2>2
<1> QED
  BY <1>4, <1>5, <1>6 DEF d, cd, h

(* What a frame hands over continues what the client has. *)
LEMMA Handed ==
  ASSUME NEW S, NEW u \in Seq(S), NEW d \in Seq(S),
         \A i \in 1..Len(u) : u[i] = i - 1,
         \A i \in 1..Len(d) : d[i] = Len(u) + i - 1
  PROVE  /\ u \o d \in Seq(S) /\ Len(u \o d) = Len(u) + Len(d) /\ Len(u) \in Nat /\ Len(d) \in Nat
         /\ \A i \in 1..Len(u \o d) : (u \o d)[i] = i - 1
<1>1. /\ u \o d \in Seq(S) /\ Len(u \o d) = Len(u) + Len(d) /\ Len(u) \in Nat /\ Len(d) \in Nat
      /\ \A i \in 1..(Len(u) + Len(d)) : (u \o d)[i] = IF i <= Len(u) THEN u[i] ELSE d[i - Len(u)]
  BY ConcatProperties
<1>2. ASSUME NEW i \in 1..(Len(u) + Len(d)) PROVE (u \o d)[i] = i - 1
  <2>1. CASE i <= Len(u)
    BY <1>1, <2>1
  <2>2. CASE ~(i <= Len(u))
    <3>1. i - Len(u) \in 1..Len(d) /\ (u \o d)[i] = d[i - Len(u)]
      BY <1>1, <2>2
    <3>2. d[i - Len(u)] = Len(u) + (i - Len(u)) - 1
      BY <3>1
    <3> QED
      BY <1>1, <3>1, <3>2
  <2> QED
    BY <2>1, <2>2
<1> QED
  BY <1>1, <1>2

(* Joining is associative. *)
LEMMA Regroup ==
  ASSUME NEW S, NEW s \in Seq(S), NEW t \in Seq(S), NEW u \in Seq(S)
  PROVE  (s \o t) \o u = s \o (t \o u)
  OBVIOUS

(* One more chunk in the encoder. *)
LEMMA Given ==
  ASSUME NEW S, NEW a \in Nat, NEW st \in BOOLEAN, NEW o \in Nat,
         NEW c \in Seq(S), NEW b \in Seq(S), a + 1 \in S, InOrder(a, st, o, c, b)
  PROVE  Append(b, a + 1) \in Seq(S) /\ InOrder(a + 1, st, o, c, Append(b, a + 1))
<1> DEFINE h == Append(b, a + 1)
<1>1. /\ h \in Seq(S) /\ Len(h) = Len(b) + 1 /\ Len(b) \in Nat /\ Len(c) \in Nat
      /\ \A i \in 1..Len(b) : h[i] = b[i]
      /\ h[Len(b) + 1] = a + 1
  OBVIOUS
<1>2. /\ \A i \in 1..Len(c) : c[i] = o + i - 1
      /\ \A i \in 1..Len(b) : b[i] = a - Len(b) + i
      /\ st => o + Len(c) + Len(b) = a + 1
      /\ ~st => o = 0 /\ Len(c) = 0 /\ Len(b) = a
  BY DEF InOrder
<1> HIDE DEF h
<1>3. ASSUME NEW i \in 1..Len(h) PROVE h[i] = (a + 1) - Len(h) + i
  <2>1. CASE i = Len(b) + 1
    BY <1>1, <2>1
  <2>2. CASE i \in 1..Len(b)
    BY <1>1, <1>2, <2>2
  <2> QED
    BY <1>1, <2>1, <2>2
<1>4. st => o + Len(c) + Len(h) = (a + 1) + 1
  <2>1. ASSUME o + Len(c) + Len(b) = a + 1 PROVE o + Len(c) + (Len(b) + 1) = (a + 1) + 1
    BY <1>1, <2>1
  <2> QED
    BY <1>1, <1>2, <2>1
<1>5. ~st => o = 0 /\ Len(c) = 0 /\ Len(h) = a + 1
  BY <1>1, <1>2
<1>6. InOrder(a + 1, st, o, c, h)
  BY <1>2, <1>3, <1>4, <1>5 DEF InOrder
<1> QED
  BY <1>1, <1>6 DEF h

(* PROCESS: whatever part of its buffer the encoder lets go. *)
LEMMA Processed ==
  ASSUME NEW S, NEW a \in Nat, NEW st \in BOOLEAN, NEW o \in Nat,
         NEW c \in Seq(S), NEW b \in Seq(S), Header \in S, InOrder(a, st, o, c, b),
         NEW n \in 0..Len(b)
  PROVE  LET e == (IF st \/ n = 0 THEN <<>> ELSE <<Header>>) \o SubSeq(b, 1, n)
             r == SubSeq(b, n + 1, Len(b))
         IN  c \o e \in Seq(S) /\ r \in Seq(S) /\ InOrder(a, st \/ n > 0, o, c \o e, r)
<1> DEFINE x == SubSeq(b, 1, n)
<1> DEFINE h == IF st \/ n = 0 THEN <<>> ELSE <<Header>>
<1> DEFINE r == SubSeq(b, n + 1, Len(b))
<1>0. Len(c) \in Nat /\ Len(b) \in Nat /\ n \in Nat /\ n <= Len(b)
  OBVIOUS
<1>1. /\ \A i \in 1..Len(c) : c[i] = o + i - 1
      /\ \A i \in 1..Len(b) : b[i] = a - Len(b) + i
      /\ st => o + Len(c) + Len(b) = a + 1
      /\ ~st => o = 0 /\ Len(c) = 0 /\ Len(b) = a
  BY DEF InOrder
<1>2. x \in Seq(S) /\ Len(x) = n /\ \A i \in 1..n : x[i] = b[i]
  BY <1>0, SubSeqProperties
<1>3. r \in Seq(S) /\ Len(r) = Len(b) - n /\ \A i \in 1..Len(r) : r[i] = b[n + i]
  BY <1>0, SubSeqProperties
<1>4. h \in Seq(S) /\ (n > 0 => h = Pre(st)) /\ (n = 0 => h = <<>>)
  BY <1>0 DEF Pre
<1> HIDE DEF x, h, r
<1>5. \A i \in 1..Len(r) : r[i] = a - Len(r) + i
  <2>1. ASSUME NEW i \in 1..Len(r) PROVE r[i] = a - Len(r) + i
    <3>1. n + i \in 1..Len(b) /\ r[i] = b[n + i] /\ i \in Int
      BY <1>0, <1>3
    <3>2. b[n + i] = a - Len(b) + (n + i)
      BY <1>1, <3>1
    <3>3. a - Len(b) + (n + i) = a - Len(r) + i
      BY <1>0, <1>3, <3>1
    <3> QED
      BY <3>1, <3>2, <3>3
  <2> QED
    BY <2>1
<1>6. CASE n = 0
  <2>1. x = <<>> /\ h \o x = <<>> /\ c \o (h \o x) = c
    <3>1. x = <<>>
      BY <1>2, <1>6, EmptySeq
    <3>2. h \o x = <<>>
      BY <1>2, <1>4, <1>6, <3>1, ConcatEmptySeq
    <3> QED
      BY <3>1, <3>2, ConcatEmptySeq
  <2>2. Len(r) = Len(b) /\ ((st \/ n > 0) <=> st)
    BY <1>0, <1>3, <1>6
  <2>3. InOrder(a, st \/ n > 0, o, c, r)
    BY <1>1, <1>5, <2>2 DEF InOrder
  <2> QED
    BY <1>3, <2>1, <2>3 DEF x, h, r
<1>7. CASE n > 0
  <2> DEFINE k == a - (Len(b) - n)
  <2>1. Len(b) <= a + 1
    <3>1. CASE st
      <4>1. o + Len(c) + Len(b) = a + 1
        BY <1>1, <3>1
      <4> QED
        BY <1>0, <4>1
    <3>2. CASE ~st
      BY <1>0, <1>1, <3>2
    <3> QED
      BY <3>1, <3>2
  <2>2. k \in Nat /\ k + Len(r) = a /\ k - n = a - Len(b)
    BY <1>0, <1>3, <1>7, <2>1
  <2>3. InOrder(k, st, o, c, x)
    <3>1. ASSUME NEW i \in 1..Len(x) PROVE x[i] = k - Len(x) + i
      <4>0. i \in 1..n /\ i \in 1..Len(b)
        BY <1>0, <1>2
      <4>1. x[i] = a - Len(b) + i
        BY <1>1, <1>2, <4>0
      <4> QED
        BY <1>2, <2>2, <4>1
    <3>2. st => o + Len(c) + Len(x) = k + 1
      <4>1. ASSUME o + Len(c) + Len(b) = a + 1 PROVE o + Len(c) + n = k + 1
        BY <1>0, <2>2, <4>1
      <4> QED
        BY <1>1, <1>2, <4>1
    <3>3. ~st => o = 0 /\ Len(c) = 0 /\ Len(x) = k
      <4>1. ASSUME Len(b) = a PROVE n = k
        BY <1>0, <2>2, <4>1
      <4> QED
        BY <1>1, <1>2, <4>1
    <3> QED
      BY <1>1, <3>1, <3>2, <3>3 DEF InOrder
  <2> HIDE DEF k
  <2>4. c \o (h \o x) = c \o Pre(st) \o x
    <3>1. h \in Seq(S) /\ h = Pre(st) /\ x \in Seq(S)
      BY <1>2, <1>4, <1>7
    <3>2. (c \o h) \o x = c \o (h \o x)
      <4>1. h \in Seq(S) /\ x \in Seq(S)
        BY <3>1
      <4> QED
        BY <4>1, Regroup
    <3> QED
      BY <3>1, <3>2
  <2> DEFINE d == c \o Pre(st) \o x
  <2>5. /\ d \in Seq(S) /\ Len(d) \in Nat /\ o + Len(d) = k + 1
        /\ \A i \in 1..Len(d) : d[i] = o + i - 1
    <3>1. k \in Nat /\ x \in Seq(S)
      BY <1>2, <2>2
    <3> QED
      BY <2>3, <3>1, Flushed
  <2> HIDE DEF d
  <2>6. o + Len(d) + Len(r) = a + 1
    <3>1. Len(r) \in Int /\ k + Len(r) = a /\ k \in Nat
      BY <1>0, <1>3, <2>2
    <3>2. Len(d) \in Nat /\ o + Len(d) = k + 1
      BY <2>5
    <3> QED
      BY <3>1, <3>2
  <2>7. InOrder(a, st \/ n > 0, o, d, r)
    BY <1>5, <1>7, <2>5, <2>6 DEF InOrder
  <2> QED
    BY <1>3, <2>4, <2>5, <2>7 DEF x, h, r, d
<1> QED
  BY <1>0, <1>6, <1>7

(* The source, a client that leaves, and the ways a poll ends without output. *)
LEMMA QuietKeeps ==
  ASSUME BrInv,
         \/ Produce \/ SourceStops("ended") \/ SourceStops("failed") \/ Gone
         \/ PollFinished \/ PollError \/ EncodeFails
  PROVE  BrInv'
<1>0. BrTypeOK /\ Whole /\ Prefix /\ Between /\ Within
  BY DEF BrInv
<1>1. UNCHANGED <<accepted, buf, started, acc, drained, out>> /\ Chunks' = Chunks
  BY DEF Produce, SourceStops, Gone, PollFinished, PollError, EncodeFails, encVars, Chunks
<1>2. /\ made' \in Nat /\ made <= made' /\ made' <= MaxChunks
      /\ \/ inner = "open" /\ poll' = poll /\ finished' = finished
         \/ made' = made /\ inner' = inner /\ poll \in {"idle", "parked"} /\ poll' = "gone" /\ finished' = finished
         \/ made' = made /\ inner' = inner /\ poll = "idle" /\ finished /\ poll' = "closed" /\ finished' = finished
         \/ made' = made /\ inner' = inner /\ poll = "polling" /\ poll' = "error"
  BY <1>0, BrTypes DEF Produce, SourceStops, Gone, PollFinished, PollError, EncodeFails
<1>3. BrTypeOK'
  <2>1. accepted \in 0..made'
    BY <1>0, <1>2, BrTypes
  <2>2. made' \in 0..MaxChunks
    BY <1>0, <1>2, BrTypes
  <2>3. /\ inner' \in {"open", "ended", "failed"} /\ woken' \in BOOLEAN /\ finished' \in BOOLEAN
        /\ poll' \in {"idle", "polling", "parked", "closed", "error", "gone"}
    BY <1>0 DEF BrTypeOK, Produce, SourceStops, Gone, PollFinished, PollError, EncodeFails
  <2> QED
    BY <1>0, <1>1, <2>1, <2>2, <2>3 DEF BrTypeOK
<1>4. Whole'
  <2>1. CASE inner = "open" /\ poll' = poll /\ finished' = finished
    BY <1>0, <2>1 DEF Whole
  <2>2. CASE made' = made /\ inner' = inner
    BY <1>0, <1>1, <1>2, <2>2 DEF Whole
  <2> QED
    BY <1>2, <2>1, <2>2
<1>5. poll = "polling" => ~finished
  BY <1>0 DEF Within
<1>6. Prefix'
  <2>1. ~finished' \/ poll' = "error" => (~finished \/ poll = "error") /\ poll' # "closed"
    BY <1>0, <1>2, <1>5 DEF Prefix
  <2> QED
    BY <1>0, <1>1, <2>1 DEF Prefix
<1>7. Between'
  BY <1>0, <1>1, <1>2 DEF Between
<1>8. Within'
  BY <1>0, <1>1, <1>2 DEF Within
<1> QED
  BY <1>3, <1>4, <1>6, <1>7, <1>8 DEF BrInv

(* A poll begins with an empty accumulator. *)
LEMMA StartKeeps == BrInv /\ PollStarts => BrInv'
<1> SUFFICES ASSUME BrInv, PollStarts PROVE BrInv'
  OBVIOUS
<1>0. BrTypeOK /\ Whole /\ Prefix /\ Between /\ Within
  BY DEF BrInv
<1>1. /\ UNCHANGED <<made, inner, woken, accepted, buf, started, finished, out>> /\ Chunks' = Chunks
      /\ poll \in {"idle", "parked"} /\ ~finished /\ poll' = "polling" /\ acc' = <<>> /\ drained' = 0
  BY DEF PollStarts, Chunks
<1>2. BrTypeOK'
  BY <1>0, <1>1, BrTypes DEF BrTypeOK
<1>3. buf = <<>> /\ (~started => accepted = 0) /\ Len(out) = IF started THEN accepted + 1 ELSE 0
  BY <1>0, <1>1 DEF Between
<1>4. accepted = Chunks + 0
  <2>1. CASE started
    <3>1. Len(out) = accepted + 1 /\ out # <<>>
      BY <1>0, <1>3, <2>1, BrTypes
    <3> QED
      BY <1>0, <3>1, BrTypes DEF Chunks
  <2>2. CASE ~started
    <3>1. Len(out) = 0 /\ accepted = 0
      BY <1>3, <2>2
    <3>2. out = <<>>
      BY <1>0, <3>1, BrTypes, EmptySeq
    <3> QED
      BY <3>1, <3>2 DEF Chunks
  <2> QED
    BY <2>1, <2>2
<1>5. InOrder(accepted, started, Len(out), <<>>, <<>>)
  <2>1. started => Len(out) + 0 + 0 = accepted + 1
    BY <1>0, <1>3, BrTypes
  <2>2. ~started => Len(out) = 0 /\ 0 = accepted
    BY <1>3
  <2>3. Len(<<>>) = 0
    OBVIOUS
  <2> QED
    BY <2>1, <2>2, <2>3 DEF InOrder
<1>6. (Whole /\ Prefix /\ Between)'
  BY <1>0, <1>1 DEF Whole, Prefix, Between
<1>7. Within'
  BY <1>0, <1>1, <1>3, <1>4, <1>5, BrTypes DEF Within
<1> QED
  BY <1>2, <1>6, <1>7 DEF BrInv

(* A chunk within the budget: PROCESS only. *)
LEMMA ChunkKeeps == BrInv /\ PollChunk => BrInv'
<1> SUFFICES ASSUME BrInv, PollChunk PROVE BrInv'
  OBVIOUS
<1> DEFINE h == Append(buf, accepted + 1)
<1>0. BrTypeOK /\ Whole /\ Prefix /\ Between /\ Within
  BY DEF BrInv
<1>1. /\ UNCHANGED <<made, inner, woken, poll, finished, out>> /\ Chunks' = Chunks
      /\ poll = "polling" /\ accepted < made /\ drained + 1 < DRAIN_BUDGET
      /\ accepted' = accepted + 1 /\ drained' = drained + 1
  BY DEF PollChunk, Ready, Chunks
<1>2. /\ ~finished /\ accepted = Chunks + drained
      /\ InOrder(accepted, started, Len(out), acc, buf)
  BY <1>0, <1>1 DEF Within
<1>3. h \in Seq(Items) /\ InOrder(accepted + 1, started, Len(out), acc, h)
  <2>1. accepted + 1 \in Items
    BY <1>0, <1>1, BrTypes
  <2> QED
    BY <1>0, <1>2, <2>1, BrTypes, Given
<1>4. PICK n \in 0..Len(h) : /\ acc' = acc \o Emitted(h, n)
                             /\ buf' = SubSeq(h, n + 1, Len(h)) /\ started' = (started \/ n > 0)
  BY DEF PollChunk
<1> HIDE DEF h
<1>5. /\ acc' \in Seq(Items) /\ buf' \in Seq(Items) /\ started' \in BOOLEAN
      /\ InOrder(accepted + 1, started', Len(out), acc', buf')
  <2>1. accepted + 1 \in Nat /\ started \in BOOLEAN /\ Len(out) \in Nat /\ acc \in Seq(Items) /\ Header \in Items
    BY <1>0, BrTypes
  <2> DEFINE e == (IF started \/ n = 0 THEN <<>> ELSE <<Header>>) \o SubSeq(h, 1, n)
  <2> DEFINE r == SubSeq(h, n + 1, Len(h))
  <2>2. acc \o e \in Seq(Items) /\ r \in Seq(Items)
        /\ InOrder(accepted + 1, started \/ n > 0, Len(out), acc \o e, r)
    BY <1>3, <2>1, Processed
  <2>3. acc' = acc \o e /\ buf' = r
    BY <1>4 DEF Emitted
  <2> HIDE DEF e, r
  <2>4. started' \in BOOLEAN
    BY <1>4
  <2> QED
    BY <1>4, <2>2, <2>3, <2>4
<1>6. BrTypeOK'
  <2>1. accepted + 1 \in 0..made /\ drained + 1 \in 0..DRAIN_BUDGET
    BY <1>0, <1>1, BrTypes
  <2> QED
    BY <1>0, <1>1, <1>5, <2>1 DEF BrTypeOK
<1>7. (Whole /\ Between)'
  BY <1>1, <1>2 DEF Whole, Between
<1>8. accepted + 1 = Chunks + (drained + 1) /\ drained + 1 < DRAIN_BUDGET
  BY <1>0, <1>1, <1>2, BrTypes, ChunksNat
<1>9. Prefix'
  <2>1. /\ \A i \in 1..Len(out) : out[i] = i - 1
        /\ Len(out) <= accepted + 1
    BY <1>0, <1>2 DEF Prefix
  <2>2. Len(out) <= (accepted + 1) + 1 /\ (accepted + 1) - Chunks <= DRAIN_BUDGET
    BY <1>0, <1>8, <2>1, BrTypes, ChunksNat
  <2> QED
    BY <1>1, <2>1, <2>2 DEF Prefix
<1>10. Within'
  BY <1>1, <1>2, <1>5, <1>8 DEF Within
<1> QED
  BY <1>6, <1>7, <1>9, <1>10 DEF BrInv

(* A frame after a flush brings the client up to the last chunk. *)
LEMMA Framed ==
  ASSUME BrInv, poll = "polling", NEW a \in Nat, NEW b \in Seq(Items),
         InOrder(a, started, Len(out), acc, b)
  PROVE  LET d == acc \o Pre(started) \o b
         IN  /\ d \in Seq(Items) /\ Len(d) \in Nat /\ Len(out) + Len(d) = a + 1
             /\ out \o d \in Seq(Items) /\ Len(out \o d) = a + 1
             /\ \A i \in 1..(a + 1) : (out \o d)[i] = i - 1
<1> DEFINE d == acc \o Pre(started) \o b
<1>0. BrTypeOK /\ Prefix /\ ~finished
  BY DEF BrInv, Within
<1>1. started \in BOOLEAN /\ Len(out) \in Nat /\ acc \in Seq(Items) /\ out \in Seq(Items) /\ Header \in Items
  BY <1>0, BrTypes
<1>2. /\ d \in Seq(Items) /\ Len(d) \in Nat /\ Len(out) + Len(d) = a + 1
      /\ \A i \in 1..Len(d) : d[i] = Len(out) + i - 1
  BY <1>1, Flushed
<1> HIDE DEF d
<1>3. \A i \in 1..Len(out) : out[i] = i - 1
  BY <1>0 DEF Prefix
<1>4. /\ out \o d \in Seq(Items) /\ Len(out \o d) = Len(out) + Len(d)
      /\ \A i \in 1..Len(out \o d) : (out \o d)[i] = i - 1
  <2>1. d \in Seq(Items) /\ \A i \in 1..Len(d) : d[i] = Len(out) + i - 1
    BY <1>2
  <2> QED
    BY <1>1, <1>3, <2>1, Handed
<1> QED
  BY <1>2, <1>4 DEF d

(* Such a frame, with the stream still open, restores the invariant. *)
LEMMA FrameKeeps ==
  ASSUME BrInv, poll = "polling", NEW a \in Nat, NEW b \in Seq(Items),
         InOrder(a, started, Len(out), acc, b), BrTypeOK',
         accepted' = a, acc' = acc \o Pre(started) \o b, buf' = <<>>, started' = TRUE,
         finished' = finished, out' = out \o acc', poll' = "idle"
  PROVE  BrInv'
<1>0. ~finished
  BY DEF BrInv, Within
<1>1. out' \in Seq(Items) /\ Len(out') = a + 1 /\ \A i \in 1..(a + 1) : out'[i] = i - 1
  BY Framed
<1>2. Chunks' = a
  <2>1. out' # <<>>
    BY <1>1
  <2> QED
    BY <1>1, <2>1 DEF Chunks
<1>3. (Whole /\ Within)'
  BY <1>0 DEF Whole, Within
<1>4. Between'
  BY <1>1 DEF Between
<1>5. Prefix'
  <2>1. a - a <= DRAIN_BUDGET
    BY BudgetAssumption
  <2>2. a + 1 <= a + 1
    OBVIOUS
  <2> QED
    BY <1>1, <1>2, <2>1, <2>2 DEF Prefix
<1> QED
  BY <1>3, <1>4, <1>5 DEF BrInv

(* The last chunk of the budget. *)
LEMMA BudgetKeeps == BrInv /\ PollBudget => BrInv'
<1> SUFFICES ASSUME BrInv, PollBudget PROVE BrInv'
  OBVIOUS
<1> DEFINE h == Append(buf, accepted + 1)
<1>0. BrTypeOK /\ Within
  BY DEF BrInv
<1>1. /\ UNCHANGED <<made, inner, woken, finished>>
      /\ poll = "polling" /\ accepted < made
      /\ accepted' = accepted + 1 /\ drained' = drained + 1
      /\ acc' = acc \o Pre(started) \o h /\ buf' = <<>> /\ started' = TRUE
      /\ out' = out \o acc' /\ poll' = "idle"
  BY DEF PollBudget, Ready, Frame, Pre
<1>2. drained < DRAIN_BUDGET /\ InOrder(accepted, started, Len(out), acc, buf)
  BY <1>0, <1>1 DEF Within
<1>3. h \in Seq(Items) /\ InOrder(accepted + 1, started, Len(out), acc, h)
  <2>1. accepted + 1 \in Items
    BY <1>0, <1>1, BrTypes
  <2> QED
    BY <1>0, <1>2, <2>1, BrTypes, Given
<1> HIDE DEF h
<1>4. acc' \in Seq(Items) /\ out' \in Seq(Items)
  <2>1. accepted + 1 \in Nat
    BY <1>0, BrTypes
  <2> QED
    BY <1>1, <1>3, <2>1, Framed
<1>5. BrTypeOK'
  <2>1. accepted + 1 \in 0..made /\ drained + 1 \in 0..DRAIN_BUDGET
    <3>1. accepted < made /\ drained < DRAIN_BUDGET
      BY <1>1, <1>2
    <3>2. /\ made \in Nat /\ accepted \in Nat /\ drained \in Nat /\ DRAIN_BUDGET \in Nat
      BY <1>0, BrTypes
    <3> QED
      BY <3>1, <3>2
  <2> QED
    BY <1>0, <1>1, <1>4, <2>1 DEF BrTypeOK
<1>6. accepted + 1 \in Nat
  BY <1>0, BrTypes
<1> QED
  BY <1>1, <1>3, <1>5, <1>6, FrameKeeps

(* The source is Pending. *)
LEMMA IdleKeeps == BrInv /\ PollIdle => BrInv'
<1> SUFFICES ASSUME BrInv, PollIdle PROVE BrInv'
  OBVIOUS
<1>0. BrTypeOK /\ Within /\ Prefix
  BY DEF BrInv
<1>1. /\ UNCHANGED <<made, inner, accepted, drained, finished>> /\ poll = "polling"
      /\ acc' = acc \o Pre(started) \o buf /\ buf' = <<>> /\ started' = TRUE
      /\ \/ acc' = <<>> /\ poll' = "parked" /\ woken' = FALSE /\ out' = out
         \/ poll' = "idle" /\ out' = out \o acc' /\ woken' = woken
  BY DEF PollIdle, Flush, Frame, Pre
<1>2. InOrder(accepted, started, Len(out), acc, buf) /\ accepted \in Nat /\ buf \in Seq(Items) /\ ~finished
  BY <1>0, <1>1, BrTypes DEF Within
<1>3. /\ acc' \in Seq(Items) /\ Len(out) + Len(acc') = accepted + 1 /\ out \o acc' \in Seq(Items)
  BY <1>1, <1>2, Framed
<1>4. BrTypeOK'
  <2>1. /\ out' \in Seq(Items) /\ acc' \in Seq(Items) /\ buf' \in Seq(Items)
        /\ poll' \in {"idle", "parked"} /\ woken' \in BOOLEAN /\ started' \in BOOLEAN
    <3>1. out \in Seq(Items) /\ <<>> \in Seq(Items)
      BY <1>0, BrTypes
    <3>2. out' \in Seq(Items) /\ acc' \in Seq(Items) /\ buf' \in Seq(Items)
      BY <1>1, <1>3, <3>1, Zenon
    <3>3. woken \in BOOLEAN
      BY <1>0 DEF BrTypeOK
    <3>4. poll' \in {"idle", "parked"} /\ woken' \in BOOLEAN /\ started' \in BOOLEAN
      BY <1>1, <3>3
    <3> QED
      BY <3>2, <3>4
  <2> QED
    BY <1>0, <1>1, <2>1 DEF BrTypeOK
<1>5. CASE poll' = "idle" /\ out' = out \o acc' /\ woken' = woken
  BY <1>1, <1>2, <1>4, <1>5, FrameKeeps
<1>6. CASE acc' = <<>> /\ poll' = "parked" /\ woken' = FALSE /\ out' = out
  <2>1. Len(out) = accepted + 1
    <3>1. Len(acc') = 0
      BY <1>6
    <3> QED
      BY <1>0, <1>3, <3>1, BrTypes
  <2>2. (Whole /\ Within)'
    BY <1>1, <1>2, <1>6 DEF Whole, Within
  <2>3. Between'
    BY <1>1, <1>6, <2>1 DEF Between
  <2>4. Prefix'
    BY <1>0, <1>1, <1>2, <1>6 DEF Prefix, Chunks
  <2> QED
    BY <1>4, <2>2, <2>3, <2>4 DEF BrInv
<1> QED
  BY <1>1, <1>5, <1>6

(* The source is at its end: FINISH. *)
LEMMA EndKeeps == BrInv /\ PollEnd => BrInv'
<1> SUFFICES ASSUME BrInv, PollEnd PROVE BrInv'
  OBVIOUS
<1> DEFINE d == acc \o Pre(started) \o buf
<1>0. BrTypeOK /\ Within
  BY DEF BrInv
<1>1. /\ UNCHANGED <<made, inner, woken, accepted, drained>> /\ poll = "polling" /\ inner = "ended"
      /\ ~(accepted < made) /\ finished' = TRUE /\ poll' = "idle"
      /\ acc' = d \o <<End>> /\ buf' = <<>> /\ started' = TRUE /\ out' = out \o acc'
  BY DEF PollEnd, Ready, Finish, Frame, Pre
<1>2. InOrder(accepted, started, Len(out), acc, buf) /\ buf \in Seq(Items) /\ accepted \in Nat /\ accepted = made
  BY <1>0, <1>1, BrTypes DEF Within
<1>3. /\ d \in Seq(Items) /\ out \o d \in Seq(Items) /\ Len(out \o d) = made + 1
      /\ \A i \in 1..(made + 1) : (out \o d)[i] = i - 1
  BY <1>1, <1>2, Framed
<1> HIDE DEF d
<1>4. <<End>> \in Seq(Items) /\ out \in Seq(Items)
  BY <1>0, BrTypes
<1>5. out' = (out \o d) \o <<End>>
  <2>1. out \in Seq(Items) /\ d \in Seq(Items) /\ <<End>> \in Seq(Items)
    BY <1>3, <1>4
  <2>2. (out \o d) \o <<End>> = out \o (d \o <<End>>)
    BY <2>1, Regroup
  <2> QED
    BY <1>1, <2>2
<1>6. /\ out' \in Seq(Items) /\ Len(out') = made + 2 /\ out'[made + 2] = End
      /\ \A i \in 1..(made + 1) : out'[i] = i - 1
  <2> DEFINE u == out \o d
  <2>1. u \in Seq(Items) /\ Len(u) = made + 1 /\ (\A i \in 1..(made + 1) : u[i] = i - 1) /\ made \in Nat
    BY <1>2, <1>3
  <2> HIDE DEF u
  <2>2. /\ u \o <<End>> \in Seq(Items) /\ Len(u \o <<End>>) = made + 2
        /\ (u \o <<End>>)[made + 2] = End
        /\ \A i \in 1..(made + 1) : (u \o <<End>>)[i] = u[i]
    BY <1>4, <2>1
  <2> QED
    BY <1>5, <2>1, <2>2 DEF u
<1>7. acc' \in Seq(Items)
  BY <1>1, <1>3, <1>4
<1>8. BrTypeOK'
  BY <1>0, <1>1, <1>6, <1>7 DEF BrTypeOK
<1>9. Whole'
  BY <1>1, <1>2, <1>6 DEF Whole
<1>10. (Prefix /\ Between /\ Within)'
  BY <1>1 DEF Prefix, Between, Within
<1> QED
  BY <1>8, <1>9, <1>10 DEF BrInv

LEMMA BrInitially == BrInit => BrInv
<1> SUFFICES ASSUME BrInit PROVE BrInv
  OBVIOUS
<1>1. BrTypeOK
  <2>1. 0 \in 0..MaxChunks /\ 0 \in 0..0 /\ 0 \in 0..DRAIN_BUDGET /\ <<>> \in Seq(Items)
    BY BudgetAssumption
  <2> QED
    BY <2>1 DEF BrInit, BrTypeOK
<1>2. Prefix
  BY BudgetAssumption DEF BrInit, Prefix, Chunks
<1> QED
  BY <1>1, <1>2 DEF BrInit, BrInv, Whole, Between, Within

LEMMA BrStep == BrInv /\ [BrNext]_brVars => BrInv'
<1> SUFFICES ASSUME BrInv, [BrNext]_brVars PROVE BrInv'
  OBVIOUS
<1>1. CASE UNCHANGED brVars
  BY <1>1 DEF BrInv, brVars, BrTypeOK, Whole, Prefix, Between, Within, Chunks
<1>2. CASE PollStarts
  BY <1>2, StartKeeps
<1>3. CASE PollChunk
  BY <1>3, ChunkKeeps
<1>4. CASE PollBudget
  BY <1>4, BudgetKeeps
<1>5. CASE PollIdle
  BY <1>5, IdleKeeps
<1>6. CASE PollEnd
  BY <1>6, EndKeeps
<1>7. CASE \/ Produce \/ SourceStops("ended") \/ SourceStops("failed") \/ Gone
           \/ PollFinished \/ PollError \/ EncodeFails
  BY <1>7, QuietKeeps
<1> QED
  BY <1>1, <1>2, <1>3, <1>4, <1>5, <1>6, <1>7 DEF BrNext, PollSteps

(* The inductive invariant of the compressed body. *)
THEOREM BrInvariance == BrSpec => []BrInv
  BY BrInitially, BrStep, PTL DEF BrSpec

(* The stream's variables keep their types: no poll takes more than its
   budget, the encoder is given no chunk that was not produced. *)
THEOREM BrTypeCorrect == BrSpec => []BrTypeOK
<1>1. BrInv => BrTypeOK
  BY DEF BrInv
<1> QED
  BY <1>1, BrInvariance, PTL

(* The client decodes the header and the chunks in order without a gap, and
   the end mark exactly behind all chunks of an orderly end, whatever the
   encoder holds back (BrotliStream::poll_frame). *)
THEOREM BodyAlwaysDecodes == BrSpec => []BodyDecodes
<1>1. BrInv => BodyDecodes
  <2> SUFFICES ASSUME BrInv PROVE BodyDecodes
    OBVIOUS
  <2>0. BrTypeOK /\ Whole /\ Prefix
    BY DEF BrInv
  <2>1. CASE finished /\ poll # "error"
    <3>1. /\ inner = "ended" /\ Len(out) = made + 2 /\ out[made + 2] = End
          /\ \A i \in 1..(made + 1) : out[i] = i - 1
      BY <2>0, <2>1 DEF Whole
    <3>2. made \in Nat /\ made <= MaxChunks /\ End = MaxChunks + 1 /\ MaxChunks \in Nat /\ Len(out) \in Nat
      BY <2>0, BrTypes
    <3>3. ASSUME NEW i \in 1..Len(out) 
          PROVE  IF out[i] = End THEN i = made + 2 /\ inner = "ended" ELSE out[i] = i - 1
      <4>1. CASE i = made + 2
        BY <3>1, <4>1
      <4>2. CASE i \in 1..(made + 1)
        <5>1. out[i] = i - 1 /\ i - 1 # End
          BY <3>1, <3>2, <4>2
        <5> QED
          BY <5>1
      <4> QED
        BY <3>1, <3>2, <4>1, <4>2
    <3>4. Complete
      BY <3>1, <3>2 DEF Complete
    <3> QED
      BY <3>3, <3>4 DEF BodyDecodes
  <2>2. CASE ~finished \/ poll = "error"
    <3>1. poll # "closed" /\ Len(out) <= accepted + 1 /\ \A i \in 1..Len(out) : out[i] = i - 1
      BY <2>0, <2>2 DEF Prefix
    <3>2. \A i \in 1..Len(out) : i - 1 # End
      BY <2>0, <3>1, BrTypes
    <3> QED
      BY <3>1, <3>2 DEF BodyDecodes
  <2> QED
    BY <2>1, <2>2
<1> QED
  BY <1>1, BrInvariance, PTL

(* Without the end mark the client has received Chunks; with it, all. *)
LEMMA ReceivedIs ==
  ASSUME BrInv
  PROVE  /\ ~finished \/ poll = "error" => Received = Chunks
         /\ finished /\ poll # "error" => Received = accepted
<1>0. BrTypeOK /\ Whole /\ Prefix
  BY DEF BrInv
<1>1. CASE finished /\ poll # "error"
  <2>1. accepted = made /\ Len(out) = made + 2 /\ out[made + 2] = End /\ made \in Nat
    BY <1>0, <1>1, BrTypes DEF Whole
  <2>2. Complete /\ out # <<>>
    BY <2>1 DEF Complete
  <2> QED
    BY <1>1, <2>1, <2>2 DEF Received
<1>2. CASE ~finished \/ poll = "error"
  <2>1. Len(out) <= accepted + 1 /\ \A i \in 1..Len(out) : out[i] = i - 1
    BY <1>0, <1>2 DEF Prefix
  <2>2. ~Complete
    <3>1. CASE out # <<>>
      <4>1. Len(out) \in 1..Len(out)
        BY <1>0, <3>1, BrTypes
      <4>2. out[Len(out)] = Len(out) - 1
        BY <2>1, <4>1
      <4> QED
        BY <1>0, <2>1, <4>2, BrTypes DEF Complete
    <3> QED
      BY <3>1 DEF Complete
  <2> QED
    BY <1>0, <1>2, <2>2, BrTypes DEF Received, Chunks
<1> QED
  BY <1>1, <1>2

(* When BrotliStream returns Pending, the client has all it was given. *)
THEOREM PendingDelivers == BrSpec => []PendingMeansDelivered
<1>1. BrInv => PendingMeansDelivered
  <2> SUFFICES ASSUME BrInv, poll = "parked" PROVE Received = accepted
    BY DEF PendingMeansDelivered
  <2>0. BrTypeOK /\ Whole /\ Between
    BY DEF BrInv
  <2>1. ~finished
    BY <2>0 DEF Whole
  <2>2. (~started => accepted = 0) /\ Len(out) = IF started THEN accepted + 1 ELSE 0
    BY <2>0, <2>1 DEF Between
  <2>3. Chunks = accepted
    <3>1. CASE started
      <4>1. Len(out) = accepted + 1 /\ out # <<>>
        BY <2>0, <2>2, <3>1, BrTypes
      <4> QED
        BY <2>0, <4>1, BrTypes DEF Chunks
    <3>2. CASE ~started
      <4>1. Len(out) = 0 /\ accepted = 0
        BY <2>2, <3>2
      <4>2. out = <<>>
        BY <2>0, <4>1, BrTypes, EmptySeq
      <4> QED
        BY <4>1, <4>2 DEF Chunks
    <3> QED
      BY <3>1, <3>2
  <2> QED
    BY <2>1, <2>3, ReceivedIs
<1> QED
  BY <1>1, BrInvariance, PTL

(* The client is never more than DRAIN_BUDGET chunks behind the encoder. *)
THEOREM LagIsBounded == BrSpec => []BoundedLag
<1>1. BrInv => BoundedLag
  <2> SUFFICES ASSUME BrInv PROVE accepted - Received <= DRAIN_BUDGET
    BY DEF BoundedLag
  <2>0. BrTypeOK /\ Prefix
    BY DEF BrInv
  <2>1. CASE finished /\ poll # "error"
    BY <2>0, <2>1, BrTypes, ReceivedIs
  <2>2. CASE ~finished \/ poll = "error"
    BY <2>0, <2>2, ReceivedIs DEF Prefix
  <2> QED
    BY <2>1, <2>2
<1> QED
  BY <1>1, BrInvariance, PTL
=============================================================================
