---------------------------- MODULE ServerProofs ----------------------------
(***************************************************************************)
(* Proofs about Server and EngineSource for every set of connections, every*)
(* number of reloads, every source, with and without --watch, and every    *)
(* number of scripts and file changes.  The composition's steps are steps  *)
(* of Server, so what is proved of Server holds of it too.                 *)
(***************************************************************************)
EXTENDS EngineSource, SequenceTheorems, TLAPS

(* The newest engine that has left the channel. *)
Newest == IF upd \in {"cancel", "swap"} THEN held ELSE current

(* Engines travel from the source to the ArcSwap one by one and in order: the
   channel, the updater's hands and the ArcSwap hold consecutive ones. *)
InOrder ==
  /\ produced = Newest + Len(queue)
  /\ queue # <<>> => queue[1] = produced
  /\ upd \in {"cancel", "swap"} => held = current + 1

(* Serving starts with an engine. *)
Begun ==
  /\ upd # "off" => current >= 1
  /\ main \notin {"waiting", "stopped", "panicked"} => current >= 1
  /\ main = "waiting" => current = 0 /\ upd = "off"
  /\ current = 0 => upd = "off" /\ \A c \in Conns : conn[c] = "none"

(* Every engine that was replaced is cancelled, and the current one is before
   it is replaced. *)
OldCancelled ==
  /\ \A g \in Gens : g < current => g \in cancelled
  /\ upd = "swap" => current \in cancelled

(* A request runs on an engine that is or was current. *)
Loaded ==
  \A c \in Conns : conn[c] \in {"eval", "sse", "stream"} => gen[c] \in 1..current

(* Shutdown has cancelled an engine that is or was current. *)
Stopping ==
  main \in {"count", "draining"} => stopGen \in cancelled /\ stopGen <= current

SrvInv ==
  /\ SrvTypeOK /\ InOrder /\ Begun /\ OldCancelled /\ Loaded /\ Stopping
  /\ StoppedMeansDrained

(* The server starts in a good state. *)
LEMMA SrvInvInit == SrvInit => SrvInv
<1> SUFFICES ASSUME SrvInit PROVE SrvInv
  OBVIOUS
<1> USE MaxGenAssumption DEF SrvInit
<1>1. SrvTypeOK
  <2>1. queue \in Seq(Gens) /\ Len(queue) <= 1
    OBVIOUS
  <2>2. conn \in [Conns -> ConnStates] /\ gen \in [Conns -> 0..MaxGen] /\ told \in [Conns -> BOOLEAN]
    BY DEF ConnStates, Served
  <2>3. srcOpen \in BOOLEAN /\ signal \in BOOLEAN /\ cancelled \subseteq Gens
    BY Zenon
  <2>4. /\ produced \in 0..MaxGen /\ current \in 0..MaxGen /\ held \in 0..MaxGen
        /\ stopGen \in 0..MaxGen
    BY SMT
  <2>5. main \in MainStates /\ upd \in {"off", "recv", "cancel", "swap", "done"}
    BY DEF MainStates
  <2> QED
    BY <2>1, <2>2, <2>3, <2>4, <2>5 DEF SrvTypeOK
<1>2. InOrder /\ Begun /\ OldCancelled
  BY DEF InOrder, Newest, Begun, OldCancelled, Gens
<1>3. Loaded /\ Stopping /\ StoppedMeansDrained
  BY DEF Loaded, Stopping, StoppedMeansDrained
<1> QED
  BY <1>1, <1>2, <1>3 DEF SrvInv

(* A source that sends or closes, and a signal, disturb only the channel. *)
LEMMA SourceStep ==
  SrvInv /\ (SourceSends \/ SourceCloses \/ Signal) => SrvInv'
<1> SUFFICES ASSUME SrvInv, SourceSends \/ SourceCloses \/ Signal PROVE SrvInv'
  OBVIOUS
<1> USE MaxGenAssumption DEF SrvInv, connVars
<1>1. CASE SourceSends
  <2>1. SrvTypeOK'
    BY <1>1 DEF SourceSends, SrvTypeOK, Gens
  <2>2. InOrder'
    BY <1>1 DEF SourceSends, InOrder, Newest, SrvTypeOK, Gens
  <2>3. (Begun /\ OldCancelled /\ Loaded /\ Stopping /\ StoppedMeansDrained)'
    BY <1>1 DEF SourceSends, Begun, OldCancelled, Loaded, Stopping, StoppedMeansDrained, Open, Served
  <2> QED
    BY <2>1, <2>2, <2>3
<1>2. CASE SourceCloses \/ Signal
  <2>1. SrvTypeOK'
    BY <1>2 DEF SourceCloses, Signal, SrvTypeOK
  <2>2. (InOrder /\ Begun /\ OldCancelled /\ Loaded /\ Stopping /\ StoppedMeansDrained)'
    BY <1>2 DEF SourceCloses, Signal, InOrder, Newest, Begun, OldCancelled, Loaded, Stopping,
                StoppedMeansDrained, Open, Served
  <2> QED
    BY <2>1, <2>2
<1> QED
  BY <1>1, <1>2

(* The updater: an engine is replaced only after its token is cancelled. *)
LEMMA UpdaterStep == SrvInv /\ Updater => SrvInv'
<1> SUFFICES ASSUME SrvInv, Updater PROVE SrvInv'
  OBVIOUS
<1> USE MaxGenAssumption DEF SrvInv, connVars
<1>1. CASE UpdRecv
  <2>1. SrvTypeOK'
    BY <1>1 DEF UpdRecv, SrvTypeOK, Gens
  <2>2. InOrder'
    BY <1>1 DEF UpdRecv, InOrder, Newest, SrvTypeOK, Gens
  <2>3. (Begun /\ OldCancelled /\ Loaded /\ Stopping /\ StoppedMeansDrained)'
    BY <1>1 DEF UpdRecv, Begun, OldCancelled, Loaded, Stopping, StoppedMeansDrained, Open, Served,
                SrvTypeOK
  <2> QED
    BY <2>1, <2>2, <2>3
<1>2. CASE UpdCancel
  <2>1. current \in Gens
    BY <1>2 DEF UpdCancel, Begun, SrvTypeOK, Gens
  <2>2. SrvTypeOK'
    BY <1>2, <2>1 DEF UpdCancel, SrvTypeOK
  <2>3. (InOrder /\ Begun)'
    BY <1>2 DEF UpdCancel, InOrder, Newest, Begun
  <2>4. (OldCancelled /\ Loaded /\ Stopping /\ StoppedMeansDrained)'
    BY <1>2 DEF UpdCancel, OldCancelled, Loaded, Stopping, StoppedMeansDrained, Open, Served
  <2> QED
    BY <2>2, <2>3, <2>4
<1>3. CASE UpdSwap
  <2>1. current' = current + 1 /\ held = current + 1
    BY <1>3 DEF UpdSwap, InOrder
  <2>2. SrvTypeOK'
    BY <1>3 DEF UpdSwap, SrvTypeOK
  <2>3. InOrder'
    BY <1>3, <2>1 DEF UpdSwap, InOrder, Newest
  <2>4. (Begun /\ OldCancelled)'
    BY <1>3, <2>1 DEF UpdSwap, Begun, OldCancelled, SrvTypeOK, Gens, Running, Terminal
  <2>5. (Loaded /\ Stopping)'
    BY <1>3, <2>1 DEF UpdSwap, Loaded, Stopping, SrvTypeOK
  <2>6. StoppedMeansDrained'
    BY <1>3 DEF UpdSwap, StoppedMeansDrained, Open, Served
  <2> QED
    BY <2>2, <2>3, <2>4, <2>5, <2>6
<1> QED
  BY <1>1, <1>2, <1>3 DEF Updater

(* serve() itself: the first engine, the accept loop's end, the drain. *)
LEMMA ServeStep == SrvInv /\ Serve => SrvInv'
<1> SUFFICES ASSUME SrvInv, Serve PROVE SrvInv'
  OBVIOUS
<1> USE MaxGenAssumption DEF SrvInv, connVars
<1>1. CASE FirstEngine
  <2>1. /\ current' = queue[1] /\ queue' = <<>> /\ upd' = "recv" /\ main' = "binding"
        /\ current = 0 /\ upd = "off" /\ queue[1] = 1 /\ produced = 1
    BY <1>1 DEF FirstEngine, Begun, InOrder, Newest, SrvTypeOK, Gens
  <2>2. SrvTypeOK'
    BY <1>1, <2>1 DEF FirstEngine, SrvTypeOK, Gens, MainStates
  <2>3. (InOrder /\ Begun /\ OldCancelled)'
    BY <1>1, <2>1 DEF FirstEngine, InOrder, Newest, Begun, OldCancelled, SrvTypeOK, Gens
  <2>4. (Loaded /\ Stopping /\ StoppedMeansDrained)'
    BY <1>1, <2>1 DEF FirstEngine, Begun, Loaded, Stopping, StoppedMeansDrained, SrvTypeOK
  <2> QED
    BY <2>2, <2>3, <2>4
<1>2. CASE NoEngine \/ Bind \/ Timeout
  <2>1. SrvTypeOK'
    BY <1>2 DEF NoEngine, Bind, Timeout, SrvTypeOK, MainStates, Terminal
  <2>2. (InOrder /\ Begun /\ OldCancelled)'
    BY <1>2 DEF NoEngine, Bind, Timeout, InOrder, Newest, Begun, OldCancelled
  <2>3. (Loaded /\ Stopping /\ StoppedMeansDrained)'
    BY <1>2 DEF NoEngine, Bind, Timeout, Loaded, Stopping, StoppedMeansDrained
  <2> QED
    BY <2>1, <2>2, <2>3
<1>3. CASE StopWhileWaiting \/ Count \/ Drained
  <2>1. SrvTypeOK'
    BY <1>3 DEF StopWhileWaiting, Count, Drained, SrvTypeOK, MainStates, Terminal
  <2>2. (InOrder /\ Begun /\ OldCancelled)'
    BY <1>3 DEF StopWhileWaiting, Count, Drained, InOrder, Newest, Begun, OldCancelled
  <2>3. (Loaded /\ Stopping)'
    BY <1>3 DEF StopWhileWaiting, Count, Drained, Loaded, Stopping
  <2>4. StoppedMeansDrained'
    BY <1>3 DEF StopWhileWaiting, Count, Drained, StoppedMeansDrained, Open, Served, Begun
  <2> QED
    BY <2>1, <2>2, <2>3, <2>4
<1>4. CASE CancelSse
  <2>1. current \in Gens
    BY <1>4 DEF CancelSse, Begun, SrvTypeOK, Gens
  <2>2. SrvTypeOK'
    BY <1>4, <2>1 DEF CancelSse, SrvTypeOK, MainStates
  <2>3. (InOrder /\ Begun /\ OldCancelled)'
    BY <1>4 DEF CancelSse, InOrder, Newest, Begun, OldCancelled
  <2>4. (Loaded /\ Stopping /\ StoppedMeansDrained)'
    BY <1>4 DEF CancelSse, Loaded, Stopping, StoppedMeansDrained, SrvTypeOK
  <2> QED
    BY <2>2, <2>3, <2>4
<1>5. CASE BreakLoop
  <2>1. SrvTypeOK'
    BY <1>5 DEF BreakLoop, SrvTypeOK, MainStates, ConnStates, Served
  <2>2. (InOrder /\ OldCancelled)'
    BY <1>5 DEF BreakLoop, InOrder, Newest, OldCancelled
  <2>3. (Begun /\ Loaded /\ Stopping /\ StoppedMeansDrained)'
    BY <1>5 DEF BreakLoop, Begun, Loaded, Stopping, StoppedMeansDrained
  <2> QED
    BY <2>1, <2>2, <2>3
<1> QED
  BY <1>1, <1>2, <1>3, <1>4, <1>5 DEF Serve

(* A step of a connection leaves the server's own state alone.  It happens
   while the server runs, with an engine loaded. *)
LEMMA ConnStep ==
  ASSUME SrvInv, NEW c \in Conns,
         \/ Connect(c) \/ Accept(c) \/ Handshake(c) \/ HandshakeFails(c)
         \/ StartRequest(c) \/ Respond(c)
         \/ SseCancelled(c) \/ StreamEnds(c) \/ HangUp(c) \/ Told(c)
  PROVE  SrvInv'
<1> USE MaxGenAssumption DEF SrvInv
<1>1. /\ UNCHANGED <<srcOpen, produced, queue, main, current, upd, held, cancelled, tls, signal, stopGen>>
      /\ main # "stopped" /\ current \in 1..MaxGen
      /\ \A d \in Conns \ {c} : conn'[d] = conn[d] /\ gen'[d] = gen[d]
  <2>1. UNCHANGED <<srcOpen, produced, queue, main, current, upd, held, cancelled, tls, signal, stopGen>>
    BY DEF Connect, Accept, Handshake, HandshakeFails, StartRequest, Respond, SseCancelled, StreamEnds, HangUp, Told
  <2>2. main # "stopped" /\ current >= 1
    BY DEF Connect, Accept, Handshake, HandshakeFails, StartRequest, Respond, SseCancelled, StreamEnds, HangUp, Told, Running,
           Terminal, Begun, Open, Served, SrvTypeOK
  <2>3. \A d \in Conns \ {c} : conn'[d] = conn[d] /\ gen'[d] = gen[d]
    BY DEF Connect, Accept, Handshake, HandshakeFails, StartRequest, Respond, SseCancelled, StreamEnds, HangUp, Told, SrvTypeOK
  <2> QED
    BY <2>1, <2>2, <2>3 DEF SrvTypeOK
<1>2. SrvTypeOK' /\ (conn'[c] \in {"eval", "sse", "stream"} => gen'[c] \in 1..current)
  <2>1. CASE Connect(c) \/ Accept(c) \/ Handshake(c) \/ HandshakeFails(c)
    BY <2>1, <1>1 DEF Connect, Accept, Handshake, HandshakeFails, SrvTypeOK, ConnStates, Served
  <2>2. CASE StartRequest(c)
    BY <2>2, <1>1 DEF StartRequest, SrvTypeOK, ConnStates, Served
  <2>3. CASE Respond(c)
    BY <2>3, <1>1 DEF Respond, SrvTypeOK, ConnStates, Served, Loaded
  <2>4. CASE SseCancelled(c) \/ StreamEnds(c) \/ HangUp(c)
    BY <2>4, <1>1 DEF SseCancelled, StreamEnds, HangUp, SrvTypeOK, ConnStates, Served
  <2>5. CASE Told(c)
    BY <2>5, <1>1 DEF Told, SrvTypeOK, ConnStates, Served, Loaded
  <2> QED
    BY <2>1, <2>2, <2>3, <2>4, <2>5
<1>3. (InOrder /\ OldCancelled /\ Stopping)'
  BY <1>1 DEF InOrder, Newest, OldCancelled, Stopping
<1>4. (Begun /\ StoppedMeansDrained)'
  BY <1>1 DEF Begun, StoppedMeansDrained
<1>5. Loaded'
  BY <1>1, <1>2 DEF Loaded
<1> QED
  BY <1>2, <1>3, <1>4, <1>5

(* Every step of the server preserves the inductive invariant. *)
LEMMA SrvInvStep == SrvInv /\ [SrvNext]_srvVars => SrvInv'
<1> SUFFICES ASSUME SrvInv, [SrvNext]_srvVars PROVE SrvInv'
  OBVIOUS
<1>1. CASE UNCHANGED srvVars
  BY <1>1 DEF srvVars, SrvInv, SrvTypeOK, InOrder, Newest, Begun, OldCancelled, Loaded,
              Stopping, StoppedMeansDrained, Open, Served
<1>2. CASE SourceSends \/ SourceCloses \/ Signal
  BY <1>2, SourceStep
<1>3. CASE Serve
  BY <1>3, ServeStep
<1>4. CASE Updater
  BY <1>4, UpdaterStep
<1>5. ASSUME NEW c \in Conns,
             \/ Connect(c) \/ Accept(c) \/ Handshake(c) \/ HandshakeFails(c)
             \/ StartRequest(c) \/ Respond(c)
             \/ SseCancelled(c) \/ StreamEnds(c) \/ HangUp(c) \/ Told(c)
      PROVE  SrvInv'
  BY <1>5, ConnStep
<1> QED
  BY <1>1, <1>2, <1>3, <1>4, <1>5 DEF SrvNext

(* The inductive invariant holds in every reachable state. *)
LEMMA SrvInvariance == SrvSpec => []SrvInv
  BY SrvInvInit, SrvInvStep, PTL DEF SrvSpec

(* The types of Server hold for any connections and any number of engines. *)
THEOREM SrvTypeCorrect == SrvSpec => []SrvTypeOK
<1>1. SrvInv => SrvTypeOK
  BY DEF SrvInv
<1> QED
  BY <1>1, SrvInvariance, PTL

(* However requests race the updater between cancel and store, an event stream
   on an engine that is no longer current has a cancelled token. *)
THEOREM SrvStaleSseCancelled == SrvSpec => []StaleSseCancelled
<1>1. SrvInv => StaleSseCancelled
  BY DEF SrvInv, OldCancelled, Loaded, StaleSseCancelled, SrvTypeOK, Gens
<1> QED
  BY <1>1, SrvInvariance, PTL

(* An event stream that survives the cancellation of shutdown runs on an
   engine that was swapped in after it. *)
THEOREM SrvDrainSse == SrvSpec => []DrainSseIsLateReload
<1>1. SrvInv => DrainSseIsLateReload
  BY DEF SrvInv, OldCancelled, Loaded, Stopping, DrainSseIsLateReload, SrvTypeOK, Gens
<1> QED
  BY <1>1, SrvInvariance, PTL

(* `stopped` is logged only with every connection closed. *)
THEOREM SrvStoppedMeansDrained == SrvSpec => []StoppedMeansDrained
<1>1. SrvInv => StoppedMeansDrained
  BY DEF SrvInv
<1> QED
  BY <1>1, SrvInvariance, PTL

-----------------------------------------------------------------------------
(* The engine sources in front of the server. *)
(* Where each source can be, and what it has done by then. *)
Stages ==
  /\ src = "start" => scriptOf = <<>> /\ taken = 0 /\ after = Nothing
  /\ src \in {"register", "reload"} => kind = "file"
  /\ kind \in {"file", "commands"} => text # <<>>
  /\ kind = "stdin" /\ ~watch => Latest <= 1
  /\ ~srcOpen => src = "done"

(* The engines sent are those of scripts read, in order; outside a file the
   one to be sent next is newer than all of them. *)
Advance ==
  /\ \A i \in 1..Len(scriptOf) : scriptOf[i] <= taken
  /\ src = "send" /\ kind # "file" => \A i \in 1..Len(scriptOf) : scriptOf[i] < taken
  /\ ScriptsAdvance

(* A source that has sent nothing, has nothing in hand and has not given up
   on a server that is gone has read no script that parses. *)
Mute == scriptOf = <<>> /\ src # "send" /\ (src = "done" => ~srcOpen)

NoneRead ==
  Mute => /\ \A v \in 1..taken : (kind = "stdin" \/ v = taken) => ~HasScript(v)
          /\ kind = "topic" /\ src \in {"drop", "done"} => taken > 0 /\ text[taken] = "bad"

(* main panics with the sender dropped and no engine ever sent. *)
Panicked == main = "panicked" => ~srcOpen /\ scriptOf = <<>>

(* A script the watcher has to deliver is announced by an event, or noticed,
   or being read, or in hand, or sent; or the server is gone. *)
Awaited == kind = "file" /\ Latest > after /\ HasScript(Latest)

Tracked ==
  Awaited => \/ raw = "change" \/ pending \/ src \in {"reload", "done"}
             \/ src = "send" /\ taken = Latest
             \/ scriptOf # <<>> /\ scriptOf[Len(scriptOf)] = Latest

SrcInv == SrvInv /\ SrcTypeOK /\ Stages /\ Advance /\ NoneRead /\ Panicked /\ Tracked

(* A source sends through SourceSends and closes through SourceCloses: every
   step of the composition is a step of the server, or leaves it alone. *)
LEMMA SrcIsSrv == [SrcNext]_allVars => [SrvNext]_srvVars
<1>1. ASSUME NEW v, SendFirst(v) PROVE [SrvNext]_srvVars
  BY <1>1 DEF SendFirst, SendEngine, NoSend, SrvNext
<1>2. Starting => [SrvNext]_srvVars
  BY <1>1 DEF Starting, FileStart, StdinStart, StdinOnce, CommandsOnce, TopicStart, NoSend
<1>3. FileRegister \/ FileReceive \/ FileReload \/ FileTimeout => UNCHANGED srvVars
  BY DEF FileRegister, FileReceive, FileReload, FileTimeout
<1>4. StdinNext \/ StdinEof \/ TopicNext \/ SendFails => UNCHANGED srvVars
  BY DEF StdinNext, StdinEof, TopicNext, SendFails
<1>5. Send \/ DropSender => SrvNext
  BY DEF Send, SendEngine, DropSender, SrvNext
<1>6. ServerStep \/ Signal => SrvNext
  BY DEF ServerStep, SrvNext
<1>7. CloseStdin \/ Touch \/ Noise \/ (\E q \in Quality : Write(q)) => UNCHANGED srvVars
  BY DEF CloseStdin, Touch, Noise, Write
<1>8. UNCHANGED allVars => UNCHANGED srvVars
  BY DEF allVars
<1> QED
  BY <1>2, <1>3, <1>4, <1>5, <1>6, <1>7, <1>8 DEF SrcNext, Source

(* The server and its source, with any source, behave as Server says: the
   channel of one engine is used in no other way. *)
THEOREM SrcImplementsServer == SrcSpec => SrvSpec
<1>1. SrcInit => SrvInit
  BY DEF SrcInit
<1> QED
  BY <1>1, SrcIsSrv, PTL DEF SrcSpec, SrvSpec

(* A sequence with one element more. *)
LEMMA AppendProps ==
  ASSUME NEW S, NEW q \in Seq(S), NEW e \in S
  PROVE  /\ Append(q, e) \in Seq(S) /\ Append(q, e) # <<>>
         /\ Len(Append(q, e)) = Len(q) + 1 /\ Len(q) \in Nat
         /\ \A i \in 1..Len(q) : Append(q, e)[i] = q[i]
         /\ Append(q, e)[Len(q) + 1] = e
  OBVIOUS

(* Facts every step below uses. *)
LEMMA SrcTypes ==
  ASSUME SrcInv
  PROVE  /\ text \in Seq(Quality) /\ Latest \in Nat /\ Latest <= MaxScripts
         /\ MaxScripts \in Nat /\ Nothing \in Nat /\ Nothing > MaxScripts
         /\ taken \in Nat /\ taken <= Latest /\ after \in Nat /\ after <= Nothing
         /\ scriptOf \in Seq(0..MaxScripts) /\ Len(scriptOf) \in Nat /\ Len(scriptOf) = produced
<1>1. SrcTypeOK
  BY DEF SrcInv
<1>2. MaxScripts \in Nat /\ Nothing \in Nat /\ Nothing > MaxScripts
  BY MaxScriptsAssumption DEF Nothing
<1>3. text \in Seq(Quality) /\ Len(text) \in Nat
  BY <1>1 DEF SrcTypeOK
<1>4. taken \in Nat /\ taken <= Len(text) /\ after \in Nat /\ after <= Nothing
  BY <1>1, <1>2, <1>3 DEF SrcTypeOK
<1> QED
  BY <1>1, <1>2, <1>3, <1>4 DEF SrcTypeOK, Latest

(* How a step changes the engines sent. *)
LEMMA Sending ==
  ASSUME SrcInv, NEW v \in 0..MaxScripts, SendEngine(v)
  PROVE  /\ scriptOf' = Append(scriptOf, v) /\ scriptOf' \in Seq(0..MaxScripts)
         /\ Len(scriptOf') = Len(scriptOf) + 1 /\ Len(scriptOf') = produced'
         /\ scriptOf' # <<>>
         /\ \A i \in 1..Len(scriptOf) : scriptOf'[i] = scriptOf[i]
         /\ scriptOf'[Len(scriptOf) + 1] = v
         /\ srcOpen' = srcOpen /\ main' = main /\ srcOpen /\ main # "panicked"
<1>1. scriptOf' = Append(scriptOf, v) /\ SourceSends
  BY DEF SendEngine
<1>2. produced' = produced + 1 /\ srcOpen' = srcOpen /\ main' = main /\ srcOpen /\ main # "panicked"
  BY <1>1 DEF SourceSends, Running, Terminal
<1>3. scriptOf \in Seq(0..MaxScripts) /\ Len(scriptOf) = produced
  BY SrcTypes
<1>4. /\ Append(scriptOf, v) \in Seq(0..MaxScripts) /\ Append(scriptOf, v) # <<>>
      /\ Len(Append(scriptOf, v)) = Len(scriptOf) + 1
      /\ \A i \in 1..Len(scriptOf) : Append(scriptOf, v)[i] = scriptOf[i]
      /\ Append(scriptOf, v)[Len(scriptOf) + 1] = v
  <2>1. \A S : \A q \in Seq(S), e \in S :
          /\ Append(q, e) \in Seq(S) /\ Append(q, e) # <<>>
          /\ Len(Append(q, e)) = Len(q) + 1
          /\ \A i \in 1..Len(q) : Append(q, e)[i] = q[i]
          /\ Append(q, e)[Len(q) + 1] = e
    BY AppendProps
  <2> QED
    BY <1>3, <2>1, Zenon
<1> QED
  BY <1>1, <1>2, <1>3, <1>4

(* The types, as one step keeps them. *)
LEMMA SrcTypeStep == SrcInv /\ [SrcNext]_allVars => SrcTypeOK'
<1> SUFFICES ASSUME SrcInv, [SrcNext]_allVars PROVE SrcTypeOK'
  OBVIOUS
<1>0. SrcTypeOK
  BY DEF SrcInv
<1>1. CASE UNCHANGED allVars
  BY <1>0, <1>1 DEF allVars, srcVars, srvVars, SrcTypeOK, Nothing
<1>2. ASSUME NEW q \in Quality, Write(q) PROVE SrcTypeOK'
  <2>1. text' = Append(text, q) /\ Len(text) < MaxScripts
    BY <1>2 DEF Write, Latest
  <2>2. text' \in Seq(Quality) /\ Len(text') = Len(text) + 1 /\ Len(text) \in Nat
    BY <2>1, SrcTypes, AppendProps
  <2>3. taken \in 0..Len(text') /\ Len(text') <= MaxScripts
    BY <2>1, <2>2, SrcTypes DEF Latest
  <2>4. raw' \in {"none", "other", "change"}
    BY <1>0, <1>2 DEF Write, SrcTypeOK
  <2>5. UNCHANGED <<produced, kind, watch, src, eof, taken, after, pending, touches, scriptOf>>
    BY <1>2 DEF Write, srvVars, fixed
  <2> QED
    BY <1>0, <2>2, <2>3, <2>4, <2>5 DEF SrcTypeOK, Nothing
<1>3. CASE CloseStdin \/ Touch \/ Noise
  <2>1. touches' \in 0..MaxTouches
    BY <1>0, <1>3, MaxScriptsAssumption DEF CloseStdin, Touch, Noise, SrcTypeOK
  <2>2. eof' \in BOOLEAN /\ raw' \in {"none", "other", "change"}
    BY <1>0, <1>3 DEF CloseStdin, Touch, Noise, SrcTypeOK
  <2>3. UNCHANGED <<produced, kind, watch, src, text, taken, after, pending, scriptOf>>
    BY <1>3 DEF CloseStdin, Touch, Noise, srvVars, fixed
  <2> QED
    BY <1>0, <2>1, <2>2, <2>3 DEF SrcTypeOK, Nothing
<1>4. ASSUME NEW v \in 0..Latest, SendFirst(v)
      PROVE scriptOf' \in Seq(0..MaxScripts) /\ Len(scriptOf') = produced'
  <2>1. v \in 0..MaxScripts
    BY SrcTypes
  <2>2. CASE SendEngine(v)
    BY <2>1, <2>2, Sending
  <2>3. CASE NoSend
    BY <2>3, SrcTypes DEF NoSend, srvVars
  <2> QED
    BY <1>4, <2>2, <2>3 DEF SendFirst
<1>5. Latest \in 0..Latest /\ TopicContent \in 0..Latest
  BY SrcTypes DEF TopicContent
<1>6. CASE Starting
  <2>1. scriptOf' \in Seq(0..MaxScripts) /\ Len(scriptOf') = produced'
    <3>1. CASE NoSend
      BY <3>1, SrcTypes DEF NoSend, srvVars
    <3>2. CASE SendFirst(Latest) \/ SendFirst(TopicContent)
      BY <1>4, <1>5, <3>2
    <3>3. CASE StdinStart
      BY <3>3, SrcTypes DEF StdinStart, srvVars
    <3> QED
      BY <1>6, <3>1, <3>2, <3>3 DEF Starting, FileStart, StdinOnce, CommandsOnce, TopicStart
  <2>2. taken' \in 0..Len(text) /\ after' \in 0..Nothing
    BY <1>0, <1>5, <1>6, SrcTypes
    DEF Starting, FileStart, StdinStart, StdinOnce, CommandsOnce, TopicStart, Latest, SrcTypeOK
  <2>3. src' \in {"start", "register", "loop", "reload", "send", "drop", "done", "exited"}
    BY <1>6 DEF Starting, FileStart, StdinStart, StdinOnce, CommandsOnce, TopicStart
  <2>4. UNCHANGED <<kind, watch, text, eof, raw, pending, touches>>
    BY <1>6 DEF Starting, FileStart, StdinStart, StdinOnce, CommandsOnce, TopicStart, fixed
  <2> QED
    BY <1>0, <2>1, <2>2, <2>3, <2>4 DEF SrcTypeOK, Nothing
<1>7. CASE FileRegister \/ FileReceive \/ FileTimeout \/ FileReload
  <2>1. taken' \in 0..Len(text) /\ after' \in 0..Nothing
    BY <1>0, <1>5, <1>7, SrcTypes
    DEF FileRegister, FileReceive, FileTimeout, FileReload, Latest, SrcTypeOK
  <2>2. src' \in {"start", "register", "loop", "reload", "send", "drop", "done", "exited"}
    BY <1>0, <1>7 DEF FileRegister, FileReceive, FileTimeout, FileReload, SrcTypeOK
  <2>3. raw' \in {"none", "other", "change"} /\ pending' \in BOOLEAN
    BY <1>0, <1>7 DEF FileRegister, FileReceive, FileTimeout, FileReload, SrcTypeOK
  <2>4. UNCHANGED <<produced, kind, watch, text, eof, touches, scriptOf>>
    BY <1>7 DEF FileRegister, FileReceive, FileTimeout, FileReload, srvVars, fixed
  <2> QED
    BY <1>0, <2>1, <2>2, <2>3, <2>4 DEF SrcTypeOK, Nothing
<1>8. CASE StdinNext \/ StdinEof \/ TopicNext \/ SendFails
  <2>1. taken' \in 0..Len(text)
    BY <1>0, <1>8, SrcTypes DEF StdinNext, StdinEof, TopicNext, SendFails, Latest, SrcTypeOK
  <2>2. src' \in {"start", "register", "loop", "reload", "send", "drop", "done", "exited"}
    <3>1. taken < Latest => text[taken + 1] \in Quality
      BY SrcTypes DEF Latest
    <3> QED
      BY <1>8, <3>1 DEF StdinNext, StdinEof, TopicNext, SendFails, Quality
  <2>3. UNCHANGED <<produced, kind, watch, text, eof, after, raw, pending, touches, scriptOf>>
    BY <1>8 DEF StdinNext, StdinEof, TopicNext, SendFails, srvVars, fixed
  <2> QED
    BY <1>0, <2>1, <2>2, <2>3 DEF SrcTypeOK, Nothing
<1>9. CASE Send
  <2>1. taken \in 0..MaxScripts
    BY SrcTypes
  <2>2. scriptOf' \in Seq(0..MaxScripts) /\ Len(scriptOf') = produced'
    BY <1>9, <2>1, Sending DEF Send
  <2> QED
    BY <1>0, <1>9, <2>2 DEF Send, SrcTypeOK, Nothing, fixed
<1>10. CASE DropSender
  BY <1>0, <1>10 DEF DropSender, SourceCloses, SrcTypeOK, Nothing, fixed
<1>11. CASE UNCHANGED <<srcVars, produced>>
  BY <1>0, <1>11 DEF srcVars, SrcTypeOK, Nothing
<1>12. ServerStep \/ (Signal /\ UNCHANGED srcVars) => UNCHANGED <<srcVars, produced>>
  BY DEF ServerStep, Signal, Serve, Updater, FirstEngine, NoEngine, StopWhileWaiting, Bind, BreakLoop,
         CancelSse, Count, Drained, Timeout, UpdRecv, UpdCancel, UpdSwap
<1> QED
  BY <1>1, <1>2, <1>3, <1>6, <1>7, <1>8, <1>9, <1>10, <1>11, <1>12 DEF SrcNext, Source

(* Steps that change neither scripts nor engines: control moves of the source
   and of the outside. *)
Moves == CloseStdin \/ Touch \/ Noise \/ FileRegister \/ FileReceive \/ FileTimeout
         \/ StdinStart \/ StdinEof \/ SendFails

LEMMA MovesKeep == SrcInv /\ Moves => (Stages /\ Advance /\ NoneRead /\ Panicked /\ Tracked)'
<1> SUFFICES ASSUME SrcInv, Moves PROVE (Stages /\ Advance /\ NoneRead /\ Panicked /\ Tracked)'
  OBVIOUS
<1>0. Stages /\ Advance /\ NoneRead /\ Panicked /\ Tracked /\ SrcTypeOK
  BY DEF SrcInv
<1>1. UNCHANGED <<srcOpen, main, kind, watch, text, taken, scriptOf>>
  BY DEF Moves, CloseStdin, Touch, Noise, FileRegister, FileReceive, FileTimeout, StdinStart,
         StdinEof, SendFails, srvVars, fixed
<1>2. /\ src' # "send" \/ src' = src
      /\ src' = "start" => src = "start" /\ after' = after
      /\ src' \in {"register", "reload"} => src' = src \/ kind = "file"
      /\ ~srcOpen => src' = src
      /\ src' = "done" => src \in {"done", "send"}
      /\ src = "done" => src' = "done"
      /\ src' = "drop" => src = "drop" \/ kind \in {"file", "stdin"}
      /\ src # "send" \/ src' \in {"send", "done"}
  BY <1>0 DEF Moves, CloseStdin, Touch, Noise, FileRegister, FileReceive, FileTimeout, StdinStart,
         StdinEof, SendFails, Stages
<1>3. Stages'
  BY <1>0, <1>1, <1>2 DEF Stages, Nothing, Latest
<1>4. Advance'
  BY <1>0, <1>1, <1>2 DEF Advance, ScriptsAdvance
<1>5. NoneRead'
  <2>1. Mute' => Mute
    BY <1>0, <1>1, <1>2 DEF Mute, Stages
  <2>2. \A v : HasScript(v)' <=> HasScript(v)
    BY <1>1 DEF HasScript
  <2>3. kind = "topic" /\ src' \in {"drop", "done"} /\ Mute' => src \in {"drop", "done"}
    BY <1>0, <1>1, <1>2 DEF Mute, Stages
  <2> QED
    BY <1>0, <1>1, <2>1, <2>2, <2>3 DEF NoneRead
<1>6. Panicked'
  BY <1>0, <1>1 DEF Panicked
<1>7. Tracked'
  <2>0. Latest' = Latest /\ (HasScript(Latest)' <=> HasScript(Latest))
    BY <1>1 DEF Latest, HasScript
  <2>1. CASE after' = after
    <3>1. Awaited' => Awaited
      BY <1>1, <2>0, <2>1 DEF Awaited
    <3>2. raw = "change" => raw' = "change" \/ pending'
      BY DEF Moves, CloseStdin, Touch, Noise, FileRegister, FileReceive, FileTimeout, StdinStart,
             StdinEof, SendFails
    <3>3. pending => pending' \/ src' = "reload"
      BY DEF Moves, CloseStdin, Touch, Noise, FileRegister, FileReceive, FileTimeout, StdinStart,
             StdinEof, SendFails
    <3>4. src = "reload" => src' = src
      BY DEF Moves, CloseStdin, Touch, Noise, FileRegister, FileReceive, FileTimeout, StdinStart,
             StdinEof, SendFails
    <3>5. src = "done" => src' = src
      BY DEF Moves, CloseStdin, Touch, Noise, FileRegister, FileReceive, FileTimeout, StdinStart,
             StdinEof, SendFails
    <3>6. src = "send" => src' \in {"send", "done"}
      BY <1>2
    <3> QED
      BY <1>0, <1>1, <2>0, <3>1, <3>2, <3>3, <3>4, <3>5, <3>6 DEF Tracked
  <2>2. CASE after' # after
    <3>1. kind = "stdin" \/ after' = Latest
      BY <2>2 DEF Moves, CloseStdin, Touch, Noise, FileRegister, FileReceive, FileTimeout, StdinStart,
             StdinEof, SendFails
    <3>2. ~Awaited'
      BY <1>1, <2>0, <3>1, SrcTypes DEF Awaited
    <3> QED
      BY <3>2 DEF Tracked
  <2> QED
    BY <2>1, <2>2
<1> QED
  BY <1>3, <1>4, <1>5, <1>6, <1>7

(* A new script: those before it stay, and a watcher that is there is told. *)
LEMMA WriteKeeps ==
  ASSUME SrcInv, NEW q \in Quality, Write(q)
  PROVE  (Stages /\ Advance /\ NoneRead /\ Panicked /\ Tracked)'
<1>0. Stages /\ Advance /\ NoneRead /\ Panicked /\ Tracked /\ SrcTypeOK
  BY DEF SrcInv
<1>1. UNCHANGED <<srcOpen, main, kind, watch, src, taken, after, pending, scriptOf>>
  BY DEF Write, srvVars, fixed
<1>2. /\ text' \in Seq(Quality) /\ text' # <<>> /\ Len(text') = Len(text) + 1
      /\ \A i \in 1..Len(text) : text'[i] = text[i]
  <2>1. text' = Append(text, q)
    BY DEF Write
  <2> QED
    BY <2>1, SrcTypes, AppendProps
<1>3. \A v \in 1..taken : v \in 1..Len(text)
  BY SrcTypes DEF Latest
<1>4. \A v \in 1..taken : text'[v] = text[v] /\ (HasScript(v)' <=> HasScript(v))
  BY <1>2, <1>3 DEF HasScript
<1>5. Stages'
  <2>1. kind = "stdin" /\ ~watch => Latest' <= 1
    BY <1>2 DEF Write, Latest
  <2> QED
    BY <1>0, <1>1, <1>2, <2>1 DEF Stages, Nothing
<1>6. Advance'
  BY <1>0, <1>1 DEF Advance, ScriptsAdvance
<1>7. NoneRead'
  <2>1. Mute' => Mute
    BY <1>1 DEF Mute
  <2>2. taken > 0 => taken \in 1..taken
    BY SrcTypes
  <2> QED
    BY <1>0, <1>1, <1>4, <2>1, <2>2 DEF NoneRead
<1>8. Panicked'
  BY <1>0, <1>1 DEF Panicked
<1>9. Tracked'
  <2>1. CASE kind = "file" /\ after # Nothing
    <3>1. raw' = "change"
      BY <2>1 DEF Write
    <3> QED
      BY <3>1, Zenon DEF Tracked
  <2>2. CASE kind = "file" /\ after = Nothing
    <3>1. Latest' <= MaxScripts
      BY <1>2, SrcTypes DEF Write, Latest
    <3>2. ~Awaited'
      BY <1>1, <1>2, <2>2, <3>1, SrcTypes DEF Awaited, Latest
    <3> QED
      BY <3>2 DEF Tracked
  <2>3. CASE kind # "file"
    BY <1>1, <2>3 DEF Tracked, Awaited
  <2> QED
    BY <2>1, <2>2, <2>3
<1> QED
  BY <1>5, <1>6, <1>7, <1>8, <1>9

(* A watcher reads its next script. *)
Reads == FileReload \/ StdinNext \/ TopicNext

LEMMA ReadsKeep == SrcInv /\ Reads => (Stages /\ Advance /\ NoneRead /\ Panicked /\ Tracked)'
<1> SUFFICES ASSUME SrcInv, Reads PROVE (Stages /\ Advance /\ NoneRead /\ Panicked /\ Tracked)'
  OBVIOUS
<1>0. Stages /\ Advance /\ NoneRead /\ Panicked /\ Tracked /\ SrcTypeOK
  BY DEF SrcInv
<1>1. UNCHANGED <<srcOpen, main, kind, watch, text, after, raw, pending, scriptOf>> /\ src \in {"loop", "reload"}
  BY DEF Reads, FileReload, StdinNext, TopicNext, srvVars, fixed
<1>2. srcOpen /\ src # "send" /\ src # "start"
  BY <1>0, <1>1 DEF Stages
<1>3. /\ taken' \in Nat /\ taken <= taken' /\ taken' <= Latest
      /\ kind # "file" => taken' = taken + 1
      /\ kind = "file" => taken' = Latest
      /\ src' \in {"send", "loop", "drop"} /\ (src' = "drop" => kind = "stdin")
      /\ src' # "send" => ~HasScript(taken')
      /\ kind = "file" => (src' = "send" <=> HasScript(Latest))
  <2>1. CASE FileReload
    BY <1>0, <2>1, SrcTypes DEF FileReload, Stages
  <2>2. CASE StdinNext
    <3>1. text[taken + 1] \in Quality
      BY <2>2, SrcTypes DEF StdinNext, Latest
    <3> QED
      BY <2>2, <3>1, SrcTypes DEF StdinNext, HasScript, Quality
  <2>3. CASE TopicNext
    BY <2>3, SrcTypes DEF TopicNext
  <2> QED
    BY <2>1, <2>2, <2>3 DEF Reads
<1>4. \A v : HasScript(v)' <=> HasScript(v)
  BY <1>1 DEF HasScript
<1>5. Latest' = Latest
  BY <1>1 DEF Latest
<1>6. Stages'
  BY <1>0, <1>1, <1>2, <1>3, <1>5 DEF Stages
<1>7. Advance'
  <2>1. \A i \in 1..Len(scriptOf) : scriptOf[i] \in Int
    BY SrcTypes
  <2>2. \A i \in 1..Len(scriptOf) : scriptOf[i] <= taken'
    BY <1>0, <1>3, <2>1, SrcTypes DEF Advance
  <2>3. kind # "file" => \A i \in 1..Len(scriptOf) : scriptOf[i] < taken'
    BY <1>0, <1>3, <2>1, SrcTypes DEF Advance
  <2> QED
    BY <1>0, <1>1, <2>2, <2>3 DEF Advance, ScriptsAdvance
<1>8. NoneRead'
  <2> SUFFICES ASSUME Mute'
               PROVE  /\ \A v \in 1..taken' : (kind = "stdin" \/ v = taken') => ~HasScript(v)
                      /\ ~(kind = "topic" /\ src' \in {"drop", "done"})
    BY <1>1, <1>4 DEF NoneRead
  <2>1. Mute /\ ~HasScript(taken')
    BY <1>1, <1>2, <1>3 DEF Mute
  <2>2. \A v \in 1..taken' : kind = "stdin" => v \in 1..taken \/ v = taken'
    BY <1>3, SrcTypes
  <2> QED
    BY <1>0, <1>3, <2>1, <2>2 DEF NoneRead
<1>9. Panicked'
  BY <1>0, <1>1 DEF Panicked
<1>10. Tracked'
  <2>1. Awaited' => Awaited
    BY <1>1, <1>4, <1>5 DEF Awaited
  <2>2. Awaited => src' = "send" /\ taken' = Latest
    BY <1>3 DEF Awaited
  <2>3. Awaited' => src' = "send" /\ taken' = Latest'
    BY <1>5, <2>1, <2>2
  <2> QED
    BY <2>3, Zenon DEF Tracked
<1> QED
  BY <1>6, <1>7, <1>8, <1>9, <1>10

(* The source's first script: nothing was sent before, and what parses is sent
   before the source goes on. *)
LEMMA StartKeeps ==
  ASSUME SrcInv, FileStart \/ StdinOnce \/ CommandsOnce \/ TopicStart
  PROVE  (Stages /\ Advance /\ NoneRead /\ Panicked /\ Tracked)'
<1>0. Stages /\ Advance /\ NoneRead /\ Panicked /\ Tracked /\ SrcTypeOK
  BY DEF SrcInv
<1>1. UNCHANGED <<kind, watch, text, raw, pending>> /\ src = "start" /\ main # "panicked"
  BY DEF FileStart, StdinOnce, CommandsOnce, TopicStart, fixed, Running, Terminal
<1>2. scriptOf = <<>> /\ taken = 0 /\ after = Nothing /\ srcOpen /\ Len(scriptOf) = 0
  BY <1>0, <1>1 DEF Stages
<1>3. /\ taken' \in {Latest, TopicContent} /\ taken' \in 0..Latest /\ taken' \in 0..MaxScripts
      /\ taken' \in Nat /\ Latest' = Latest
  <2>1. taken' \in {Latest, TopicContent} /\ Latest' = Latest
    BY <1>1 DEF FileStart, StdinOnce, CommandsOnce, TopicStart, Latest
  <2> QED
    BY <2>1, SrcTypes DEF TopicContent
<1>4. /\ src' \in {"exited", "register", "drop", "loop"}
      /\ src' = "register" => kind = "file"
      /\ kind = "file" => after' = after
  BY DEF FileStart, StdinOnce, CommandsOnce, TopicStart
<1>5. \A v : HasScript(v)' <=> HasScript(v)
  BY <1>1 DEF HasScript
<1>6. \/ SendEngine(taken')
      \/ NoSend /\ ~HasScript(taken') /\ (kind = "topic" => taken' = TopicContent /\ taken' # 0)
  <2>1. CASE FileStart
    BY <1>0, <2>1 DEF FileStart, SendFirst, HasScript
  <2>2. CASE StdinOnce
    BY <2>2, SrcTypes DEF StdinOnce, SendFirst, HasScript
  <2>3. CASE CommandsOnce
    BY <2>3 DEF CommandsOnce, SendFirst
  <2>4. CASE TopicStart
    BY <2>4 DEF TopicStart, SendFirst
  <2> QED
    BY <2>1, <2>2, <2>3, <2>4
<1>7. ~Awaited'
  BY <1>1, <1>2, <1>3, <1>4, SrcTypes DEF Awaited
<1>8. CASE SendEngine(taken')
  <2>1. /\ scriptOf' # <<>> /\ Len(scriptOf') = 1 /\ scriptOf'[1] = taken'
        /\ srcOpen' = srcOpen /\ main' = main
    <3>1. /\ Len(scriptOf') = Len(scriptOf) + 1 /\ scriptOf' # <<>>
          /\ scriptOf'[Len(scriptOf) + 1] = taken'
          /\ srcOpen' = srcOpen /\ main' = main
      BY <1>3, <1>8, Sending
    <3>2. Len(scriptOf) + 1 = 1
      BY <1>2
    <3> QED
      BY <3>1, <3>2
  <2>2. Stages'
    BY <1>0, <1>1, <1>2, <1>3, <1>4, <2>1 DEF Stages
  <2>3. Advance'
    BY <1>3, <1>4, <2>1 DEF Advance, ScriptsAdvance
  <2>4. (NoneRead /\ Panicked /\ Tracked)'
    BY <1>1, <1>7, <2>1 DEF NoneRead, Mute, Panicked, Tracked
  <2> QED
    BY <2>2, <2>3, <2>4
<1>9. CASE NoSend /\ ~HasScript(taken') /\ (kind = "topic" => taken' = TopicContent /\ taken' # 0)
  <2>1. scriptOf' = <<>> /\ srcOpen' = srcOpen /\ main' = main /\ Len(scriptOf') = 0
    BY <1>2, <1>9 DEF NoSend, srvVars
  <2>2. Stages'
    BY <1>0, <1>1, <1>2, <1>3, <1>4, <2>1 DEF Stages
  <2>3. Advance'
    BY <1>3, <1>4, <2>1 DEF Advance, ScriptsAdvance
  <2>4. NoneRead'
    <3>1. \A v \in 1..taken' : (kind = "stdin" \/ v = taken') => ~HasScript(v)
      <4>1. kind = "stdin" => taken' \in 0..1
        <5>1. kind = "stdin" => ~watch
          BY DEF FileStart, StdinOnce, CommandsOnce, TopicStart
        <5> QED
          BY <1>0, <1>3, <5>1, SrcTypes DEF Stages
      <4> QED
        BY <1>9, <4>1
    <3>2. kind = "topic" => taken' > 0 /\ text[taken'] = "bad"
      <4>1. ASSUME kind = "topic" PROVE taken' > 0 /\ text[taken'] = "bad"
        <5>1. taken' = Latest /\ Latest > 0 /\ text[Latest] # "blank"
          BY <1>3, <1>9, <4>1, SrcTypes DEF TopicContent
        <5>2. text[Latest] \in Quality
          BY <5>1, SrcTypes DEF Latest
        <5> QED
          BY <1>9, <5>1, <5>2 DEF HasScript, Quality
      <4> QED
        BY <4>1
    <3> QED
      BY <1>1, <1>5, <3>1, <3>2 DEF NoneRead
  <2>5. (Panicked /\ Tracked)'
    BY <1>1, <1>7, <2>1 DEF Panicked, Tracked
  <2> QED
    BY <2>2, <2>3, <2>4, <2>5
<1> QED
  BY <1>6, <1>8, <1>9

(* A watcher's engine goes into the channel behind the others. *)
LEMMA SendKeeps == SrcInv /\ Send => (Stages /\ Advance /\ NoneRead /\ Panicked /\ Tracked)'
<1> SUFFICES ASSUME SrcInv, Send PROVE (Stages /\ Advance /\ NoneRead /\ Panicked /\ Tracked)'
  OBVIOUS
<1> DEFINE n == Len(scriptOf)
<1>0. Stages /\ Advance /\ NoneRead /\ Panicked /\ Tracked /\ SrcTypeOK
  BY DEF SrcInv
<1>1. UNCHANGED <<kind, watch, text, taken, after, raw, pending>> /\ src = "send" /\ src' = "loop"
  BY DEF Send, fixed
<1>2. /\ scriptOf' # <<>> /\ Len(scriptOf') = n + 1 /\ n \in Nat
      /\ \A i \in 1..n : scriptOf'[i] = scriptOf[i]
      /\ scriptOf'[n + 1] = taken
      /\ srcOpen' = srcOpen /\ main' = main /\ srcOpen /\ main # "panicked"
  <2>1. taken \in 0..MaxScripts /\ SendEngine(taken)
    BY SrcTypes DEF Send
  <2> QED
    BY <2>1, Sending, SrcTypes
<1>3. Latest' = Latest /\ (HasScript(Latest)' <=> HasScript(Latest))
  BY <1>1 DEF Latest, HasScript
<1>4. \A i \in 1..n : scriptOf[i] \in Nat /\ scriptOf[i] <= MaxScripts
  BY SrcTypes
<1> HIDE DEF n
<1>5. Stages'
  BY <1>0, <1>1, <1>2, <1>3 DEF Stages
<1>6. Advance'
  <2>1. /\ \A i \in 1..n : scriptOf[i] <= taken
        /\ kind # "file" => \A i \in 1..n : scriptOf[i] < taken
        /\ \A i, j \in 1..n : i < j => \/ scriptOf[i] < scriptOf[j]
                                       \/ kind = "file" /\ scriptOf[i] = scriptOf[j]
    BY <1>0, <1>1 DEF Advance, ScriptsAdvance, n
  <2>2. \A i \in 1..(n + 1) : scriptOf'[i] <= taken
    BY <1>2, <2>1, SrcTypes
  <2>3. ASSUME NEW i \in 1..(n + 1), NEW j \in 1..(n + 1), i < j
        PROVE  \/ scriptOf'[i] < scriptOf'[j]
               \/ kind = "file" /\ scriptOf'[i] = scriptOf'[j]
    <3>1. i \in 1..n /\ scriptOf'[i] = scriptOf[i]
      BY <1>2, <2>3
    <3>2. CASE j \in 1..n
      BY <1>2, <2>1, <2>3, <3>1, <3>2
    <3>3. CASE j = n + 1
      <4>1. scriptOf'[j] = taken
        BY <1>2, <3>3
      <4>2. scriptOf[i] <= taken /\ (kind # "file" => scriptOf[i] < taken) /\ scriptOf[i] \in Nat
        BY <1>4, <2>1, <3>1
      <4> QED
        BY <3>1, <4>1, <4>2, SrcTypes
    <3> QED
      BY <1>2, <3>2, <3>3
  <2>4. ScriptsAdvance'
    BY <1>1, <1>2, <2>3 DEF ScriptsAdvance
  <2> QED
    BY <1>1, <1>2, <2>2, <2>4 DEF Advance
<1>7. (NoneRead /\ Panicked)'
  BY <1>2 DEF NoneRead, Mute, Panicked
<1>8. Tracked'
  <2>0. scriptOf'[n + 1] = Latest => scriptOf' # <<>> /\ scriptOf'[Len(scriptOf')] = Latest'
    BY <1>2, <1>3
  <2> SUFFICES ASSUME Awaited', ~(raw' = "change" \/ pending')
               PROVE  scriptOf'[n + 1] = Latest
    BY <2>0, Zenon DEF Tracked
  <2>1. Awaited /\ raw # "change" /\ ~pending
    BY <1>1, <1>3 DEF Awaited
  <2>2. taken = Latest \/ (scriptOf # <<>> /\ scriptOf[n] = Latest)
    BY <1>0, <1>1, <2>1 DEF Tracked, n
  <2>3. CASE scriptOf # <<>> /\ scriptOf[n] = Latest
    <3>1. n \in 1..n
      BY <1>2, <2>3, SrcTypes DEF n
    <3>2. scriptOf[n] <= taken
      BY <1>0, <3>1 DEF Advance, n
    <3> QED
      BY <1>2, <2>3, <3>2, SrcTypes
  <2> QED
    BY <1>2, <2>2, <2>3
<1> QED
  BY <1>5, <1>6, <1>7, <1>8

(* The sender is dropped. *)
LEMMA DropKeeps == SrcInv /\ DropSender => (Stages /\ Advance /\ NoneRead /\ Panicked /\ Tracked)'
<1> SUFFICES ASSUME SrcInv, DropSender PROVE (Stages /\ Advance /\ NoneRead /\ Panicked /\ Tracked)'
  OBVIOUS
<1>0. Stages /\ Advance /\ NoneRead /\ Panicked /\ Tracked /\ SrcTypeOK
  BY DEF SrcInv
<1>1. /\ UNCHANGED <<kind, watch, text, taken, after, raw, pending, scriptOf, main>>
      /\ src = "drop" /\ src' = "done" /\ srcOpen' = FALSE /\ main # "panicked"
  BY DEF DropSender, SourceCloses, fixed, Running, Terminal
<1>2. (Stages /\ Advance /\ Panicked)'
  BY <1>0, <1>1 DEF Stages, Latest, Advance, ScriptsAdvance, Panicked
<1>4. Tracked'
  <2>1. src' \in {"reload", "done"}
    BY <1>1
  <2> QED
    BY <2>1, Zenon DEF Tracked
<1>3. NoneRead'
  <2>1. Mute' => Mute
    BY <1>1 DEF Mute
  <2>2. \A v : HasScript(v)' <=> HasScript(v)
    BY <1>1 DEF HasScript
  <2> QED
    BY <1>0, <1>1, <2>1, <2>2 DEF NoneRead
<1> QED
  BY <1>2, <1>3, <1>4

(* The server's own steps: it panics only on a closed, empty channel, and then
   no engine was ever sent. *)
LEMMA ServerKeeps ==
  ASSUME SrcInv, ServerStep \/ (Signal /\ UNCHANGED srcVars)
  PROVE  (Stages /\ Advance /\ NoneRead /\ Panicked /\ Tracked)'
<1>0. Stages /\ Advance /\ NoneRead /\ Panicked /\ Tracked /\ SrcTypeOK /\ SrvInv
  BY DEF SrcInv
<1>1. UNCHANGED <<srcVars, srcOpen>>
  BY DEF ServerStep, Signal, Serve, Updater, FirstEngine, NoEngine, StopWhileWaiting, Bind, BreakLoop,
         CancelSse, Count, Drained, Timeout, UpdRecv, UpdCancel, UpdSwap
<1>2. UNCHANGED <<kind, watch, src, text, taken, after, raw, pending, scriptOf>>
  BY <1>1 DEF srcVars
<1>3. (Stages /\ Advance /\ Tracked)'
  BY <1>0, <1>1, <1>2 DEF Stages, Latest, Nothing, Advance, ScriptsAdvance, Tracked, Awaited, HasScript
<1>4. NoneRead'
  BY <1>0, <1>1, <1>2 DEF NoneRead, Mute, HasScript
<1>5. Panicked'
  <2>1. CASE NoEngine
    <3>1. produced = 0 /\ ~srcOpen
      BY <1>0, <2>1 DEF NoEngine, SrvInv, InOrder, Newest, Begun
    <3>2. scriptOf = <<>>
      BY <3>1, SrcTypes
    <3> QED
      BY <1>1, <1>2, <3>1, <3>2 DEF Panicked
  <2>2. CASE ~NoEngine
    <3>1. main' = "panicked" => main = "panicked"
      BY <2>2 DEF ServerStep, Signal, Serve, Updater, FirstEngine, StopWhileWaiting, Bind, BreakLoop,
         CancelSse, Count, Drained, Timeout, UpdRecv, UpdCancel, UpdSwap
    <3> QED
      BY <1>0, <1>1, <1>2, <3>1 DEF Panicked
  <2> QED
    BY <2>1, <2>2
<1> QED
  BY <1>3, <1>4, <1>5

(* Every step of a server with its source preserves the inductive invariant. *)
LEMMA SrcInvStep == SrcInv /\ [SrcNext]_allVars => SrcInv'
<1> SUFFICES ASSUME SrcInv, [SrcNext]_allVars PROVE SrcInv'
  OBVIOUS
<1>1. SrvInv' /\ SrcTypeOK'
  BY SrcIsSrv, SrvInvStep, SrcTypeStep DEF SrcInv
<1>2. (Stages /\ Advance /\ NoneRead /\ Panicked /\ Tracked)'
  <2>1. CASE UNCHANGED allVars
    BY <2>1 DEF allVars, srcVars, srvVars, SrcInv, Stages, Latest, Nothing, Advance, ScriptsAdvance,
         NoneRead, Mute, HasScript, Panicked, Tracked, Awaited
  <2>2. CASE \E q \in Quality : Write(q)
    BY <2>2, WriteKeeps
  <2>3. CASE Moves
    BY <2>3, MovesKeep
  <2>4. CASE FileStart \/ StdinOnce \/ CommandsOnce \/ TopicStart
    BY <2>4, StartKeeps
  <2>5. CASE Reads \/ Send \/ DropSender
    BY <2>5, ReadsKeep, SendKeeps, DropKeeps
  <2>6. CASE ServerStep \/ (Signal /\ UNCHANGED srcVars)
    BY <2>6, ServerKeeps
  <2> QED
    BY <2>1, <2>2, <2>3, <2>4, <2>5, <2>6 DEF SrcNext, Source, Starting, Moves, Reads
<1> QED
  BY <1>1, <1>2 DEF SrcInv

LEMMA SrcInvInit == SrcInit => SrcInv
<1> SUFFICES ASSUME SrcInit PROVE SrcInv
  OBVIOUS
<1>1. SrvInv /\ produced = 0 /\ srcOpen = TRUE /\ main = "waiting"
  BY SrvInvInit DEF SrcInit, SrvInit
<1>2. /\ text \in Seq(Quality) /\ Len(text) <= 2 /\ Len(text) \in Nat
      /\ kind \in {"file", "commands"} => text # <<>>
      /\ kind = "stdin" => Len(text) = 0
  <2>1. CASE kind = "stdin"
    BY <2>1 DEF SrcInit
  <2>2. CASE kind = "topic"
    <3>1. PICK m \in 0..2 : text \in [1..m -> Quality]
      BY <2>2 DEF SrcInit
    <3>2. text \in Seq(Quality) /\ Len(text) = m
      BY <3>1
    <3> QED
      BY <2>2, <3>1, <3>2
  <2>3. CASE kind = "file"
    <3>1. PICK e \in Quality : text = <<e>>
      BY <2>3 DEF SrcInit
    <3> QED
      BY <2>3, <3>1
  <2>4. CASE kind = "commands"
    <3>1. text = <<"good">> \/ text = <<"bad">>
      BY <2>4 DEF SrcInit
    <3> QED
      BY <2>4, <3>1 DEF Quality
  <2> QED
    BY <2>1, <2>2, <2>3, <2>4 DEF SrcInit
<1>3. SrcTypeOK
  <2>1. Len(text) <= MaxScripts /\ taken \in 0..Len(text) /\ after \in 0..Nothing /\ touches \in 0..MaxTouches
    BY <1>2, MaxScriptsAssumption DEF SrcInit, Nothing
  <2>2. scriptOf \in Seq(0..MaxScripts) /\ Len(scriptOf) = produced
    BY <1>1 DEF SrcInit
  <2>3. watch \in BOOLEAN /\ eof \in BOOLEAN /\ pending \in BOOLEAN
    BY DEF SrcInit
  <2>4. kind \in {"file", "stdin", "topic", "commands"}
    BY DEF SrcInit
  <2> QED
    BY <1>2, <2>1, <2>2, <2>3, <2>4 DEF SrcInit, SrcTypeOK
<1>4. Stages
  BY <1>1, <1>2 DEF SrcInit, Stages, Latest
<1>5. Advance /\ Panicked
  BY <1>1 DEF SrcInit, Advance, ScriptsAdvance, Panicked
<1>6. NoneRead
  BY DEF SrcInit, NoneRead, HasScript
<1>7. Tracked
  <2>1. ~(Latest > after)
    BY <1>2, MaxScriptsAssumption DEF SrcInit, Latest, Nothing
  <2> QED
    BY <2>1 DEF Tracked, Awaited
<1> QED
  BY <1>1, <1>3, <1>4, <1>5, <1>6, <1>7 DEF SrcInv

LEMMA SrcInvariance == SrcSpec => []SrcInv
  BY SrcInvInit, SrcInvStep, PTL DEF SrcSpec

(* The variables of every source keep their types; an engine has a script. *)
THEOREM SrcTypeCorrect == SrcSpec => []SrcTypeOK
<1>1. SrcInv => SrcTypeOK
  BY DEF SrcInv
<1> QED
  BY <1>1, SrcInvariance, PTL

(* No source delivers an older script after a newer one, nor a frame or a
   script of stdin twice. *)
THEOREM SrcScriptsAdvance == SrcSpec => []ScriptsAdvance
<1>1. SrcInv => ScriptsAdvance
  BY DEF SrcInv, Advance
<1> QED
  BY <1>1, SrcInvariance, PTL

(* serve()'s "no engine received" panic means that nothing the source read
   parses. *)
THEOREM SrcPanicMeansNoScript == SrcSpec => []PanicMeansNoScript
<1>1. SrcInv => PanicMeansNoScript
  <2> SUFFICES ASSUME SrcInv, main = "panicked"
               PROVE  /\ scriptOf = <<>>
                      /\ \A v \in 1..taken : (kind = "stdin" \/ v = taken) => ~HasScript(v)
                      /\ kind = "topic" => taken > 0 /\ text[taken] = "bad"
    BY DEF PanicMeansNoScript
  <2>1. scriptOf = <<>> /\ ~srcOpen /\ src = "done"
    BY DEF SrcInv, Panicked, Stages
  <2> QED
    BY <2>1 DEF SrcInv, NoneRead, Mute
<1> QED
  BY <1>1, SrcInvariance, PTL

(* A file watcher at rest has delivered the current script. *)
THEOREM SrcAsleepMeansFresh == SrcSpec => []AsleepMeansFresh
<1>1. SrcInv => AsleepMeansFresh
  BY DEF SrcInv, Tracked, Awaited, AsleepMeansFresh
<1> QED
  BY <1>1, SrcInvariance, PTL
=============================================================================
