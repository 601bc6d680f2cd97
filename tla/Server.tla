------------------------------- MODULE Server -------------------------------
(***************************************************************************)
(* serve() of src/main.rs: waiting for the first engine, the task that     *)
(* swaps in reloaded engines, the accept loop, and graceful shutdown.      *)
(*                                                                         *)
(* An engine is its generation 1, 2, ...; each has its own SSE cancel      *)
(* token.  A connection carries one request at a time: the handler loads   *)
(* the current engine once (load_full) and keeps that generation for the   *)
(* whole response, an event stream included.  What happens inside a        *)
(* request is module Request's.  With TLS, Listener::accept awaits the     *)
(* handshake too, so one connection at a time is between the two.          *)
(***************************************************************************)
EXTENDS Naturals, Sequences

CONSTANTS Conns,   \* connections
          Stallers,\* connections whose client may never finish a handshake
          MaxGen   \* bound: engines the script source delivers

ASSUME MaxGenAssumption == MaxGen \in Nat \ {0}

VARIABLES
  srcOpen,    \* the script source still holds the channel's sender
  produced,   \* engines the source has sent
  queue,      \* mpsc::channel::<Engine>(1)
  main,       \* control state of serve()
  current,    \* generation in the ArcSwap, 0 before the first
  upd,        \* updater task
  held,       \* generation the updater has received and not stored
  cancelled,  \* generations whose SSE token is cancelled
  conn,       \* [Conns -> connection state]
  gen,        \* [Conns -> generation loaded by the connection's request]
  tls,        \* TLS is configured
  told,       \* [Conns -> has the connection seen the graceful shutdown]
  signal,     \* SIGINT, SIGTERM or the interrupt flag
  stopGen     \* history: the generation cancelled by shutdown, 0 before

srvVars == <<srcOpen, produced, queue, main, current, upd, held, cancelled,
             conn, gen, told, signal, stopGen, tls>>
connVars == <<conn, gen, told, tls>>

Gens == 1..MaxGen
Terminal == {"stopped", "timedout", "failed", "panicked"}
MainStates == {"waiting", "binding", "accepting", "cancel", "count", "draining"} \cup Terminal
Served == {"idle", "eval", "sse", "stream"}
ConnStates == {"none", "backlog", "handshake", "closed"} \cup Served

SrvTypeOK ==
  /\ srcOpen \in BOOLEAN /\ signal \in BOOLEAN /\ tls \in BOOLEAN
  /\ produced \in 0..MaxGen
  /\ queue \in Seq(Gens) /\ Len(queue) <= 1
  /\ main \in MainStates
  /\ current \in 0..MaxGen /\ held \in 0..MaxGen /\ stopGen \in 0..MaxGen
  /\ upd \in {"off", "recv", "cancel", "swap", "done"}
  /\ cancelled \subseteq Gens
  /\ conn \in [Conns -> ConnStates]
  /\ gen \in [Conns -> 0..MaxGen]
  /\ told \in [Conns -> BOOLEAN]

SrvInit ==
  /\ srcOpen = TRUE /\ produced = 0 /\ queue = <<>>
  /\ main = "waiting" /\ current = 0
  /\ upd = "off" /\ held = 0 /\ cancelled = {}
  /\ conn = [c \in Conns |-> "none"]
  /\ gen = [c \in Conns |-> 0]
  /\ told = [c \in Conns |-> FALSE]
  /\ signal = FALSE /\ stopGen = 0 /\ tls \in BOOLEAN

Running == main \notin Terminal
Open(c) == conn[c] \in Served

-----------------------------------------------------------------------------
(* A file, stdin or topic source sends an engine when the channel has room;
   without --watch it drops its sender after the first. *)
SourceSends ==
  /\ Running /\ srcOpen
  /\ produced < MaxGen /\ queue = <<>>
  /\ produced' = produced + 1
  /\ queue' = <<produced + 1>>
  /\ UNCHANGED <<srcOpen, main, current, upd, held, cancelled, connVars, signal, stopGen>>

SourceCloses ==
  /\ Running /\ srcOpen
  /\ srcOpen' = FALSE
  /\ UNCHANGED <<produced, queue, main, current, upd, held, cancelled, connVars, signal, stopGen>>

(* shutdown_signal: SIGINT, SIGTERM, or the interrupt flag it polls *)
Signal ==
  /\ Running /\ ~signal
  /\ signal' = TRUE
  /\ UNCHANGED <<srcOpen, produced, queue, main, current, upd, held, cancelled, connVars, stopGen>>

-----------------------------------------------------------------------------
(* The first engine goes into the ArcSwap and the updater is spawned. *)
FirstEngine ==
  /\ main = "waiting" /\ queue # <<>>
  /\ current' = Head(queue) /\ queue' = Tail(queue)
  /\ main' = "binding" /\ upd' = "recv"
  /\ UNCHANGED <<srcOpen, produced, held, cancelled, connVars, signal, stopGen>>

(* .expect("no engine received - source closed without providing ...") *)
NoEngine ==
  /\ main = "waiting" /\ queue = <<>> /\ ~srcOpen
  /\ main' = "panicked"
  /\ UNCHANGED <<srcOpen, produced, queue, current, upd, held, cancelled, connVars, signal, stopGen>>

StopWhileWaiting ==
  /\ main = "waiting" /\ signal
  /\ main' = "stopped"
  /\ UNCHANGED <<srcOpen, produced, queue, current, upd, held, cancelled, connVars, signal, stopGen>>

(* TlsConfig::from_pem and Listener::bind, either of which may fail *)
Bind ==
  /\ main = "binding"
  /\ main' \in {"accepting", "failed"}
  /\ UNCHANGED <<srcOpen, produced, queue, current, upd, held, cancelled, connVars, signal, stopGen>>

-----------------------------------------------------------------------------
(* The updater task: recv, cancel the old engine's token, store the new one
   and log the reload.  It ends with the channel and dies with the process;
   shutdown does not stop it. *)
UpdRecv ==
  /\ Running /\ upd = "recv"
  /\ \/ /\ queue # <<>>
        /\ held' = Head(queue) /\ queue' = Tail(queue) /\ upd' = "cancel"
     \/ /\ queue = <<>> /\ ~srcOpen
        /\ upd' = "done" /\ UNCHANGED <<held, queue>>
  /\ UNCHANGED <<srcOpen, produced, main, current, cancelled, connVars, signal, stopGen>>

(* The Bad... operators are faulty variants of the definition that follows. *)
BadUpdCancel ==              \* store the new engine first, then cancel load()
  /\ Running /\ upd = "cancel"
  /\ current' = held /\ cancelled' = cancelled \cup {held}
  /\ upd' = "swap"
  /\ UNCHANGED <<srcOpen, produced, queue, main, held, connVars, signal, stopGen>>

UpdCancel ==
  /\ Running /\ upd = "cancel"
  /\ cancelled' = cancelled \cup {current}
  /\ upd' = "swap"
  /\ UNCHANGED <<srcOpen, produced, queue, main, current, held, connVars, signal, stopGen>>

UpdSwap ==
  /\ Running /\ upd = "swap"
  /\ current' = held
  /\ upd' = "recv"
  /\ UNCHANGED <<srcOpen, produced, queue, main, held, cancelled, connVars, signal, stopGen>>

-----------------------------------------------------------------------------
(* A client connects to the bound socket and waits in its backlog. *)
Connect(c) ==
  /\ Running /\ main \notin {"waiting", "binding"}
  /\ conn[c] = "none"
  /\ conn' = [conn EXCEPT ![c] = "backlog"]
  /\ UNCHANGED <<srcOpen, produced, queue, main, current, upd, held, cancelled, gen, told, tls, signal, stopGen>>

(* Listener::accept takes the next connection; with TLS it goes on to await
   that client's handshake, and the loop takes no other meanwhile.  Without,
   the loop spawns a task for it, watched by `graceful`. *)
Accept(c) ==
  /\ main = "accepting" /\ \A d \in Conns : conn[d] # "handshake"
  /\ conn[c] = "backlog"
  /\ conn' = [conn EXCEPT ![c] = IF tls THEN "handshake" ELSE "idle"]
  /\ UNCHANGED <<srcOpen, produced, queue, main, current, upd, held, cancelled, gen, told, tls, signal, stopGen>>

Handshake(c) ==
  /\ main = "accepting" /\ conn[c] = "handshake"
  /\ conn' = [conn EXCEPT ![c] = "idle"]
  /\ UNCHANGED <<srcOpen, produced, queue, main, current, upd, held, cancelled, gen, told, tls, signal, stopGen>>

BadHandshakeFails(c) ==      \* an error of accept() ends the accept loop
  /\ main = "accepting" /\ conn[c] = "handshake"
  /\ conn' = [conn EXCEPT ![c] = "closed"]
  /\ main' = "cancel"
  /\ UNCHANGED <<srcOpen, produced, queue, current, upd, held, cancelled, gen, told, tls, signal, stopGen>>

(* A TLS error, or a client that is gone: accept() fails, the loop goes on. *)
HandshakeFails(c) ==
  /\ main = "accepting" /\ conn[c] = "handshake"
  /\ conn' = [conn EXCEPT ![c] = "closed"]
  /\ UNCHANGED <<srcOpen, produced, queue, main, current, upd, held, cancelled, gen, told, tls, signal, stopGen>>

(* handle(): load_full() takes the engine of this moment.  A connection that
   was told to shut down takes no further request. *)
StartRequest(c) ==
  /\ Running /\ conn[c] = "idle" /\ ~told[c]
  /\ conn' = [conn EXCEPT ![c] = "eval"]
  /\ gen' = [gen EXCEPT ![c] = current]
  /\ UNCHANGED <<srcOpen, produced, queue, main, current, upd, held, cancelled, told, tls, signal, stopGen>>

(* The closure's answer: complete at once, an event stream, another stream *)
Respond(c) ==
  /\ Running /\ conn[c] = "eval"
  /\ \E r \in {"idle", "sse", "stream"} :
       conn' = [conn EXCEPT ![c] = IF r = "idle" /\ told[c] THEN "closed" ELSE r]
  /\ UNCHANGED <<srcOpen, produced, queue, main, current, upd, held, cancelled, gen, told, tls, signal, stopGen>>

BadSseCancelled(c) ==        \* the token of the engine that is current now
  /\ Running /\ conn[c] = "sse" /\ current \in cancelled
  /\ \E r \in {"idle", "closed"} :
       conn' = [conn EXCEPT ![c] = IF told[c] THEN "closed" ELSE r]
  /\ UNCHANGED <<srcOpen, produced, queue, main, current, upd, held, cancelled, gen, told, tls, signal, stopGen>>

(* An event stream polled with a cancelled token ends with an error, which
   closes an HTTP/1 connection and resets an HTTP/2 stream. *)
SseCancelled(c) ==
  /\ Running /\ conn[c] = "sse" /\ gen[c] \in cancelled
  /\ \E r \in {"idle", "closed"} :
       conn' = [conn EXCEPT ![c] = IF told[c] THEN "closed" ELSE r]
  /\ UNCHANGED <<srcOpen, produced, queue, main, current, upd, held, cancelled, gen, told, tls, signal, stopGen>>

(* A stream's script is done, or its client hangs up. *)
StreamEnds(c) ==
  /\ Running /\ conn[c] \in {"sse", "stream"}
  /\ conn' = [conn EXCEPT ![c] = IF told[c] THEN "closed" ELSE "idle"]
  /\ UNCHANGED <<srcOpen, produced, queue, main, current, upd, held, cancelled, gen, told, tls, signal, stopGen>>

HangUp(c) ==
  /\ Running /\ Open(c)
  /\ conn' = [conn EXCEPT ![c] = "closed"]
  /\ UNCHANGED <<srcOpen, produced, queue, main, current, upd, held, cancelled, gen, told, tls, signal, stopGen>>

-----------------------------------------------------------------------------
(* The select drops accept(), and a connection in its handshake with it. *)
BreakLoop ==
  /\ main = "accepting" /\ signal
  /\ main' = "cancel"
  /\ conn' = [c \in Conns |-> IF conn[c] = "handshake" THEN "closed" ELSE conn[c]]
  /\ UNCHANGED <<srcOpen, produced, queue, current, upd, held, cancelled, gen, told, tls, signal, stopGen>>

BadCancelSse ==              \* no cancel: event streams hold the drain
  /\ main = "cancel"
  /\ stopGen' = current
  /\ main' = "count"
  /\ UNCHANGED <<srcOpen, produced, queue, current, upd, held, cancelled, connVars, signal>>

(* engine.load().sse_cancel_token.cancel() *)
CancelSse ==
  /\ main = "cancel"
  /\ cancelled' = cancelled \cup {current}
  /\ stopGen' = current
  /\ main' = "count"
  /\ UNCHANGED <<srcOpen, produced, queue, current, upd, held, connVars, signal>>

BadCount ==                  \* look at busy connections only
  /\ main = "count"
  /\ main' = IF \E c \in Conns : conn[c] \in {"eval", "sse"} THEN "draining" ELSE "stopped"
  /\ UNCHANGED <<srcOpen, produced, queue, current, upd, held, cancelled, connVars, signal, stopGen>>

(* graceful.count(): every connection still open counts, idle ones too *)
Count ==
  /\ main = "count"
  /\ main' = IF \E c \in Conns : Open(c) THEN "draining" ELSE "stopped"
  /\ UNCHANGED <<srcOpen, produced, queue, current, upd, held, cancelled, connVars, signal, stopGen>>

(* A connection task notices graceful.shutdown(): an idle connection closes,
   a busy one closes after its response. *)
Told(c) ==
  /\ main = "draining" /\ Open(c) /\ ~told[c]
  /\ told' = [told EXCEPT ![c] = TRUE]
  /\ conn' = [conn EXCEPT ![c] = IF @ = "idle" THEN "closed" ELSE @]
  /\ UNCHANGED <<srcOpen, produced, queue, main, current, upd, held, cancelled, gen, tls, signal, stopGen>>

Drained ==
  /\ main = "draining" /\ \A c \in Conns : ~Open(c)
  /\ main' = "stopped"
  /\ UNCHANGED <<srcOpen, produced, queue, current, upd, held, cancelled, connVars, signal, stopGen>>

BadTimeout ==                \* wait for event streams and handlers only
  /\ main = "draining" /\ \A c \in Conns : conn[c] # "stream"
  /\ main' = "timedout"
  /\ UNCHANGED <<srcOpen, produced, queue, current, upd, held, cancelled, connVars, signal, stopGen>>

(* tokio::time::sleep(10 s) wins the select *)
Timeout ==
  /\ main = "draining"
  /\ main' = "timedout"
  /\ UNCHANGED <<srcOpen, produced, queue, current, upd, held, cancelled, connVars, signal, stopGen>>

-----------------------------------------------------------------------------
Updater == UpdRecv \/ UpdCancel \/ UpdSwap

Serve == FirstEngine \/ NoEngine \/ StopWhileWaiting \/ Bind \/ BreakLoop
         \/ CancelSse \/ Count \/ Drained \/ Timeout

SrvNext ==
  \/ SourceSends \/ SourceCloses \/ Signal
  \/ Serve \/ Updater
  \/ \E c \in Conns : \/ Connect(c) \/ Accept(c) \/ Handshake(c) \/ HandshakeFails(c)
                      \/ StartRequest(c) \/ Respond(c) \/ SseCancelled(c)
                      \/ StreamEnds(c) \/ HangUp(c) \/ Told(c)

SrvSpec == SrvInit /\ [][SrvNext]_srvVars

(* serve() and the updater are scheduled; a cancelled event stream is polled
   (its client reads); a handshake ends unless its client is a staller.
   Nothing is assumed of scripts, other streams or clients, nor that
   connections drain: the 10 s sleep always fires. *)
SrvFairness ==
  /\ WF_srvVars(Serve)
  /\ WF_srvVars(Updater)
  /\ WF_srvVars(\E c \in Conns : Accept(c))
  /\ \A c \in Conns \ Stallers : WF_srvVars(Handshake(c) \/ HandshakeFails(c))
  /\ \A c \in Conns : WF_srvVars(SseCancelled(c)) /\ WF_srvVars(Told(c))

FairSrvSpec == SrvSpec /\ SrvFairness

-----------------------------------------------------------------------------
(* README: "Active SSE connections are aborted on reload": an event stream
   that is still open on an engine other than the current one has a cancelled
   token, wherever the updater stands between cancel and store, and however
   the request's load raced it. *)
StaleSseCancelled ==
  \A c \in Conns : conn[c] = "sse" /\ gen[c] # current => gen[c] \in cancelled

(* ... and so it ends. *)
StaleSseEnds ==
  \A c \in Conns, g \in Gens :
    (conn[c] = "sse" /\ gen[c] = g /\ g # current)
      ~> (conn[c] # "sse" \/ gen[c] # g \/ ~Running)

(* An event stream that a drain finds with a live token can only come from an
   engine that was swapped in after shutdown cancelled the current one. *)
DrainSseIsLateReload ==
  \A c \in Conns :
    main \in {"count", "draining"} /\ conn[c] = "sse" /\ gen[c] \notin cancelled
      => gen[c] > stopGen

(* "stopped" is logged only when every connection is closed; otherwise the
   drain was cut short by the timeout. *)
StoppedMeansDrained == main = "stopped" => \A c \in Conns : ~Open(c)

(* A signal stops the server whatever connections, streams and reloads do. *)
SignalStops == signal ~> ~Running

(* The accept loop takes every client that connects, whatever handshakes fail
   before it, until a signal comes: only a client that stalls its own
   handshake, which accept() awaits in line, can hold up the others. *)
AcceptsUnlessStalled ==
  \A c \in Conns :
    (conn[c] = "backlog" /\ main = "accepting")
      ~> (conn[c] # "backlog" \/ signal \/ \E d \in Stallers : conn[d] = "handshake")
=============================================================================
