# A TLA+ model of http-nu

http-nu is an HTTP server that answers requests with a Nushell closure. This
directory holds TLA+ modules that model its concurrent core, TLC configurations
that check them on small instances, and TLAPS proofs of the properties that
matter most for every instance. Paths such as `handler.rs` are under the
repository's `src/`.

## 1. The system

| Component | State it keeps | Operations | Talks to |
| --- | --- | --- | --- |
| server lifecycle (`main.rs`: `serve`) | the current engine (ArcSwap), its SSE cancel token, the tracked connections | take the first engine, bind, accept, cancel, drain, time out | engine channel, updater task, connections, signals |
| engine updater (`main.rs` 331-339) | the engine it has received | receive, cancel the old token, store, log | engine channel, ArcSwap |
| engine sources (`main.rs` `file_source`, `stdin_source`; `store.rs` `topic_source`) | pending reload, last frame | read, parse, send an engine | bounded engine channel (1) |
| request handler (`handler.rs`) | one future per request | pump the body, spawn the evaluation, join both answers, build the response | evaluation thread (two oneshots), ServeDir, upstream server, hyper |
| evaluation worker (`worker.rs`) | a thread and a job per request, the thread-local `RESPONSE_TX` | run the closure, send the result, stream values, clean up | handler, stream channel (32), job table |
| request log phases (`logging.rs`: `RequestGuard`, `LoggingBody`) | who owns the guard | log request, response, complete | log channel |
| event bus (`bus.rs`, `.bus pub`, `.bus sub`) | broadcast ring (64), a forwarder thread and an unbounded channel per subscription | publish, subscribe, receive, forward, poll | scripts, interrupt signal |
| SSE over the bus (`to sse`, worker, handler) | one response per subscription | pull, format, send, poll, cancel, abort | bus, stream channel, cancel token |
| special responses (`.static`, `.reverse-proxy`) | none | send a message to the handler | handler |
| log transport and writers (`logging.rs`) | broadcast ring (65536), in-flight table, rate limiter | emit, receive, recover from lag | stdout |
| brotli stream (`compression.rs`) | encoder, finished flag | drain, flush, finish | response stream |
| glob matcher, trusted IP, response metadata | none | pure functions | bus, handler |
| template commands (`.mj`, `.mj compile`, `.mj render`) | process-wide cache of compiled templates | compile, render | scripts, files, store |
| markup commands (`.md`, `.highlight`) | none | render | scripts |
| listener and TLS (`listener.rs`) | a socket | bind, accept with its TLS handshake | server lifecycle |

What is hard in it: every request is five concurrent actors (client, body pump,
evaluation thread, handler future, hyper polling the body) that meet in two
oneshots and two bounded channels, any of which may be dropped at any moment.
Reloads race requests that have already loaded an engine. Shutdown races
reloads. A bus subscription crosses a ring that overwrites, a thread, an
unbounded channel and a polling iterator before it reaches a response that may
be cancelled. `PROJECT.json` lists these points as hazards, each at its line,
with the properties that cover it.

What makes the components correct:

* bus: a subscriber receives the matching events since its call, each once and
  in order; it ends when it can no longer do so, and only then; threads do not
  outlive their readers for ever;
* request: each request logs its phases once and in order on every path; a
  stream is delivered complete and in order; a gone client releases everything;
  the handler never waits for a dead thread;
* server: event streams of a replaced engine are cancelled and end, no reload is
  lost, a signal always stops the server, and `stopped` means drained;
* engine sources: no edit is lost once the watcher is there, no source goes back,
  and a start without an engine means that nothing parsed;
* compression: what a client decodes is a prefix of the stream, whole exactly
  when the stream ended in order, and an idle stream withholds nothing;
* templates: a shared cache never shows another template's text;
* log: the process does not end before every event is shown or counted, the
  in-flight table keeps no request that is over, and nothing stays buffered while
  idle.

## 2. The modules

| Module | Models | Uses |
| --- | --- | --- |
| `EventFeed` | abstract specification: what a subscription promises | |
| `Bus` | `bus.rs`, `.bus pub`, `.bus sub` | refines `EventFeed` |
| `BusProofs` | TLAPS proofs about `Bus` | `Bus`, `EventFeed` |
| `Request` | one request: `handler.rs`, `worker.rs`, guard and body of `logging.rs`, `.static`, `.reverse-proxy` | |
| `RequestProofs` | TLAPS proofs about `Request` | `Request` |
| `Server` | `serve()` of `main.rs`, updater, accept with TLS handshake (`listener.rs`), connections as seen by them | |
| `EngineSource` | the script sources of `main.rs` and `store.rs`, composed with the server | extends `Server` |
| `ServerProofs` | TLAPS proofs about `Server` and `EngineSource` | `Server`, `EngineSource` |
| `SseBus` | `.bus sub \| to sse` end to end | extends `Bus`, refines `EventFeed` |
| `SseBusProofs` | TLAPS proofs about `SseBus` | `SseBus`, `BusProofs` |
| `Brotli` | `BrotliStream` of `compression.rs` | |
| `BrotliProofs` | TLAPS proofs about `Brotli` | `Brotli` |
| `Logging` | the log ring and its two writers in `logging.rs`, the end of `main()`, `eval` as it uses stdout | |
| `LoggingProofs` | TLAPS proofs about `Logging` | `Logging` |
| `Templates` | `.mj`, `.mj compile`, `.mj render` and their cache in `commands.rs` | |
| `TemplatesProofs` | TLAPS proofs about `Templates` | `Templates` |
| `Glob` | `GlobMatcher` of `bus.rs` | |
| `TrustedIp` | `resolve_trusted_ip` of `request.rs` | |
| `SseFormat` | `to sse` of `commands.rs`, and a client that decodes it | |
| `PureCalls` | the pure functions, called with every argument up to a bound | `Glob`, `TrustedIp`, `SseFormat` |
| `PureProofs` | TLAPS proofs about the pure functions | `PureCalls` |
| `MCRequest`, `MCSource`, `MCSseBus`, `MCLogging`, `MCBus`, `MCCalls` | instances for TLC | |
| `MCParts` | instance of `Bus`, `Brotli` and `Server` side by side | `Bus`, `Brotli`, `Server`, `Glob` |
| `MCPages` | instance of `Templates` and `PureCalls` side by side | `Templates`, `PureCalls` |

The operators named `Bad...` are faulty variants of the definition that follows
them: each is a plausible slip in the code that the property named in
`PROJECT.json` catches.

`MCParts` and `MCPages` hold parts that have no variable in common. The variable
`part` says which one moves; the others stay in their initial states. A behaviour
of the parts together, projected to one of them, is a behaviour of that part
(steps of the others stutter for it), and every property is about one part, so
letting them interleave would multiply the states and show nothing more. Fairness
is that of the part that moves: in `MCParts` only the compressor has a fair step
enabled where it begins, so only its fairness has to mention `part`.

### Bus

An event is its position in the ring's total order. `log` holds the topic of
every event the ring ever stored; a receiver has a cursor `next` into it and is
*lagged* when more than `Capacity` events lie behind the cursor. The unbounded
channel is `sent[s]` beyond `taken[s]`. `Publish` is `Bus::publish` (an event
sent when nobody receives is not stored). `Subscribe` is the synchronous part of
`.bus sub`: the receiver exists before the thread. `ForwarderStart`, `RecvSkip`,
`RecvMatch`, `RecvLagged`, `ForwardSend` are the thread; `Pull`, `IterCheck`,
`IterYield`, `IterTimeout`, `IterDisconnected` are the closure behind the
`ListStream`; `Drop` is the pipeline letting go of it. The glob matcher is the
constant `Match`: any relation in the proofs, `Glob`'s `GlobMatches` in the
instances. `RecvError::Closed` cannot happen while the engine, which owns
the bus, lives.

### Request

One request, since requests share only the job table and the log. The closure is
any program: it may read its input, call `.static` or `.reverse-proxy`, return
nothing, a value or a stream, fail, or panic. `Handle` is everything up to the
first await. `Pump...` is the body task, `Eval...`, `Script...`, `Cleanup`,
`ThreadExit` the evaluation thread, `NormalResponse`, `Static...`, `Proxy...` the
handler after `tokio::join!`, `PollFixed`, `PollStream`, `Abort` hyper. Headers,
content types and what the compressor does to a body are left out; a bad header is a choice that leads
to the plain 500. `FailsAfter` is an error of `handle_inner`, which `handle()`
turns into a plain 500: before the response phase (the join failed, a bad header,
`Plain500`) or after it (`compress_full` fails on a body that is complete,
`handler.rs` 482, in `NormalResponse`; the body of a file cannot be read). Statuses are integers truncated to 16 bits as the code does.

### Server

Engines are generations. `FirstEngine` ... `Timeout` follow `serve()` statement
by statement; the updater's receive, cancel and store are three steps. A client
that connects waits in the backlog; with TLS the connection taken from it is in
its handshake, inside `Listener::accept`, and no other is accepted meanwhile.
`Stallers` are the connections whose client may never finish one; a handshake
that fails leaves the loop going, and shutdown drops the one under way. An
accepted connection is `idle`, in a handler (`eval`), or sending an event stream
or another stream; the generation it loaded is kept in `gen`. What happens inside
a request is `Request`'s. Accept errors change nothing.

### EngineSource

Extends `Server`, whose abstract `SourceSends` and `SourceCloses` it uses for
what really feeds the channel: a file, stdin, a topic of the store, or
`--commands`, each with and without `--watch`. The outside is a history of
scripts that parse, do not parse, or are blank; `taken` is the last one read and
`after` the last one that is not the watcher's to deliver. For a file the steps
are the first read, the registration of the watcher by another thread, the
debounce loop (an event of any kind restarts the timeout, only a change makes a
reload pending), the read and the send, which waits for room. For stdin an empty
script ends the reader like EOF. A topic is read once and then followed after the
frame that was read, or from its beginning when that frame had no content and the
placeholder is served. `scriptOf` remembers which script each engine came from.

### SseBus

Extends `Bus`: the thread calls the subscription's iterator (`ReadStarts`,
`ReadEvent`, `ReadEof`), sends into the bounded channel and owns the iterator.
`Poll` looks at the cancel token before data, as the biased `select!` does. The
pipeline is exactly `.bus sub <pattern> | to sse`; a closure in between that
fails would end the stream in the same way as an overrun.

### Brotli

A poll is a sequence of steps, so that the source may produce in between.
Compressed data is what a decoder gets out of it: a header, numbered chunks and
the end mark of FINISH. The codec is external: on PROCESS it may write any part
of what it holds, on FLUSH it writes all of it (and the header, if that is still
missing). `PollChunk`, `PollBudget`, `PollIdle`, `PollEnd`, `PollError` are the
branches of `poll_next`; `EncodeFails` is the encoder's error in any of them.

### Templates

One page and one file it includes, both edited outside. A compiled template is an
entry of the cache under `Key`, the page's text and its directory run together as
`hash_source_and_path` does; the hash is taken to have no collisions. An
environment found in the cache keeps the includes it has loaded. `shown` is a
history of what renders out of the cache have shown.

### Glob, TrustedIp, SseFormat, PureCalls

The functions as operators on sequences of characters, addresses or lines, next
to a definition of what they mean that does not follow the code: cuts of the
string for a glob, positions in the header for the client's address, the rules of
an `EventSource` for the event. A record's `data` is the texts that
`value_to_data_string` makes of it: none of Nothing, one of a string or of another
value, one of each item of a list, which `list` marks. `TrustedIpCorrect` speaks of
the cases on which the repository agrees with itself: it says nothing of a header
whose addresses are all trusted, or that is not text, for which see
`FallsBackToRemote`. `SseRoundTrip` likewise speaks of a text, not of a list
(`ListIsJson`), and of one that is not empty: `lines()` of an empty text is no
line, and the event has no data. `PureCalls` makes one call with any arguments up
to its bounds. A loop or a recursion of the code is a recursive function: `st[k]`
after k characters of the pattern (`GlobMatcherNew`) or k entries of the header
(`ScanHeader`), `m[i][j]` for the parts from i on and the topic from j on
(`MatchParts`). What `str::lines()` returns is said by position: `LineAt(s, k)` is
the text between the last LF before k and k. An `EventSource` joins texts by
putting an LF after each and taking the last one off (`Ended`, `Joined`).

### Logging

An event is a pair of a kind and a subject; `chan` holds what the writer has not
received, `over` what was overwritten since its last receive, so that `Lagged(n)`
is `Cardinality(over)`. Errors, prints and reloads are `note`s. `life` follows
`serve()` and `main()` (server and `eval`) from one log call to the next.
`Jsonl...` are the steps of the JSONL writer: the test for an empty ring comes
after the write, in a step of its own. `Human...` handle one event each, with all
they do: nothing outside reads their state. Tokens are counted in clock ticks;
the time between two requests is any number of ticks. `owed` is a history: what
was emitted before Shutdown and is not yet accounted for. `Retain` is the set
whose one member is the list of the other ids in their order, a form without a
recursion over the list that the proofs can use. `HumanPanics` is the
slice in `truncate_middle` that falls inside a character of a path: the writer
thread is gone, and `join()` returns. The text of the lines and `ActiveZone`, which
erases and reprints the lines of the table, are left out: what remains on the
terminal depends on its width and on what others print there, of which the code
keeps nothing but a count of the lines it printed.

## 3. What the runs check

Passing runs:

* `parts`, the bus, the compressor and the server:
  * the bus: one subscription, with or without a glob, a ring of two slots, four
    publications on two topics: an overrun of a ring that is not empty, and a
    near miss, both happen. `GapFree`, `EndMeansOverrun`, `EventuallyYielded`,
    `ForwarderReleased`, `InterruptEndsIterators`, and `ImplementsFeed`, the
    refinement of `EventFeed`. Subscriptions share only the ring, and the first,
    second and last are proved for any number of them;
  * the compressor: a budget of three chunks and seven chunks: two full budgets
    and one more. `BodyDecodes`, `PendingMeansDelivered`, `BoundedLag`,
    `ChunkDelivered`;
  * the server: two connections, one of which may stall in its TLS handshake, two
    engines (a reload that races requests or falls into shutdown).
    `StaleSseCancelled`, `DrainSseIsLateReload`, `StoppedMeansDrained`,
    `StaleSseEnds`, `SignalStops`, `AcceptsUnlessStalled`.
* `request`: channels of one slot, two request frames, two stream values (so
  that both channels fill up), and statuses that are valid, too small, wrapping
  into the range and negative. `PhaseOrder`, `StreamFaithful`, `LoggedAsSent`
  (a response with a body of its own is sent with the status in the log; nothing
  is claimed of the plain 500, for which see `request_phases`),
  `CancelledStreamErrs`, `CancelEndsSse`, `GoneClientReleases`, `JoinAnswered`.
* `sources`: every kind of source, three scripts of any quality, one change of an
  unrelated file, noise without end, four engines. Three scripts are one before
  the watcher is there, one it reports and one that arrives while it is being
  read or sent. `ScriptsAdvance`, `PanicMeansNoScript`, `AsleepMeansFresh`,
  `ScriptServed`.
* `ssebus`: one subscription, ring of one slot, stream channel of one slot, four
  publications. `CleanEndMeansOverrun`, `ImplementsClientFeed` (the client's view
  end to end is the abstract feed), `ThreadReleased`.
* `logging`: either writer, a ring of two events, a bucket of one token that
  refills in two ticks; with the human writer up to three requests and notes
  together (one shown, one skipped, one that prints the summary), with the JSONL
  writer two. `NoGhosts`, `IdleMeansFlushed`, `AccountedAtExit`,
  `ExitsUnlessOverrun` (Shutdown can be overwritten by requests that outlive the
  stop timeout; then, and only then, `main()` waits for ever).
* `pages`, templates and the pure functions:
  * templates: two threads (symmetric), four versions of the page: two texts, one
    that does not parse and whose key collides, and the first again.
    `RendersItsText`, `StaleOnlyIfShown`;
  * the functions: patterns and topics of up to four characters, three hops with
    every set of trusted addresses, events with up to two texts of three
    characters. `GlobCorrect`, `TrustedIpCorrect`, `SseRoundTrip`. Four characters
    are enough for a literal to fit first in the wrong place.

Deadlock checking is off everywhere because these systems may stop: a request
ends, a server stops, nobody publishes any more. The type invariants are not in
the configurations: they are proved.

Runs that refute a sentence of the repository (details under `findings`):

* `bus_slow`: a slow subscriber is not disconnected, its backlog is unbounded;
* `request_errbody`: the worker's own error response is never sent;
* `logging_eval`: `--log-format jsonl eval` with a result blocks on the lock of
  stdout, which the writer holds;
* `request_phases`: not every request emits three phases (README.md:342). The 500
  that `handle()` makes of an error is logged nowhere: the request has no response
  phase, or one with a status that was not sent;
* `calls_trust`: `resolve_trusted_ip` does not fall back to `remote_ip` when all
  addresses are trusted or the header is not text, as its doc comment
  (`request.rs` 8) says; the comment in its body (49) and a test (174) have the
  leftmost address, which is what the code answers;
* `calls_list`: `to sse` does not serialize a list to JSON (README.md:434 and
  459-460): it writes a data line for each item, as a test
  (`tests/server_test.rs` 1042) expects.

Other places where the code does less than one might expect are stated as the
exact exception in a property that passes:

* an overrun subscription ends its response cleanly, and a clean end does not
  make the client reconnect (`CleanEndMeansOverrun`; the repository's
  README.md:561 speaks of clients reconnecting);
* a reload during shutdown opens event streams that shutdown does not cancel, and
  only such a reload does (`DrainSseIsLateReload`; comment at `main.rs` 422);
* an edit between the first read and the registration of the watcher
  (`main.rs` 173) is served only with the next change; a directory that is never
  quiet for 100 ms starves the reload; an empty script ends the stdin reader
  (`AsleepMeansFresh`, `ScriptServed`);
* a page that includes other files is stale after a reload until the page itself
  changes; a cache key has no separator (`StaleOnlyIfShown`, `RendersItsText`);
* a lone CR in an event's text is a line break that no `data:` follows, so the
  client loses what comes after it; a line break at the end of a text, and a text
  that is empty, do not arrive (`SseRoundTrip`);
* one client in its TLS handshake holds up all others (`AcceptsUnlessStalled`).

## 4. Fairness

* `BusFairness`: the forwarder thread and the iterator's thread are scheduled; a
  pipeline that got a value asks for the next or drops the iterator. Nobody has
  to publish. `SlowBusSpec` leaves the last assumption out.
* `ReqFairness`: threads and tasks are scheduled; a script keeps computing (it
  may block on its input, and on nothing else for ever); hyper notices a closed
  connection and drops what belongs to it, an assumption about hyper. A client
  that stays need not send anything, and has to read only under `ReadingClient`.
  Nothing is assumed of ServeDir or of an upstream server.
* `SrvFairness`: `serve()` and the updater are scheduled, a cancelled event
  stream is polled, and a handshake ends one way or the other unless its client
  is one of `Stallers`. Nothing is assumed of scripts or other streams; the 10 s
  sleep always fires.
* `SrcFairness`: source and server are scheduled. The timeout of the debounce
  loop is strongly fair: the directory falls quiet for 100 ms again and again.
* `BrSpec`, and `PartsSpec` for it: hyper polls a body it holds, after a frame and
  when it is woken.
* `SseFairness`: threads run and clients that stay read.
* `FairLogSpec`: the writer thread is scheduled, and `main()` prints a result,
  sends Shutdown and returns from `join()` when it can. Requests need not end.

## 5. What is proved

`BusProofs`, for any topics, patterns, subscriptions, `Match`, `Capacity > 0`
and number of publications (`MatchAssumption`, `CapacityAssumption`,
`MaxPubAssumption`):

* `BusTypeCorrect`, `BusGapFree`, `BusEndMeansOverrun`: types, `GapFree`,
  `EndMeansOverrun`;
* `BusImplementsFeed`: `BusSpec` implements `EventFeed`.

`GapFree` speaks only of what was sent, so it is not inductive: it says nothing
of events between the last one sent and the receiver's cursor. The invariant
`BusInv` adds, for each subscription, where the cursor stands (`Cursors`), that
what was sent lies before it and in order, with the event in the forwarder's
hands the one just passed (`SentOK`), that no matching event behind the cursor is
missing (`Covered`), and why a forwarder or an iterator stopped (`Ends`). Most
steps touch one subscription; `Frame` carries the invariant of the others across
a longer log. For the refinement, `Neighbours` shows that nothing lies between
two consecutive members of `sent`, so a yield delivers the first wanted event
after the previous one.

`ServerProofs`, for any connections and any number of engines
(`MaxGenAssumption`): `SrvTypeCorrect`, `SrvStaleSseCancelled`, `SrvDrainSse`,
`SrvStoppedMeansDrained`. `StaleSseCancelled` is not inductive because it says
nothing of requests that have loaded an engine and not yet answered, nor of the
updater's position. `SrvInv` adds that engines travel in order (`InOrder`), that
serving starts with an engine (`Begun`), that every replaced engine is cancelled
and the current one is before it is replaced (`OldCancelled`), that requests run
on engines that are or were current (`Loaded`), and what shutdown has cancelled
(`Stopping`).

`RequestProofs`, for any capacity of the two channels, any number of request
frames and streamed values and any statuses (`CapAssumption`, `BoundAssumption`,
`StatusAssumption`): `ReqTypeCorrect`, `PhasesInOrder`, `StreamsFaithfully`,
`LogsWhatWasSent`, and the action property `CancelsWithAnError`. A plain 500 after
the response phase is one of the cases of every step. The properties
speak of the log, the statuses and the client; `ReqInv` adds what they depend on:
which log, which owner of the guard and which statuses go with each position of
the handler (`Logged`, `Statused`), that the handler leaves its join only with an
answer (`MetaOnce`), that every value sent is with the client or in the channel
wherever the receiver is (`Piped`; `StreamFaithful` says so only while the
receiver lives, and a clean end needs it afterwards), and that a clean end was
seen with the sender gone (`CleanEnd`). The steps of the thread and the pump, and
those of the handler, leave each other's part alone (`OthersFrame`,
`HandlerFrame`).

`SseBusProofs`, for any ring, stream channel, subscriptions and patterns (the
assumptions of `Bus` and `StreamCapAssumption`): `SseTypeCorrect`, `SseCleanEnd`
and `SseImplementsFeed`. `SseIsBus` shows that every step of the composition is
one of the bus or leaves it alone, so `BusInv` is reused as it is. `SseInv` adds
that client, channel and thread hold consecutive pieces of what was forwarded
(`Relayed`), and which states of thread, iterator and response body go together
(`Paired`). The refinement maps a poll that delivers to the feed's delivery.
`SseImplementsBus` states the reuse: responses and bus together implement `Bus`,
and with it the feed of every subscription.

`ServerProofs` goes on with `EngineSource`, for any number of scripts, touches and engines
(`MaxScriptsAssumption`: at least two scripts, since a topic may hold two frames
when it is first read; `MaxGenAssumption`): `SrcImplementsServer`, that a source
with the server does nothing that `Server` does not allow, so that the theorems of
`Server` hold with every source; `SrcTypeCorrect`, `SrcScriptsAdvance`,
`SrcPanicMeansNoScript`, `SrcAsleepMeansFresh`. `SrcInv` adds to `SrvInv` which
control states each kind of source has (`Stages`), that what was sent is no newer
than what was read (`Advance`), that a source which has sent nothing and has
nothing in hand has read nothing that parses (`NoneRead`, `Panicked`), and where
an edit that the watcher has to deliver is: in a raw event, pending, being read,
in hand or sent (`Tracked`).

`BrotliProofs`, for any budget and number of chunks and any choice of the encoder
(`BudgetAssumption`): `BrTypeCorrect`, `BodyAlwaysDecodes`, `PendingDelivers`,
`LagIsBounded`. What the client has says nothing of the encoder's buffer, so
`BrInv` keeps the whole pipe: within a poll, what is out, accumulated and held
back are together the header and the chunks taken (`Within`); between polls the
encoder holds nothing (`Between`); before and after the end mark, what the client
has (`Prefix`, `Whole`).

`TemplatesProofs`, for any threads, texts, directories and edits
(`VersionsAssumption`): `AlwaysRendersItsText`, `StaleWasShown`, and
`CompiledIsCached`, which no run states: the `.expect("template not in cache")`
of `CompiledTemplate::render` never fails. The invariant `TplInv` says of each
environment that it is under its own key and that what it has loaded was shown
(`EnvOK`), and of each job that its environment is there and has loaded nothing
older than the job unless it was shown before (`JobOK`). `Gently` is what any
step may do to the cache without disturbing the other threads' jobs.

`LoggingProofs`, for any ring, bucket and number of requests and notes, in both
formats (`LogAssumption`): `LogTypeCorrect`, `ZoneNeverGhosts`,
`IdleIsFlushed`, `ExitAccounts`. `AccountedAtExit` speaks of
the end only and `NoGhosts` of the table only. The books are inductive for what
is *missing* (owed, and neither before the writer nor in its buffer): these are
the requests the human log skipped, as many as its two counters say (`Accounts`).
That needs the ring: a request is in it at most once and before its completion,
it is owed while it is there, and its id is then not in the table (`RingOf`);
nothing behind Shutdown is owed (`Behind`), because events emitted after it are
not; an owed event was issued by its emitter, which will not emit it again
(`Issued`). `Ending` orders the end of the writer and of `main()`, `Buffered` is
`IdleMeansFlushed` with the format's buffer. All steps that emit go through one
predicate (`Announces`), all that receive through `ReceiveRing`, `ReceiveBooks`
and `ReceiveGhosts`; a panic of the writer ends its books, as it does in the code.

`PureProofs`, for arguments of every length, any alphabet and any addresses:
`GlobMatchesMeans` and `ScanHeaderIsClient` (and the lemma `SseArrives`, for any
number of texts) state what the three functions return, in the cases the run's
properties leave out too; `GlobAlways`, `TrustedIpAlways` and `SseAlways` conclude the
run's properties for every bound (`CallsAssumption`: the bounds are naturals).

The library's induction takes the property as an operator, which the provers
cannot instantiate. `SetInduction` takes it as a set: one that has 0, and n + 1
with every n, has every natural, because the least one missing would have a
predecessor (`LeastNat`, from the well-foundedness of <). And a recursive function
is only a CHOOSE until it has a solution: `RecursionExists` shows, by that
induction, that a recursion whose steps stay in a set has one. With both:

* header: `ScannedTo` says what the loop holds after the k entries furthest to the
  right (no untrusted address among them, or the first one that was met), one
  entry keeps it (`ScanRightStep`), and at the end it is `ScanAnswer`: the client
  of `ClientOf`, or else the leftmost address, or else the peer's;
* glob: `Reach` is the set of positions that k pieces of a pattern can reach.
  The meaning of a pattern is to reach the end (`MeansReach`). `NewReaches` shows
  that parsing keeps what is reached: a literal that grows (`LongerLiteral`), a
  buffer that is closed (`CloseFull`), a star after a star (`StarTwice`).
  `MatchReaches` shows that the table of `match_parts`, from its last row up,
  accepts the rests from which the remaining parts reach the end, so that taking
  any cut, not the first one, is what makes the backtracking right;
* `to sse`: `ReadTo` relates, after k characters of a text, the lines so far and
  the characters that should arrive: the lines with an LF after each, followed by
  the unfinished one, are the text without its CRs. Without a lone CR a CR is
  always the one `lines()` drops (`LineAtBreaks`), which is where the exception in
  the property comes from. `LinesArrive` is the result for a text, `DataArrives`
  for several, `OneText` takes the one that is not a list's out again, and `EventValues` puts the fields in front of them.

Each inductive invariant was checked with TLC on the instance of its run before
it was proved.

Only model-checked:

* the liveness properties (`EventuallyYielded`, `ForwarderReleased`,
  `InterruptEndsIterators`, `CancelEndsSse`, `GoneClientReleases`, `JoinAnswered`,
  `StaleSseEnds`, `SignalStops`, `AcceptsUnlessStalled`, `ScriptServed`,
  `ThreadReleased`, `ChunkDelivered`, `ExitsUnlessOverrun`): the prover handles
  neither fairness nor ENABLED;
* the findings, which are refutations.

## 6. What is left

Every invariant, action property and refinement that a run checks is also a
theorem; only liveness rests on the small instances alone. Worth doing next: the
parts listed as partly modelled in `PROJECT.json`, the rewriting of the reverse
proxy's target first, and the safety cores of the liveness properties (what a
waiting thread is waiting for, and that somebody may still provide it).

## 7. Not modelled

* Nushell, its parser and engine set-up (`engine.rs` but for the outcome of a
  parse): sequential calls into a library;
* how the reverse proxy rewrites the target URI, the query and the headers, and
  how a content type is chosen: straight-line code over strings, whose outcome
  matters to no other part;
* `value_to_json` and `value_to_bytes` beyond the fact that they may panic;
* the rows of the terminal (`ActiveZone`): an active line is over 80 columns wide
  and wraps on a narrower terminal, which the code's count of lines does not know;
* `.md` and `.highlight`: pure rendering by libraries;
* addresses, certificates and sockets in `listener.rs`: parsing and I/O;
* argument parsing, the Nushell standard library scripts and the examples.
