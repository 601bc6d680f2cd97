------------------------------ MODULE PureCalls ------------------------------
(***************************************************************************)
(* The pure functions of the server, each called once with arguments of a  *)
(* bounded size and compared with what it means.                           *)
(***************************************************************************)
EXTENDS Glob, TrustedIp, SseFormat

CONSTANTS Chars,     \* characters of patterns and topics besides "*"
          MaxGlob,   \* bound: length of patterns and topics
          Ips,       \* addresses
          MaxHops,   \* bound: entries of X-Forwarded-For
          MaxText    \* bound: length of one data text

ASSUME CallsAssumption == MaxGlob \in Nat /\ MaxHops \in Nat /\ MaxText \in Nat

VARIABLE call   \* the call made, with its arguments

Idle == [fn |-> "none"]

CallInit == call = Idle

CallMatches ==
  /\ call = Idle
  /\ \E p \in BoundedSeq(Chars \cup {"*"}, MaxGlob), s \in BoundedSeq(Chars, MaxGlob) :
       call' = [fn |-> "matches", pattern |-> p, topic |-> s]

CallResolve ==
  /\ call = Idle
  /\ \E xff \in BoundedSeq(Ips \cup {Junk}, MaxHops) \cup {NoHeader, NotText},
        remote \in Ips \cup {None}, trusted \in SUBSET Ips, proxies \in BOOLEAN :
       /\ ~proxies => trusted = {}
       /\ call' = [fn |-> "resolve", xff |-> xff, remote |-> remote, trusted |-> trusted,
                   proxies |-> proxies]

CallToSse ==
  /\ call = Idle
  /\ \E data \in BoundedSeq(BoundedSeq({"x", "LF", "CR"}, MaxText), 2), list \in BOOLEAN,
        event \in {Nothing, <<"x">>}, id \in {Nothing, <<"x">>} :
       /\ ~list => Len(data) <= 1
       /\ call' = [fn |-> "sse", rec |-> [event |-> event, id |-> id, retry |-> Nothing,
                                          list |-> list, data |-> data]]

CallNext == CallMatches \/ CallResolve \/ CallToSse

CallSpec == CallInit /\ [][CallNext]_call

-----------------------------------------------------------------------------
(* `.bus sub`'s matcher, which merges stars, cuts the pattern into parts and
   backtracks over every rest of the topic, accepts exactly the topics its
   pattern means: stars in a row, at either end, on the empty topic and where
   the first place a literal fits is the wrong one. *)
GlobCorrect ==
  call.fn = "matches" =>
    (GlobMatches(call.pattern, call.topic) <=> GlobMeans(call.pattern, call.topic))

(* README: "parsing `X-Forwarded-For` right-to-left, stopping at the first IP
   not in a trusted range": the client is the untrusted address furthest to the
   right, whatever stands left of it and whichever entries do not parse; "falls
   back to `remote_ip`" without proxies, from a peer that is not one, without
   the header, and when no entry of it parses. *)
TrustedIpCorrect ==
  call.fn = "resolve" =>
    LET ip == ResolveTrustedIp(call.xff, call.remote, call.proxies, call.trusted)
        believed == call.proxies /\ call.remote \in call.trusted \cup {None}
    IN  IF ~believed \/ call.xff = NoHeader THEN ip = call.remote
        ELSE call.xff # NotText =>
               /\ Untrusted(call.xff, call.trusted) # {} => ip = ClientOf(call.xff, call.trusted)
               /\ Valid(call.xff) = {} => ip = call.remote

(* A client decodes from `to sse` the text that went in, its line breaks
   included but for one at the end, and the event's name and id.  A lone CR is
   excepted: lines() keeps it and a client does not. *)
SseRoundTrip ==
  call.fn = "sse" /\ ~call.rec.list =>
    \A k \in 1..Len(call.rec.data) :
      call.rec.data[k] # <<>> /\ ~LoneCr(call.rec.data[k]) =>
        LET wire == EventToString(call.rec)
        IN  /\ Dispatched(wire)
            /\ DecodedData(wire) = Arrives(call.rec.data[k])
            /\ DecodedField(wire, "event") = call.rec.event
            /\ DecodedField(wire, "id") = call.rec.id

-----------------------------------------------------------------------------
(* The doc comment of resolve_trusted_ip: "Falls back to remote_ip if no valid
   header or all IPs are trusted proxies." *)
FallsBackToRemote ==
  call.fn = "resolve" /\ call.xff # NoHeader =>
    (call.xff = NotText \/ Untrusted(call.xff, call.trusted) = {}
      => ResolveTrustedIp(call.xff, call.remote, call.proxies, call.trusted) = call.remote)

(* README, `to sse`: "Non-string `data` values are serialized to JSON", with
   `{data: [1 2 3]}` giving `data: [1,2,3]`: a list is one JSON text, so it is
   sent as one line. *)
ListIsJson ==
  call.fn = "sse" /\ call.rec.list =>
    Len(Values(EventToString(call.rec), "data")) = 1
=============================================================================
