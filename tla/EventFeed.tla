----------------------------- MODULE EventFeed -----------------------------
(***************************************************************************)
(* What `.bus sub` promises its caller, without threads, rings or          *)
(* channels.  Every feed reads the one log of published events.  A step of *)
(* a feed hands over the first matching event after the last one handed    *)
(* over, so nothing is skipped, repeated or reordered; a feed may also end *)
(* (for good) or be given up by its reader.                                *)
(***************************************************************************)
EXTENDS Naturals, Sequences

CONSTANTS Topics,     \* topic names
          Patterns,   \* glob patterns
          NoPattern,  \* `.bus sub` without an argument
          Subs,       \* calls of `.bus sub`
          Match       \* the topics each pattern matches

VARIABLES log,        \* published events: log[i] is the topic of event i
          pattern,    \* the pattern of each feed
          pos,        \* the last event handed over (or the log's length at the call)
          status      \* "new", "open", "over"

feedVars == <<log, pattern, pos, status>>

Wanted(p, t) == p # NoPattern => t \in Match[p]

FeedInit ==
  /\ log = <<>>
  /\ pattern = [s \in Subs |-> NoPattern]
  /\ pos = [s \in Subs |-> 0]
  /\ status = [s \in Subs |-> "new"]

\* An event becomes visible to the open feeds.
FeedPublish ==
  /\ \E t \in Topics : log' = Append(log, t)
  /\ UNCHANGED <<pattern, pos, status>>

\* A feed starts with the first event published after the call.
FeedOpen(s) ==
  /\ status[s] = "new"
  /\ status' = [status EXCEPT ![s] = "open"]
  /\ \E p \in Patterns \cup {NoPattern} : pattern' = [pattern EXCEPT ![s] = p]
  /\ pos' = [pos EXCEPT ![s] = Len(log)]
  /\ UNCHANGED log

\* The feed hands over event i, the first wanted one after pos[s].
FeedDeliver(s) ==
  /\ status[s] = "open"
  /\ \E i \in (pos[s] + 1)..Len(log) :
       /\ Wanted(pattern[s], log[i])
       /\ \A j \in (pos[s] + 1)..(i - 1) : ~Wanted(pattern[s], log[j])
       /\ pos' = [pos EXCEPT ![s] = i]
  /\ UNCHANGED <<log, pattern, status>>

FeedOver(s) ==
  /\ status[s] = "open"
  /\ status' = [status EXCEPT ![s] = "over"]
  /\ UNCHANGED <<log, pattern, pos>>

FeedNext ==
  \/ FeedPublish
  \/ \E s \in Subs : FeedOpen(s) \/ FeedDeliver(s) \/ FeedOver(s)

FeedSpec == FeedInit /\ [][FeedNext]_feedVars
=============================================================================
