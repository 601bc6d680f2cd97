---------------------------- MODULE EngineSource ----------------------------
(***************************************************************************)
(* Where engines come from: file_source and stdin_source of src/main.rs,   *)
(* Store::topic_source and spawn_topic_watcher of src/store.rs, and        *)
(* --commands, composed with the server they feed through a channel of one *)
(* engine.  The connections of Server take no part.                        *)
(*                                                                         *)
(* What the outside provides is a history of scripts: the contents the     *)
(* watched file has had (an included file's edit is one of its too), the   *)
(* scripts written to stdin, or the frames of the topic.  A script         *)
(*   "good"   parses and yields an engine,                                 *)
(*   "bad"    does not: script_to_engine logs the error and returns None,  *)
(*   "blank"  is none: the file is missing or not UTF-8; the script is     *)
(*            empty (stdin with --watch) or not UTF-8 (stdin without); the *)
(*            frame has no content or not UTF-8.                           *)
(* An edit in several writes is several scripts, the first ones torn.      *)
(***************************************************************************)
EXTENDS Server

CONSTANTS MaxScripts,  \* bound: scripts the outside provides
          MaxTouches   \* bound: changes to unrelated files of the directory

\* A topic may have two frames when the server starts.
ASSUME MaxScriptsAssumption == MaxScripts \in Nat /\ MaxScripts >= 2 /\ MaxTouches \in Nat

VARIABLES
  kind,     \* "file", "stdin", "topic" or "commands"
  watch,    \* --watch
  src,      \* control state of the source
  text,     \* the scripts so far
  eof,      \* the writer has closed stdin
  taken,    \* the script the source has read last (0: none, the placeholder)
  after,    \* scripts beyond this one are the watcher's to deliver
  raw,      \* what waits in the directory watcher's channel
  pending,  \* pending_reload
  touches,  \* changes to unrelated files so far
  scriptOf  \* history: the script of each engine sent

srcVars == <<kind, watch, src, text, eof, taken, after, raw, pending, touches, scriptOf>>
fixed == <<kind, watch>>
allVars == <<srvVars, srcVars>>

Quality == {"good", "bad", "blank"}
Nothing == MaxScripts + 1  \* as `after`: no watcher is there

SrcTypeOK ==
  /\ kind \in {"file", "stdin", "topic", "commands"} /\ watch \in BOOLEAN /\ eof \in BOOLEAN
  /\ src \in {"start", "register", "loop", "reload", "send", "drop", "done", "exited"}
  /\ text \in Seq(Quality) /\ Len(text) <= MaxScripts
  /\ taken \in 0..Len(text) /\ after \in 0..Nothing
  /\ raw \in {"none", "other", "change"} /\ pending \in BOOLEAN
  /\ touches \in 0..MaxTouches
  /\ scriptOf \in Seq(0..MaxScripts) /\ Len(scriptOf) = produced

(* The file and the topic have a past; --watch and --commands exclude each
   other. *)
SrcInit ==
  /\ SrvInit
  /\ kind \in {"file", "stdin", "topic", "commands"}
  /\ watch \in (IF kind = "commands" THEN {FALSE} ELSE BOOLEAN)
  /\ text \in CASE kind = "stdin" -> {<<>>}
                [] kind = "topic" -> UNION {[1..n -> Quality] : n \in 0..2}
                [] kind = "file" -> {<<q>> : q \in Quality}
                [] kind = "commands" -> {<<"good">>, <<"bad">>}
  /\ src = "start" /\ eof = FALSE
  /\ taken = 0 /\ after = Nothing
  /\ raw = "none" /\ pending = FALSE /\ touches = 0
  /\ scriptOf = <<>>

Latest == Len(text)
HasScript(v) == v > 0 /\ text[v] = "good"

(* main awaits the source before it calls serve(); a watcher runs beside it *)
SettingUp == src = "start" \/ (src = "drop" /\ ~watch)
Alive == Running /\ src # "exited"

-----------------------------------------------------------------------------
(* The outside. *)
Write(q) ==
  /\ Alive /\ Latest < MaxScripts
  /\ kind \in {"file", "topic"} \/ (kind = "stdin" /\ ~eof /\ (watch \/ text = <<>>))
  /\ text' = Append(text, q)
  /\ raw' = IF kind = "file" /\ after # Nothing THEN "change" ELSE raw
  /\ UNCHANGED <<srvVars, fixed, src, eof, taken, after, pending, touches, scriptOf>>

CloseStdin ==
  /\ Alive /\ kind = "stdin" /\ ~eof
  /\ eof' = TRUE
  /\ UNCHANGED <<srvVars, fixed, src, text, taken, after, raw, pending, touches, scriptOf>>

(* The watcher reports every change below the script's directory ... *)
Touch ==
  /\ Alive /\ kind = "file" /\ after # Nothing
  /\ touches < MaxTouches /\ touches' = touches + 1
  /\ raw' = "change"
  /\ UNCHANGED <<srvVars, fixed, src, text, eof, taken, after, pending, scriptOf>>

(* ... and accesses and errors, without end. *)
Noise ==
  /\ Alive /\ kind = "file" /\ after # Nothing
  /\ raw = "none" /\ raw' = "other"
  /\ UNCHANGED <<srvVars, fixed, src, text, eof, taken, after, pending, touches, scriptOf>>

-----------------------------------------------------------------------------
(* Engine `v` goes into the channel, when it has room. *)
SendEngine(v) ==
  /\ SourceSends
  /\ scriptOf' = Append(scriptOf, v)

NoSend == UNCHANGED <<srvVars, scriptOf>>

(* script_to_engine and the first send, before the server receives *)
SendFirst(v) == IF v = 0 \/ HasScript(v) THEN SendEngine(v) ELSE NoSend

(* file_source reads the script; process::exit(1) if it cannot.  The thread
   that registers the watcher starts afterwards. *)
FileStart ==
  /\ Running /\ kind = "file" /\ src = "start"
  /\ taken' = Latest
  /\ IF text[Latest] = "blank"
       THEN src' = "exited" /\ NoSend
       ELSE src' = (IF watch THEN "register" ELSE "drop") /\ SendFirst(Latest)
  /\ UNCHANGED <<fixed, text, eof, after, raw, pending, touches>>

(* The watcher sees what happens from here on, or the thread panics. *)
FileRegister ==
  /\ Running /\ src = "register"
  /\ \/ src' = "loop" /\ after' = Latest
     \/ src' = "drop" /\ UNCHANGED after
  /\ UNCHANGED <<srvVars, fixed, text, eof, taken, raw, pending, touches, scriptOf>>

(* recv_timeout returns events; each starts the timeout anew *)
FileReceive ==
  /\ Running /\ kind = "file" /\ src = "loop" /\ raw # "none"
  /\ pending' = (pending \/ raw = "change")
  /\ raw' = "none"
  /\ UNCHANGED <<srvVars, fixed, src, text, eof, taken, after, touches, scriptOf>>

(* 100 ms without an event *)
FileTimeout ==
  /\ Running /\ kind = "file" /\ src = "loop" /\ raw = "none" /\ pending
  /\ pending' = FALSE
  /\ src' = "reload"
  /\ UNCHANGED <<srvVars, fixed, text, eof, taken, after, raw, touches, scriptOf>>

FileReload ==
  /\ Running /\ src = "reload"
  /\ taken' = Latest
  /\ src' = IF HasScript(Latest) THEN "send" ELSE "loop"
  /\ UNCHANGED <<srvVars, fixed, text, eof, after, raw, pending, touches, scriptOf>>

-----------------------------------------------------------------------------
(* stdin with --watch: a thread reads null-terminated scripts. *)
StdinStart ==
  /\ Running /\ kind = "stdin" /\ watch /\ src = "start"
  /\ src' = "loop" /\ after' = 0
  /\ UNCHANGED <<srvVars, fixed, text, eof, taken, raw, pending, touches, scriptOf>>

BadStdinNext ==              \* a script that does not parse ends the reader
  /\ Running /\ kind = "stdin" /\ src = "loop" /\ taken < Latest
  /\ taken' = taken + 1
  /\ src' = IF HasScript(taken + 1) THEN "send" ELSE "drop"
  /\ UNCHANGED <<srvVars, fixed, text, eof, after, raw, pending, touches, scriptOf>>

(* An empty script ends the reader as EOF does. *)
StdinNext ==
  /\ Running /\ kind = "stdin" /\ src = "loop" /\ taken < Latest
  /\ taken' = taken + 1
  /\ src' = CASE text[taken + 1] = "good" -> "send"
              [] text[taken + 1] = "bad" -> "loop"
              [] text[taken + 1] = "blank" -> "drop"
  /\ UNCHANGED <<srvVars, fixed, text, eof, after, raw, pending, touches, scriptOf>>

StdinEof ==
  /\ Running /\ kind = "stdin" /\ src = "loop" /\ taken = Latest /\ eof
  /\ src' = "drop"
  /\ UNCHANGED <<srvVars, fixed, text, eof, taken, after, raw, pending, touches, scriptOf>>

(* stdin without --watch: main reads all of it as one script, .expect()ing
   UTF-8; an empty one does not parse. *)
StdinOnce ==
  /\ Running /\ kind = "stdin" /\ ~watch /\ src = "start" /\ eof
  /\ taken' = Latest
  /\ IF Latest > 0 /\ text[Latest] = "blank"
       THEN src' = "exited" /\ NoSend
       ELSE src' = "drop" /\ IF Latest = 0 THEN NoSend ELSE SendFirst(Latest)
  /\ UNCHANGED <<fixed, text, eof, after, raw, pending, touches>>

CommandsOnce ==
  /\ Running /\ kind = "commands" /\ src = "start"
  /\ taken' = Latest /\ src' = "drop"
  /\ SendFirst(Latest)
  /\ UNCHANGED <<fixed, text, eof, after, raw, pending, touches>>

-----------------------------------------------------------------------------
(* read_topic_content: the topic's last frame and its id, if it has content *)
BadTopicContent == Latest    \* no fallback for a frame without content

TopicContent == IF Latest > 0 /\ text[Latest] # "blank" THEN Latest ELSE 0

BadTopicStart ==             \* follow the topic from its beginning
  /\ Running /\ kind = "topic" /\ src = "start"
  /\ SendFirst(TopicContent)
  /\ taken' = 0
  /\ IF watch THEN src' = "loop" /\ after' = taken'
              ELSE src' = "drop" /\ UNCHANGED after
  /\ UNCHANGED <<fixed, text, eof, raw, pending, touches>>

(* Without content the placeholder is served (script 0), and the watcher
   follows the topic from its beginning instead of after that frame. *)
TopicStart ==
  /\ Running /\ kind = "topic" /\ src = "start"
  /\ SendFirst(TopicContent)
  /\ taken' = TopicContent
  /\ IF watch THEN src' = "loop" /\ after' = taken'
              ELSE src' = "drop" /\ UNCHANGED after
  /\ UNCHANGED <<fixed, text, eof, raw, pending, touches>>

TopicNext ==
  /\ Running /\ kind = "topic" /\ src = "loop" /\ taken < Latest
  /\ taken' = taken + 1
  /\ src' = IF HasScript(taken + 1) THEN "send" ELSE "loop"
  /\ UNCHANGED <<srvVars, fixed, text, eof, after, raw, pending, touches, scriptOf>>

-----------------------------------------------------------------------------
BadSend ==                   \* discard the events that came during the reload
  /\ src = "send"
  /\ SendEngine(taken)
  /\ src' = "loop" /\ raw' = "none"
  /\ UNCHANGED <<fixed, text, eof, taken, after, pending, touches>>

(* blocking_send in a watcher: waits for room, fails when the server is gone *)
Send ==
  /\ src = "send"
  /\ SendEngine(taken)
  /\ src' = "loop"
  /\ UNCHANGED <<fixed, text, eof, taken, after, raw, pending, touches>>

SendFails ==
  /\ src = "send" /\ ~Running
  /\ src' = "done"
  /\ UNCHANGED <<srvVars, fixed, text, eof, taken, after, raw, pending, touches, scriptOf>>

(* The source returns, or its thread ends: the sender is dropped. *)
DropSender ==
  /\ src = "drop"
  /\ SourceCloses
  /\ src' = "done"
  /\ UNCHANGED <<fixed, text, eof, taken, after, raw, pending, touches, scriptOf>>

-----------------------------------------------------------------------------
Starting == FileStart \/ StdinStart \/ StdinOnce \/ CommandsOnce \/ TopicStart
Source == Starting \/ FileRegister \/ FileReceive \/ FileReload
          \/ StdinNext \/ StdinEof \/ TopicNext \/ Send \/ SendFails \/ DropSender

ServerStep == ~SettingUp /\ src # "exited" /\ (Serve \/ Updater) /\ UNCHANGED srcVars

SrcNext ==
  \/ \E q \in Quality : Write(q)
  \/ CloseStdin \/ Touch \/ Noise
  \/ Source \/ FileTimeout \/ ServerStep
  \/ Signal /\ UNCHANGED srcVars

SrcSpec == SrcInit /\ [][SrcNext]_allVars

(* Source and server are scheduled; the directory falls quiet for 100 ms time
   and again (a directory that never does starves the reload for ever). *)
SrcFairness ==
  /\ WF_allVars(Source)
  /\ SF_allVars(FileTimeout)
  /\ WF_allVars(ServerStep)

FairSrcSpec == SrcSpec /\ SrcFairness

-----------------------------------------------------------------------------
(* No source goes back: engines come in the order of their scripts, each frame
   of a topic and each script on stdin once, wherever the topic's first read,
   its watcher and new frames fall; only a touched file is sent again. *)
ScriptsAdvance ==
  \A i, j \in 1..Len(scriptOf) :
    i < j => \/ scriptOf[i] < scriptOf[j]
             \/ kind = "file" /\ scriptOf[i] = scriptOf[j]

(* main panics for want of an engine only if nothing that was read parses, and
   never because a topic's last frame has no content. *)
PanicMeansNoScript ==
  main = "panicked" =>
    /\ scriptOf = <<>>
    /\ \A v \in 1..taken : (kind = "stdin" \/ v = taken) => ~HasScript(v)
    /\ kind = "topic" => taken > 0 /\ text[taken] = "bad"

(* A file watcher that has gone to sleep has delivered the current script: no
   edit is lost between an event, the debounce, the read and the send.  Only
   an edit made before the watcher was registered can be. *)
AsleepMeansFresh ==
  kind = "file" /\ src = "loop" /\ raw = "none" /\ ~pending
    /\ Latest > after /\ HasScript(Latest)
      => scriptOf # <<>> /\ scriptOf[Len(scriptOf)] = Latest

(* Every script that is the watcher's to deliver - one that parses, written to
   the file after the watcher was registered, or to stdin before an empty
   script, or appended to the topic after the frame first read - is served
   while the server runs, unless the file moves on. *)
Due(v) ==
  /\ after < v /\ v <= Latest /\ HasScript(v)
  /\ kind = "stdin" => \A u \in 1..v : text[u] # "blank"

ScriptServed ==
  \A v \in 1..MaxScripts :
    Due(v) ~> \/ current > 0 /\ scriptOf[current] >= v
              \/ kind = "file" /\ Latest > v
              \/ ~Running
=============================================================================
