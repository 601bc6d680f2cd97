------------------------------ MODULE MCParts ------------------------------
(* Three parts that share no state - the bus, the compressor and serve() - in
   one run.  Every behaviour is one of one part, and the others stay where they
   begin: steps of different parts commute, so their interleavings would show
   nothing more. *)
EXTENDS Bus, Brotli, Server
G == INSTANCE Glob

CONSTANTS s1, c1, c2

VARIABLE part   \* the part that moves

MCSubs == {s1}
MCTopics == {<<"a">>, <<"b">>}
MCPatterns == {<<"a", "*">>}
MCMatch == [p \in MCPatterns |-> {t \in MCTopics : G!GlobMatches(p, t)}]
MCConns == {c1, c2}
MCStallers == {c2}

PartsInit ==
  /\ part \in {"bus", "compressor", "server"}
  /\ BusInit /\ BrInit /\ SrvInit
  /\ part # "server" => ~tls

PartsNext ==
  /\ UNCHANGED part
  /\ \/ part = "bus" /\ BusNext /\ UNCHANGED <<brVars, srvVars>>
     \/ part = "compressor" /\ BrNext /\ UNCHANGED <<busVars, srvVars>>
     \/ part = "server" /\ SrvNext /\ UNCHANGED <<busVars, brVars>>

(* The fairness of each part.  hyper would poll the compressor from the start,
   so that is asked only where the compressor moves; no fair step of the bus or
   of the server is enabled where they begin. *)
PartsSpec ==
  /\ PartsInit /\ [][PartsNext]_<<part, busVars, brVars, srvVars>>
  /\ BusFairness /\ SrvFairness
  /\ WF_brVars(part = "compressor" /\ PollSteps)
=============================================================================
