------------------------------- MODULE MCBus -------------------------------
(* Instances of Bus for TLC: topics and patterns are strings, matched by the
   glob matcher. *)
EXTENDS Bus, TLC
G == INSTANCE Glob

CONSTANTS s1

MCTopics == {<<"a">>, <<"b">>}
MCPatterns == {<<"a", "*">>}
MCMatch == [p \in MCPatterns |-> {t \in MCTopics : G!GlobMatches(p, t)}]
MCSubs == {s1}
=============================================================================
