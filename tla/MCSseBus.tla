------------------------------ MODULE MCSseBus ------------------------------
(* Instances of SseBus for TLC, with the topics and patterns of strings. *)
EXTENDS SseBus, TLC
G == INSTANCE Glob

CONSTANTS s1

MCTopics == {<<"a">>, <<"b">>}
MCPatterns == {<<"a", "*">>}
MCMatch == [p \in MCPatterns |-> {t \in MCTopics : G!GlobMatches(p, t)}]
MCSubs == {s1}
=============================================================================
