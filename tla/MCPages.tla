------------------------------ MODULE MCPages ------------------------------
(* Templates and the pure functions, which share no state, in one run: every
   behaviour is one of one of them, and the other stays where it begins. *)
EXTENDS Templates, PureCalls

CONSTANTS t1, t2

VARIABLE part   \* the one that moves

MCThreads == {t1, t2}

(* The third version does not parse and the last is the first again.  Inline,
   the third has the key of the second, loaded. *)
MCText == << <<"x">>, <<"y">>, <<"y", "/t/">>, <<"x">> >>
MCDir == [loaded |-> <<"/t/", "__inline__">>, inline |-> <<"__inline__">>]
MCBadTexts == {3}
MCSymmetry == Permutations(MCThreads)

MCChars == {"a", "b"}
MCIps == {"p", "q", "r"}

PagesInit == part \in {"templates", "calls"} /\ TplInit /\ CallInit

PagesNext ==
  /\ UNCHANGED part
  /\ \/ part = "templates" /\ TplNext /\ UNCHANGED call
     \/ part = "calls" /\ CallNext /\ UNCHANGED tplVars

PagesSpec == PagesInit /\ [][PagesNext]_<<part, tplVars, call>>
=============================================================================
