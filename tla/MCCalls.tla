------------------------------ MODULE MCCalls ------------------------------
(* Instances of PureCalls for TLC. *)
EXTENDS PureCalls

MCChars == {"a", "b"}
MCIps == {"p", "q", "r"}
=============================================================================
