------------------------------ MODULE MCSource ------------------------------
(* Instances of EngineSource for TLC. *)
EXTENDS EngineSource

MCNoConns == {}
=============================================================================
